-------------------------- MODULE DocReversalProofs --------------------------
(***************************************************************************)
(* Theorems of DocReversal, for every number of requests, postings,        *)
(* cabinets and cards, and whatever faults occur: the type invariant, and  *)
(* what the journal and the register promise each other.                   *)
(*                                                                         *)
(* The argument.  A document's moves are written all at once, so once it   *)
(* has some they never change (OwnMoves, PostedWhole); what a request read *)
(* of the card it reverses is still so (Remembers), and its own card is    *)
(* touched by nobody else until it is linked (OwnCard, OwnApart).  A       *)
(* request about to COMMIT found nothing reversed, or raced (ReadyOrRaced, *)
(* BothRaced).  Two requests at one document share its cards' cabinet or   *)
(* have parts apart (SamePart), which is where PartsHaveCards is needed.   *)
(***************************************************************************)
EXTENDS DocReversal, TLAPS

Working == {"check", "commit", "link", "mark", "drop"}
Written == {"link", "mark"}

(* Ids not given yet are not spoken of.                                    *)
Unborn ==
    \A i \in Ids : i > made =>
        /\ cards[i] = Absent /\ i \notin cut
        /\ \A e \in register : e.doc # i
        /\ \A r \in Requests : req[r].own # i

(* A posting's moves are written all at once.                              *)
PostedWhole ==
    \A e \in register : e.doc \in Postings =>
        \A c \in Parts[e.doc] :
            \E f \in register : f.doc = e.doc /\ f.cab = c

(* A reversal's moves carry the id of its card.                            *)
ReversalIds == \A e \in register : e.reverses # NoDoc => e.doc \in Ids

(* A card has the moves it names, and is one of those its posting gets.    *)
CardHasMoves ==
    \A i \in Ids : cards[i].movement # NoDoc =>
        /\ cards[i].status # "none"
        /\ Lines(cards[i].movement, cards[i].cab) # {}
        /\ cards[i].movement \in Postings =>
             cards[i].cab \in CardCabs[cards[i].movement]
        /\ cards[i].movement \in Ids => cards[i].movement = i
ReversedHasMoves ==
    \A i \in Ids : cards[i].status = "reversed" => cards[i].movement # NoDoc

(* What a request remembers is still so.                                   *)
Remembers ==
    \A r \in Requests :
        IF req[r].at = "idle" THEN req[r] = Idle
        ELSE /\ req[r].card \in Ids /\ req[r].doc # NoDoc
             /\ cards[req[r].card].movement = req[r].doc
             /\ cards[req[r].card].cab = req[r].cab

(* A working request has a card of its own, linked by nobody else.         *)
OwnCard ==
    \A r \in Requests :
        /\ req[r].at = "insert" => req[r].own = 0
        /\ req[r].at \in Working =>
             /\ req[r].own \in Ids
             /\ cards[req[r].own].status # "none"
             /\ cards[req[r].own].reverses = req[r].card
             /\ cards[req[r].own].cab = req[r].cab
        /\ req[r].at \in Working \ {"mark"} =>
             /\ cards[req[r].own].movement = NoDoc
             /\ cards[req[r].own].status = "posted"
        /\ req[r].at = "mark" =>
             \/ cards[req[r].own].movement = req[r].own
             \/ cards[req[r].own].movement = NoDoc /\ req[r].own \in cut
OwnApart ==
    \A r, q \in Requests : req[r].own = req[q].own /\ req[r].own # 0 => r = q

(* Its moves are written all at once, from the COMMIT on.                  *)
OwnMoves ==
    \A r \in Requests :
        /\ req[r].at \in {"check", "commit"} =>
             \A e \in register : e.doc # req[r].own
        /\ req[r].at = "drop" =>
             req[r].own \in cut \/ \A e \in register : e.doc # req[r].own
        /\ req[r].at \in Written =>
             /\ \A e \in Lines(req[r].doc, req[r].cab) :
                  [doc |-> req[r].own, cab |-> e.cab, reverses |-> e.doc]
                      \in register
             /\ \A e \in register :
                  e.doc = req[r].own => e.reverses = req[r].doc

(* Whoever may COMMIT found the part not reversed, or is racing.           *)
ReadyOrRaced ==
    \A r \in Requests : req[r].at = "commit" =>
        \A e \in register :
            e.reverses = req[r].doc /\ InPart(e, req[r].cab) =>
                <<e.reverses, e.cab>> \in raced
BothRaced ==
    \A r, q \in Requests :
        /\ r # q /\ req[r].at = "commit" /\ req[q].at = "commit"
        /\ req[r].doc = req[q].doc /\ req[r].cab = req[q].cab
        => PartsOf(req[r].doc, req[r].cab) \subseteq raced

IInv ==
    /\ TypeOK /\ MarkedIsUndone /\ UndoneOnce
    /\ JournalFollows /\ NoEmptyCard
    /\ Unborn /\ PostedWhole /\ ReversalIds /\ CardHasMoves /\ ReversedHasMoves
    /\ Remembers /\ OwnCard /\ OwnApart /\ OwnMoves
    /\ ReadyOrRaced /\ BothRaced

(* What each step does, card by card and request by request.               *)

At(r, place) ==
    [at |-> place, card |-> req[r].card, doc |-> req[r].doc,
     cab |-> req[r].cab, own |-> req[r].own]

OthersStay(r) == \A q \in Requests : q # r => req'[q] = req[q]
OnlyCard(i) == \A j \in Ids : j # i => cards'[j] = cards[j]

LEMMA GotoDoes ==
    ASSUME TypeOK, NEW r \in Requests, NEW place, Goto(r, place)
    PROVE  OthersStay(r) /\ req'[r] = At(r, place)
  BY DEF TypeOK, Goto, At, OthersStay

LEMMA EndDoes ==
    ASSUME TypeOK, NEW r \in Requests, End(r)
    PROVE  OthersStay(r) /\ req'[r] = Idle
  BY DEF TypeOK, End, OthersStay

LEMMA RewrittenDoes ==
    ASSUME TypeOK, NEW i \in Ids, NEW status, NEW movement, NEW by,
           cards' = Rewritten(i, status, movement, by)
    PROVE  /\ OnlyCard(i)
           /\ cards'[i] = [status |-> status, movement |-> movement,
                           cab |-> cards[i].cab,
                           reverses |-> cards[i].reverses, reversedBy |-> by]
  BY DEF TypeOK, Rewritten, OnlyCard

LEMMA RewrittenTyped ==
    ASSUME TypeOK, NEW i \in Ids, NEW status \in {"posted", "reversed"},
           NEW movement \in Docs \cup {NoDoc}, NEW by \in Ids \cup {0}
    PROVE  Rewritten(i, status, movement, by) \in [Ids -> Card]
  BY DEF TypeOK, Rewritten, Card

LEMMA GotoTyped ==
    ASSUME TypeOK, NEW r \in Requests, NEW place \in Places, Goto(r, place)
    PROVE  req' \in [Requests -> Req]
  BY DEF TypeOK, Goto, Req

LEMMA EndTyped ==
    ASSUME TypeOK, NEW r \in Requests, End(r)
    PROVE  req' \in [Requests -> Req]
  BY DEF TypeOK, End, Req, Idle, Places, Cabs

LEMMA HasLines ==
    ASSUME IInv, NEW q \in Requests, req[q].at # "idle"
    PROVE  /\ req[q].doc \in Docs /\ req[q].cab \in Cabs
           /\ Lines(req[q].doc, req[q].cab) # {}
<1>1. /\ req[q].card \in Ids /\ req[q].doc # NoDoc
      /\ cards[req[q].card].movement = req[q].doc
      /\ cards[req[q].card].cab = req[q].cab
  BY DEF IInv, Remembers
<1>2. req[q].doc \in Docs /\ req[q].cab \in Cabs
  BY <1>1 DEF IInv, TypeOK, Req
<1> QED BY <1>1, <1>2 DEF IInv, CardHasMoves

(* Two requests at one document have the same part of it or parts apart.   *)
LEMMA SamePart ==
    ASSUME IInv, NEW q \in Requests, NEW r \in Requests,
           req[q].at # "idle", req[r].at # "idle", req[q].doc = req[r].doc
    PROVE  \/ req[q].cab = req[r].cab
           \/ req[q].cab # NoCabinet /\ req[r].cab # NoCabinet
<1>1. \A p \in {q, r} : /\ req[p].card \in Ids /\ req[p].doc \in Docs
                        /\ cards[req[p].card].movement = req[p].doc
                        /\ cards[req[p].card].cab = req[p].cab
                        /\ req[p].doc # NoDoc
  BY HasLines DEF IInv, Remembers
<1>2. CASE req[q].doc \in Ids
  BY <1>1, <1>2 DEF IInv, CardHasMoves
<1>3. CASE req[q].doc \in Postings
  <2>1. \A p \in {q, r} : req[p].cab \in CardCabs[req[q].doc]
    BY <1>1, <1>3 DEF IInv, CardHasMoves
  <2> QED BY <1>3, <2>1, PartsHaveCards
<1> QED BY <1>1, <1>2, <1>3 DEF Docs

LEMMA PostInv ==
    ASSUME IInv, NEW d \in Postings, Post(d)
    PROVE  IInv'
<1>1. UNCHANGED <<cards, made, req, raced, cut>>
  BY DEF Post
<1>2. /\ \A e \in register : e.doc # d
      /\ register \subseteq register'
      /\ \A e \in register' : e \in register
           \/ (e.doc = d /\ e.cab \in Parts[d] /\ e.reverses = NoDoc)
      /\ \A c \in Parts[d] :
           [doc |-> d, cab |-> c, reverses |-> NoDoc] \in register'
  <2>1. /\ \A e \in register : e.doc # d
        /\ register' = register \cup
             {[doc |-> d, cab |-> c, reverses |-> NoDoc] : c \in Parts[d]}
    BY DEF Post
  <2>2. \A c \in Parts[d] :
          [doc |-> d, cab |-> c, reverses |-> NoDoc] \in register'
    <3> TAKE c \in Parts[d]
    <3>1. [doc |-> d, cab |-> c, reverses |-> NoDoc] \in
            {[doc |-> d, cab |-> k, reverses |-> NoDoc] : k \in Parts[d]}
      OBVIOUS
    <3> QED BY <2>1, <3>1
  <2> QED BY <2>1, <2>2
<1> USE PostingsApart
<1>3. TypeOK'
  <2>1. Parts[d] \subseteq Cabs /\ d \in Docs
    BY PartsHaveCards DEF Cabs, Docs
  <2>2. \A e \in {[doc |-> d, cab |-> c, reverses |-> NoDoc] : c \in Parts[d]} :
          e \in Entry
    BY <2>1 DEF Entry
  <2>3. register' \subseteq Entry
    BY <2>2 DEF IInv, TypeOK, Post
  <2> QED BY <1>1, <2>3 DEF IInv, TypeOK
<1>4. Unborn'
  BY <1>1, <1>2 DEF IInv, OthersStay, OnlyCard, At, Working, Written, Idle,
      Absent, Ids, Docs, Cabs, TypeOK, Unborn, Remembers, OwnCard
<1>5. PostedWhole'
  <2>1. \A c \in Parts[d] : \E f \in register' : f.doc = d /\ f.cab = c
    BY <1>2
  <2> QED BY <1>2, <2>1 DEF IInv, PostedWhole
<1>6. ReversalIds'
  BY <1>1, <1>2 DEF IInv, OthersStay, OnlyCard, At, Working, Written, Idle,
      Absent, Ids, Docs, Cabs, ReversalIds, OwnCard
<1>7. CardHasMoves'
  BY <1>1, <1>2 DEF IInv, OthersStay, OnlyCard, At, Working, Written, Idle,
      Absent, Ids, Docs, Cabs, InPart, Lines, CardHasMoves, Remembers,
      OwnCard, Unborn, TypeOK, Card, Req
<1>8. ReversedHasMoves'
  BY <1>1, <1>2 DEF IInv, OthersStay, OnlyCard, At, Working, Written, Idle,
      Absent, Ids, Docs, Cabs, ReversedHasMoves, Remembers, OwnCard, TypeOK,
      Req, Card
<1>9. Remembers'
  BY <1>1, <1>2 DEF IInv, OthersStay, OnlyCard, At, Working, Written, Idle,
      Absent, Ids, Docs, Cabs, Remembers, OwnCard, Unborn, TypeOK, Req, Card
<1>10. OwnCard'
  BY <1>1, <1>2 DEF IInv, OthersStay, OnlyCard, At, Working, Written, Idle,
      Absent, Ids, Docs, Cabs, Remembers, OwnCard, OwnApart, Unborn, TypeOK,
      Req, Card
<1>11. OwnApart'
  BY <1>1, <1>2 DEF IInv, OthersStay, OnlyCard, At, Working, Written, Idle,
      Absent, Ids, Docs, Cabs, OwnApart, Unborn, TypeOK, Req, OwnCard,
      Remembers
<1>12. OwnMoves'
  <2>1. \A q \in Requests : req[q].own # d
    BY DEF IInv, TypeOK, Req, Ids
  <2>2. \A q \in Requests : req[q].at # "idle" => req[q].doc # d
    BY <1>2, HasLines DEF Lines
  <2>3. \A e \in register' : e.doc # d => e \in register
    BY <1>2
  <2>4. req' = req /\ cut' = cut /\ register \subseteq register'
    BY <1>1, <1>2
  <2>5. \A q \in Requests : req[q].at \in Written =>
          Lines(req[q].doc, req[q].cab)' = Lines(req[q].doc, req[q].cab)
    BY <2>2, <2>3, <2>4 DEF Lines, InPart, Written
  <2> QED BY <2>1, <2>3, <2>4, <2>5 DEF IInv, OwnMoves, Written
<1>13. ReadyOrRaced'
  BY <1>1, <1>2 DEF IInv, OthersStay, OnlyCard, At, Working, Written, Idle,
      Absent, Ids, Docs, Cabs, InPart, Lines, ReadyOrRaced, Remembers,
      CardHasMoves, TypeOK, Req, PartsOf
<1>14. BothRaced'
  BY <1>1, <1>2 DEF IInv, OthersStay, OnlyCard, At, Working, Written, Idle,
      Absent, Ids, Docs, Cabs, InPart, Lines, BothRaced, Remembers,
      CardHasMoves, TypeOK, Req, PartsOf
<1>15. MarkedIsUndone'
  BY <1>1, <1>2 DEF IInv, OthersStay, OnlyCard, At, Working, Written, Idle,
      Absent, Ids, Docs, Cabs, InPart, Lines, MarkedIsUndone, CardHasMoves,
      OwnCard, Remembers, TypeOK, Req, Card
<1>16. UndoneOnce'
  BY <1>1, <1>2 DEF IInv, OthersStay, OnlyCard, At, Working, Written, Idle,
      Absent, Ids, Docs, Cabs, UndoneOnce, TypeOK
<1>17. JournalFollows'
  BY <1>1, <1>2 DEF IInv, OthersStay, OnlyCard, At, Working, Written, Idle,
      Absent, Ids, Docs, Cabs, JournalFollows
<1>18. NoEmptyCard'
  BY <1>1, <1>2 DEF IInv, OthersStay, OnlyCard, At, Working, Written, Idle,
      Absent, Ids, Docs, Cabs, NoEmptyCard, OwnCard, OwnApart, Remembers,
      Unborn, TypeOK, Req, Card
<1> QED BY <1>3, <1>4, <1>5, <1>6, <1>7, <1>8, <1>9, <1>10, <1>11, <1>12, <1>13,
    <1>14, <1>15, <1>16, <1>17, <1>18 DEF IInv

LEMMA RecordInv ==
    ASSUME IInv, NEW d \in Postings, NEW c \in Cabs, Record(d, c)
    PROVE  IInv'
<1>1. /\ c \in CardCabs[d] /\ \E e \in register : e.doc = d
      /\ made' = made + 1 /\ made' \in Ids /\ OnlyCard(made')
      /\ cards'[made'] =
           [status |-> "posted", movement |-> d, cab |-> c,
            reverses |-> 0, reversedBy |-> 0]
      /\ UNCHANGED <<register, req, raced, cut>>
  BY MaxCardsIsNat DEF IInv, TypeOK, Record, OnlyCard, Ids
<1> USE PostingsApart
<1>2. TypeOK'
  <2>1. cards' \in [Ids -> Card]
    BY <1>1 DEF IInv, TypeOK, Record, Card, Docs
  <2>2. made' \in 0..MaxCards
    BY <1>1, MaxCardsIsNat DEF IInv, TypeOK, Ids
  <2> QED BY <1>1, <2>1, <2>2 DEF IInv, TypeOK
<1>3. Unborn'
  BY MaxCardsIsNat, <1>1 DEF IInv, OthersStay, OnlyCard, At, Working,
      Written, Idle, Absent, Ids, Docs, Cabs, TypeOK, Unborn, Remembers,
      OwnCard
<1>4. PostedWhole'
  BY <1>1 DEF IInv, PostedWhole
<1>5. ReversalIds'
  BY <1>1 DEF IInv, ReversalIds
<1>6. CardHasMoves'
  <2>1. Lines(d, c) # {}
    <3>1. PICK e \in register : e.doc = d
      BY <1>1
    <3>2. CASE c = NoCabinet
      BY <3>1, <3>2 DEF Lines, InPart
    <3>3. CASE c \in Parts[d]
      BY <3>1, <3>3 DEF IInv, PostedWhole, Lines, InPart
    <3> QED BY <1>1, <3>2, <3>3, PartsHaveCards
  <2>2. \A i \in Ids : i # made' => cards'[i] = cards[i]
    BY <1>1 DEF OnlyCard
  <2>3. \A doc, cab : Lines(doc, cab)' = Lines(doc, cab)
    BY <1>1 DEF Lines
  <2>4. cards'[made'].movement = d /\ cards'[made'].cab = c
        /\ cards'[made'].status # "none" /\ c \in CardCabs[d] /\ d \notin Ids
    BY <1>1 DEF Ids
  <2> QED BY <2>1, <2>2, <2>3, <2>4 DEF IInv, CardHasMoves
<1>7. ReversedHasMoves'
  BY <1>1 DEF IInv, OthersStay, OnlyCard, At, Working, Written, Idle, Absent,
      Ids, Docs, Cabs, ReversedHasMoves, Remembers, OwnCard, TypeOK, Req,
      Card
<1>8. Remembers'
  BY <1>1 DEF IInv, OthersStay, OnlyCard, At, Working, Written, Idle, Absent,
      Ids, Docs, Cabs, Remembers, OwnCard, Unborn, TypeOK, Req, Card
<1>9. OwnCard'
  BY <1>1 DEF IInv, OthersStay, OnlyCard, At, Working, Written, Idle, Absent,
      Ids, Docs, Cabs, Remembers, OwnCard, OwnApart, Unborn, TypeOK, Req,
      Card
<1>10. OwnApart'
  BY <1>1 DEF IInv, OthersStay, OnlyCard, At, Working, Written, Idle, Absent,
      Ids, Docs, Cabs, OwnApart, Unborn, TypeOK, Req, OwnCard, Remembers
<1>11. OwnMoves'
  BY <1>1 DEF IInv, OthersStay, OnlyCard, At, Working, Written, Idle, Absent,
      Ids, Docs, Cabs, InPart, Lines, OwnMoves, OwnApart, OwnCard, Remembers,
      Unborn, TypeOK, Req, Entry
<1>12. ReadyOrRaced'
  BY <1>1 DEF IInv, OthersStay, OnlyCard, At, Working, Written, Idle, Absent,
      Ids, Docs, Cabs, InPart, Lines, ReadyOrRaced, Remembers, TypeOK, Req
<1>13. BothRaced'
  BY <1>1 DEF IInv, OthersStay, OnlyCard, At, Working, Written, Idle, Absent,
      Ids, Docs, Cabs, InPart, Lines, BothRaced, Remembers, TypeOK, Req,
      PartsOf
<1>14. MarkedIsUndone'
  BY <1>1 DEF IInv, OthersStay, OnlyCard, At, Working, Written, Idle, Absent,
      Ids, Docs, Cabs, InPart, Lines, MarkedIsUndone, CardHasMoves, OwnCard,
      Remembers, TypeOK, Req, Card
<1>15. UndoneOnce'
  BY <1>1 DEF IInv, OthersStay, OnlyCard, At, Working, Written, Idle, Absent,
      Ids, Docs, Cabs, UndoneOnce, TypeOK
<1>16. JournalFollows'
  BY <1>1 DEF IInv, OthersStay, OnlyCard, At, Working, Written, Idle, Absent,
      Ids, Docs, Cabs, JournalFollows, Unborn, ReversalIds, TypeOK, Card
<1>17. NoEmptyCard'
  BY <1>1 DEF IInv, OthersStay, OnlyCard, At, Working, Written, Idle, Absent,
      Ids, Docs, Cabs, NoEmptyCard, OwnCard, OwnApart, Remembers, Unborn,
      TypeOK, Req, Card
<1> QED BY <1>2, <1>3, <1>4, <1>5, <1>6, <1>7, <1>8, <1>9, <1>10, <1>11, <1>12,
    <1>13, <1>14, <1>15, <1>16, <1>17 DEF IInv

LEMMA OpenInv ==
    ASSUME IInv, NEW r \in Requests, NEW i \in Ids, Open(r, i)
    PROVE  IInv'
<1>1. /\ req[r].at = "idle" /\ OthersStay(r)
      /\ cards[i].status = "posted" /\ cards[i].movement # NoDoc
      /\ req'[r] = [at |-> "insert", card |-> i,
                    doc |-> cards[i].movement, cab |-> cards[i].cab,
                    own |-> 0]
      /\ UNCHANGED <<register, cards, made, raced, cut>>
  BY DEF IInv, TypeOK, Open, OthersStay
<1> USE PostingsApart
<1>2. TypeOK'
  BY DEF Open, Goto, End, AfterError, PartsOf, Lines, IInv, TypeOK, Entry,
         Card, Req, Places, Idle, Ids, Docs, Cabs, Remembers
<1>3. Unborn'
  BY <1>1 DEF IInv, OthersStay, OnlyCard, At, Working, Written, Idle, Absent,
      Ids, Docs, Cabs, TypeOK, Unborn, Remembers, OwnCard
<1>4. PostedWhole'
  BY <1>1 DEF IInv, PostedWhole
<1>5. ReversalIds'
  BY <1>1 DEF IInv, ReversalIds
<1>6. CardHasMoves'
  BY <1>1 DEF IInv, OthersStay, OnlyCard, At, Working, Written, Idle, Absent,
      Ids, Docs, Cabs, InPart, Lines, CardHasMoves, Remembers, OwnCard,
      Unborn, TypeOK, Card, Req
<1>7. ReversedHasMoves'
  BY <1>1 DEF IInv, OthersStay, OnlyCard, At, Working, Written, Idle, Absent,
      Ids, Docs, Cabs, ReversedHasMoves, Remembers, OwnCard, TypeOK, Req,
      Card
<1>8. Remembers'
  BY <1>1 DEF IInv, OthersStay, OnlyCard, At, Working, Written, Idle, Absent,
      Ids, Docs, Cabs, Remembers, OwnCard, Unborn, TypeOK, Req, Card
<1>9. OwnCard'
  BY <1>1 DEF IInv, OthersStay, OnlyCard, At, Working, Written, Idle, Absent,
      Ids, Docs, Cabs, Remembers, OwnCard, OwnApart, Unborn, TypeOK, Req,
      Card
<1>10. OwnApart'
  BY <1>1 DEF IInv, OthersStay, OnlyCard, At, Working, Written, Idle, Absent,
      Ids, Docs, Cabs, OwnApart
<1>11. OwnMoves'
  BY <1>1 DEF IInv, OthersStay, OnlyCard, At, Working, Written, Idle, Absent,
      Ids, Docs, Cabs, InPart, Lines, OwnMoves, OwnApart, OwnCard, Remembers,
      Unborn, TypeOK, Req, Entry
<1>12. ReadyOrRaced'
  BY <1>1 DEF IInv, OthersStay, OnlyCard, At, Working, Written, Idle, Absent,
      Ids, Docs, Cabs, InPart, Lines, ReadyOrRaced, Remembers, TypeOK, Req
<1>13. BothRaced'
  BY <1>1 DEF IInv, OthersStay, OnlyCard, At, Working, Written, Idle, Absent,
      Ids, Docs, Cabs, InPart, Lines, BothRaced, Remembers, TypeOK, Req,
      PartsOf
<1>14. MarkedIsUndone'
  BY <1>1 DEF IInv, OthersStay, OnlyCard, At, Working, Written, Idle, Absent,
      Ids, Docs, Cabs, InPart, Lines, MarkedIsUndone, CardHasMoves, OwnCard,
      Remembers, TypeOK, Req, Card
<1>15. UndoneOnce'
  BY <1>1 DEF IInv, OthersStay, OnlyCard, At, Working, Written, Idle, Absent,
      Ids, Docs, Cabs, UndoneOnce, TypeOK
<1>16. JournalFollows'
  BY <1>1 DEF IInv, OthersStay, OnlyCard, At, Working, Written, Idle, Absent,
      Ids, Docs, Cabs, JournalFollows, Remembers
<1>17. NoEmptyCard'
  BY <1>1 DEF IInv, OthersStay, OnlyCard, At, Working, Written, Idle, Absent,
      Ids, Docs, Cabs, NoEmptyCard, Remembers
<1> QED BY <1>2, <1>3, <1>4, <1>5, <1>6, <1>7, <1>8, <1>9, <1>10, <1>11, <1>12,
    <1>13, <1>14, <1>15, <1>16, <1>17 DEF IInv

LEMMA InsertInv ==
    ASSUME IInv, NEW r \in Requests, Insert(r)
    PROVE  IInv'
<1>1. /\ req[r].at = "insert" /\ OthersStay(r)
      /\ made' = made + 1 /\ made' \in Ids /\ OnlyCard(made')
      /\ cards'[made'] = NewCard(r)
      /\ \/ /\ cut' = cut
            /\ req'[r] = [at |-> "check", card |-> req[r].card,
                          doc |-> req[r].doc, cab |-> req[r].cab,
                          own |-> made']
         \/ req'[r] = Idle /\ cut' = cut \cup {made'}
      /\ UNCHANGED <<register, raced>>
  <2>0. TypeOK
    BY DEF IInv
  <2>1. made' = made + 1 /\ made' \in Ids /\ OnlyCard(made')
    BY <2>0, MaxCardsIsNat DEF TypeOK, Insert, OnlyCard, Ids
  <2>2. cards'[made'] = NewCard(r) /\ UNCHANGED <<register, raced>>
    BY <2>0, <2>1 DEF TypeOK, Insert
  <2>3. CASE End(r) /\ cut' = cut \cup {made'}
    BY <2>0, <2>1, <2>2, <2>3, EndDoes DEF Insert
  <2>4. CASE /\ req' = [req EXCEPT ![r] =
                          [at |-> "check", card |-> req[r].card,
                           doc |-> req[r].doc, cab |-> req[r].cab, own |-> made']]
             /\ UNCHANGED cut
    BY <2>0, <2>1, <2>2, <2>4 DEF TypeOK, Insert, OthersStay
  <2> QED BY <2>3, <2>4 DEF Insert
<1> USE PostingsApart
<1>2. TypeOK'
  <2>1. NewCard(r) \in Card
    BY <1>1 DEF IInv, TypeOK, Req, NewCard, Card, Remembers, Ids
  <2>2. cards' \in [Ids -> Card]
    BY <1>1, <2>1 DEF IInv, TypeOK, Insert
  <2>3. req' \in [Requests -> Req]
    <3>1. CASE End(r)
      BY <3>1, EndTyped DEF IInv
    <3>2. CASE ~End(r)
      BY <1>1, <3>2 DEF IInv, TypeOK, Insert, Req, Places
    <3> QED BY <3>1, <3>2
  <2>4. cut' \subseteq Ids
    BY <1>1 DEF IInv, TypeOK
  <2>5. made' \in 0..MaxCards
    BY <1>1, MaxCardsIsNat DEF Ids
  <2> QED BY <1>1, <2>2, <2>3, <2>4, <2>5 DEF IInv, TypeOK
<1>3. Unborn'
  <2>1. \A i \in Ids : i > made' => i > made /\ i # made'
    BY <1>1, MaxCardsIsNat DEF IInv, TypeOK, Ids
  <2>2. \A i \in Ids : i > made' => cards'[i] = cards[i] /\ i \notin cut'
    BY <1>1, <2>1 DEF IInv, Unborn, OnlyCard
  <2>3. \A i \in Ids, q \in Requests : i > made' => req'[q].own # i
    BY <1>1, <2>1 DEF IInv, Unborn, OthersStay, Idle, Ids
  <2> QED BY <1>1, <2>1, <2>2, <2>3 DEF IInv, Unborn
<1>4. PostedWhole'
  BY <1>1 DEF IInv, PostedWhole
<1>5. ReversalIds'
  BY <1>1 DEF IInv, ReversalIds
<1>6. CardHasMoves'
  BY <1>1 DEF IInv, OthersStay, OnlyCard, At, Working, Written, Idle, Absent,
      Ids, Docs, Cabs, NewCard, InPart, Lines, CardHasMoves, Remembers,
      OwnCard, Unborn, TypeOK, Card, Req
<1>7. ReversedHasMoves'
  BY <1>1 DEF IInv, OthersStay, OnlyCard, At, Working, Written, Idle, Absent,
      Ids, Docs, Cabs, NewCard, ReversedHasMoves, Remembers, OwnCard, TypeOK,
      Req, Card
<1>8. Remembers'
  BY <1>1 DEF IInv, OthersStay, OnlyCard, At, Working, Written, Idle, Absent,
      Ids, Docs, Cabs, NewCard, Remembers, OwnCard, Unborn, TypeOK, Req, Card
<1>9. OwnCard'
  BY MaxCardsIsNat, <1>1 DEF IInv, OthersStay, OnlyCard, At, Working,
      Written, Idle, Absent, Ids, Docs, Cabs, NewCard, Remembers, OwnCard,
      OwnApart, Unborn, TypeOK, Req, Card
<1>10. OwnApart'
  <2>1. \A q \in Requests : req[q].own # made'
    BY <1>1, MaxCardsIsNat DEF IInv, Unborn, TypeOK
  <2>2. req'[r].own = 0 \/ req'[r].own = made'
    BY <1>1 DEF Idle
  <2>3. \A q \in Requests : q # r => req'[q] = req[q]
    BY <1>1 DEF OthersStay
  <2> QED BY <2>1, <2>2, <2>3 DEF IInv, OwnApart
<1>11. OwnMoves'
  BY <1>1 DEF IInv, OthersStay, OnlyCard, At, Working, Written, Idle, Absent,
      Ids, Docs, Cabs, NewCard, InPart, Lines, OwnMoves, OwnApart, OwnCard,
      Remembers, Unborn, TypeOK, Req, Entry
<1>12. ReadyOrRaced'
  BY <1>1 DEF IInv, OthersStay, OnlyCard, At, Working, Written, Idle, Absent,
      Ids, Docs, Cabs, NewCard, InPart, Lines, ReadyOrRaced, Remembers,
      TypeOK, Req
<1>13. BothRaced'
  BY <1>1 DEF IInv, OthersStay, OnlyCard, At, Working, Written, Idle, Absent,
      Ids, Docs, Cabs, NewCard, InPart, Lines, BothRaced, Remembers, TypeOK,
      Req, PartsOf
<1>14. MarkedIsUndone'
  BY <1>1 DEF IInv, OthersStay, OnlyCard, At, Working, Written, Idle, Absent,
      Ids, Docs, Cabs, NewCard, InPart, Lines, MarkedIsUndone, CardHasMoves,
      OwnCard, Remembers, TypeOK, Req, Card
<1>15. UndoneOnce'
  BY <1>1 DEF IInv, OthersStay, OnlyCard, At, Working, Written, Idle, Absent,
      Ids, Docs, Cabs, NewCard, UndoneOnce, TypeOK
<1>16. JournalFollows'
  <2>1. \A q \in Requests : req[q].at \in {"link", "mark"} => req'[q] = req[q]
    BY <1>1 DEF OthersStay
  <2>2. \A i \in Ids : i # made' => cards'[i] = cards[i]
    BY <1>1 DEF OnlyCard
  <2>3. cards[made'] = Absent /\ \A e \in register : e.doc # made'
    BY <1>1, MaxCardsIsNat DEF IInv, Unborn, TypeOK
  <2>4. ASSUME NEW e \in register, e.reverses # NoDoc,
               cards[e.doc].movement = e.doc, cards[e.doc].status # "none",
               \E i \in Ids : /\ i = cards[e.doc].reverses
                              /\ cards[i].status = "reversed"
                              /\ cards[i].movement = e.reverses
        PROVE  /\ cards'[e.doc] = cards[e.doc]
               /\ \E i \in Ids : /\ i = cards'[e.doc].reverses
                                 /\ cards'[i].status = "reversed"
                                 /\ cards'[i].movement = e.reverses
    <3>1. cards'[e.doc] = cards[e.doc]
      BY <2>2, <2>3, <2>4 DEF IInv, ReversalIds
    <3> QED BY <2>2, <2>3, <2>4, <3>1 DEF Absent
  <2> QED BY <1>1, <2>1, <2>4 DEF IInv, JournalFollows
<1>17. NoEmptyCard'
  <2>1. \A q \in Requests : req[q].own \in Ids => q # r
    BY <1>1 DEF IInv, OwnCard, Ids
  <2>2. made' \in cut' \/ req'[r].own = made'
    BY <1>1
  <2>3. cut \subseteq cut' /\ r \in Requests
    BY <1>1
  <2> QED BY <1>1, <2>1, <2>2, <2>3
          DEF IInv, NoEmptyCard, OthersStay, OnlyCard
<1> QED BY <1>2, <1>3, <1>4, <1>5, <1>6, <1>7, <1>8, <1>9, <1>10, <1>11, <1>12,
    <1>13, <1>14, <1>15, <1>16, <1>17 DEF IInv

LEMMA CheckInv ==
    ASSUME IInv, NEW r \in Requests, Check(r)
    PROVE  IInv'
<1>1. /\ req[r].at = "check" /\ OthersStay(r)
      /\ \/ /\ AlreadyReversed(req[r].doc, req[r].cab)
            /\ req'[r] = At(r, "drop") /\ raced' = raced
         \/ /\ ~AlreadyReversed(req[r].doc, req[r].cab)
            /\ req'[r] = At(r, "commit")
            /\ raced \subseteq raced'
            /\ raced' \subseteq raced \cup PartsOf(req[r].doc, req[r].cab)
            /\ (\E q \in Requests : /\ req[q].at = "commit"
                                    /\ req[q].doc = req[r].doc
                                    /\ req[q].cab = req[r].cab)
                 => PartsOf(req[r].doc, req[r].cab) \subseteq raced'
      /\ UNCHANGED <<register, cards, made, cut>>
  <2>0. TypeOK
    BY DEF IInv
  <2>1. CASE AlreadyReversed(req[r].doc, req[r].cab)
    BY <2>0, <2>1, GotoDoes DEF Check, AfterError
  <2>2. CASE ~AlreadyReversed(req[r].doc, req[r].cab)
    <3>1. Goto(r, "commit")
      BY <2>2 DEF Check, AlreadyReversed
    <3> QED BY <2>0, <2>2, <3>1, GotoDoes DEF Check
  <2> QED BY <2>1, <2>2
<1> USE PostingsApart
<1>2. TypeOK'
  BY DEF Check, Goto, End, AfterError, PartsOf, Lines, IInv, TypeOK, Entry,
         Card, Req, Places, Idle, Ids, Docs, Cabs, Remembers
<1>3. Unborn'
  BY <1>1 DEF IInv, OthersStay, OnlyCard, At, Working, Written, Idle, Absent,
      Ids, Docs, Cabs, AlreadyReversed, TypeOK, Unborn, Remembers, OwnCard
<1>4. PostedWhole'
  BY <1>1 DEF IInv, PostedWhole
<1>5. ReversalIds'
  BY <1>1 DEF IInv, ReversalIds
<1>6. CardHasMoves'
  BY <1>1 DEF IInv, OthersStay, OnlyCard, At, Working, Written, Idle, Absent,
      Ids, Docs, Cabs, AlreadyReversed, InPart, Lines, CardHasMoves,
      Remembers, OwnCard, Unborn, TypeOK, Card, Req
<1>7. ReversedHasMoves'
  BY <1>1 DEF IInv, OthersStay, OnlyCard, At, Working, Written, Idle, Absent,
      Ids, Docs, Cabs, AlreadyReversed, ReversedHasMoves, Remembers, OwnCard,
      TypeOK, Req, Card
<1>8. Remembers'
  BY <1>1 DEF IInv, OthersStay, OnlyCard, At, Working, Written, Idle, Absent,
      Ids, Docs, Cabs, AlreadyReversed, Remembers, OwnCard, Unborn, TypeOK,
      Req, Card
<1>9. OwnCard'
  BY <1>1 DEF IInv, OthersStay, OnlyCard, At, Working, Written, Idle, Absent,
      Ids, Docs, Cabs, AlreadyReversed, Remembers, OwnCard, OwnApart, Unborn,
      TypeOK, Req, Card
<1>10. OwnApart'
  BY <1>1 DEF IInv, OthersStay, OnlyCard, At, Working, Written, Idle, Absent,
      Ids, Docs, Cabs, AlreadyReversed, OwnApart, Unborn, TypeOK, Req,
      OwnCard, Remembers
<1>11. OwnMoves'
  BY <1>1 DEF IInv, OthersStay, OnlyCard, At, Working, Written, Idle, Absent,
      Ids, Docs, Cabs, AlreadyReversed, InPart, Lines, OwnMoves, OwnApart,
      OwnCard, Remembers, Unborn, TypeOK, Req, Entry
<1>12. ReadyOrRaced'
  BY <1>1 DEF IInv, OthersStay, OnlyCard, At, Working, Written, Idle, Absent,
      Ids, Docs, Cabs, AlreadyReversed, InPart, Lines, ReadyOrRaced,
      Remembers, TypeOK, Req
<1>13. BothRaced'
  <2>1. /\ raced \subseteq raced' /\ register' = register
        /\ \A q \in Requests : q # r => req'[q] = req[q]
    BY <1>1 DEF OthersStay
  <2>2. req'[r].doc = req[r].doc /\ req'[r].cab = req[r].cab
    BY <1>1 DEF At
  <2>3. \A doc, cab : PartsOf(doc, cab)' = PartsOf(doc, cab)
    BY <2>1 DEF PartsOf, Lines, InPart
  <2>4. ASSUME NEW q \in Requests, q # r, req[q].at = "commit",
               req'[r].at = "commit", req[q].doc = req[r].doc,
               req[q].cab = req[r].cab
        PROVE  PartsOf(req[r].doc, req[r].cab) \subseteq raced'
    BY <1>1, <2>4 DEF At
  <2>5. SUFFICES ASSUME NEW p \in Requests, NEW q \in Requests, p # q,
                        req'[p].at = "commit", req'[q].at = "commit",
                        req'[p].doc = req'[q].doc, req'[p].cab = req'[q].cab
        PROVE  PartsOf(req'[p].doc, req'[p].cab) \subseteq raced'
    BY <2>3 DEF BothRaced
  <2>6. CASE p = r \/ q = r
    BY <2>1, <2>2, <2>4, <2>5, <2>6
  <2>7. CASE p # r /\ q # r
    BY <2>1, <2>5, <2>7 DEF IInv, BothRaced
  <2> QED BY <2>6, <2>7
<1>14. MarkedIsUndone'
  BY <1>1 DEF IInv, OthersStay, OnlyCard, At, Working, Written, Idle, Absent,
      Ids, Docs, Cabs, AlreadyReversed, InPart, Lines, MarkedIsUndone,
      CardHasMoves, OwnCard, Remembers, TypeOK, Req, Card
<1>15. UndoneOnce'
  BY <1>1 DEF IInv, OthersStay, OnlyCard, At, Working, Written, Idle, Absent,
      Ids, Docs, Cabs, AlreadyReversed, UndoneOnce, TypeOK
<1>16. JournalFollows'
  <2>1. \A q \in Requests : /\ req'[q].own = req[q].own
                            /\ req[q].at \in {"link", "mark"} =>
                                req'[q].at \in {"link", "mark"}
    BY <1>1 DEF OthersStay, At
  <2> QED BY <1>1, <2>1 DEF IInv, JournalFollows
<1>17. NoEmptyCard'
  <2>1. \A q \in Requests : req'[q].own = req[q].own
    BY <1>1 DEF OthersStay, At
  <2> QED BY <1>1, <2>1 DEF IInv, NoEmptyCard
<1> QED BY <1>2, <1>3, <1>4, <1>5, <1>6, <1>7, <1>8, <1>9, <1>10, <1>11, <1>12,
    <1>13, <1>14, <1>15, <1>16, <1>17 DEF IInv

LEMMA CommitInv ==
    ASSUME IInv, NEW r \in Requests, Commit(r)
    PROVE  IInv'
<1>1. /\ req[r].at = "commit" /\ OthersStay(r)
      /\ \/ req'[r] = At(r, "link") /\ cut' = cut
         \/ req'[r] = At(r, "drop") /\ cut' = cut \cup {req[r].own}
      /\ UNCHANGED <<cards, made, raced>>
  BY GotoDoes DEF IInv, Commit, AfterError
<1>2. /\ register \subseteq register'
      /\ \A f \in Lines(req[r].doc, req[r].cab) :
           [doc |-> req[r].own, cab |-> f.cab, reverses |-> req[r].doc]
               \in register'
      /\ \A e \in register' : e \in register
           \/ /\ e.doc = req[r].own /\ e.reverses = req[r].doc
              /\ \E f \in Lines(req[r].doc, req[r].cab) : f.cab = e.cab
  BY DEF Commit
<1> USE PostingsApart
<1>3. TypeOK'
  <2>1. req' \in [Requests -> Req]
    BY GotoTyped DEF IInv, Commit, AfterError, Places
  <2>2. req[r].own \in Docs /\ req[r].own \in Ids /\ req[r].doc \in Docs
    BY <1>1 DEF IInv, OwnCard, Remembers, Working, Docs, TypeOK, Req
  <2>3. register' \subseteq Entry
    BY <2>2 DEF IInv, TypeOK, Commit, Lines, Entry
  <2> QED BY <1>1, <2>1, <2>2, <2>3 DEF IInv, TypeOK
<1>4. Unborn'
  BY <1>1, <1>2 DEF IInv, OthersStay, OnlyCard, At, Working, Written, Idle,
      Absent, Ids, Docs, Cabs, TypeOK, Unborn, Remembers, OwnCard
<1>5. PostedWhole'
  BY <1>1, <1>2 DEF IInv, OthersStay, OnlyCard, At, Working, Written, Idle,
      Absent, Ids, Docs, Cabs, PostedWhole, OwnCard
<1>6. ReversalIds'
  BY <1>1, <1>2 DEF IInv, OthersStay, OnlyCard, At, Working, Written, Idle,
      Absent, Ids, Docs, Cabs, ReversalIds, OwnCard
<1>7. CardHasMoves'
  BY PartsHaveCards, CabinetsApart, <1>1, <1>2 DEF IInv, OthersStay,
      OnlyCard, At, Working, Written, Idle, Absent, Ids, Docs, Cabs, InPart,
      Lines, CardHasMoves, Remembers, OwnCard, Unborn, TypeOK, Card, Req
<1>8. ReversedHasMoves'
  BY <1>1, <1>2 DEF IInv, OthersStay, OnlyCard, At, Working, Written, Idle,
      Absent, Ids, Docs, Cabs, ReversedHasMoves, Remembers, OwnCard, TypeOK,
      Req, Card
<1>9. Remembers'
  BY <1>1, <1>2 DEF IInv, OthersStay, OnlyCard, At, Working, Written, Idle,
      Absent, Ids, Docs, Cabs, Remembers, OwnCard, Unborn, TypeOK, Req, Card
<1>10. OwnCard'
  BY <1>1, <1>2 DEF IInv, OthersStay, OnlyCard, At, Working, Written, Idle,
      Absent, Ids, Docs, Cabs, Remembers, OwnCard, OwnApart, Unborn, TypeOK,
      Req, Card
<1>11. OwnApart'
  BY <1>1, <1>2 DEF IInv, OthersStay, OnlyCard, At, Working, Written, Idle,
      Absent, Ids, Docs, Cabs, OwnApart, Unborn, TypeOK, Req, OwnCard,
      Remembers
<1>12. OwnMoves'
  <2>1. /\ req[r].own \in Ids /\ \A e \in register : e.doc # req[r].own
    BY <1>1 DEF IInv, OwnCard, OwnMoves, Working
  <2>2. \A q \in Requests : req[q].at # "idle" => req[q].doc # req[r].own
    BY <2>1, HasLines DEF Lines
  <2>3. \A q \in Requests : q # r => req'[q] = req[q]
    BY <1>1 DEF OthersStay
  <2>4. \A e \in register' : e \notin register =>
          /\ e.doc = req[r].own /\ e.reverses = req[r].doc
          /\ \E f \in Lines(req[r].doc, req[r].cab) : f.cab = e.cab
    BY <1>2
  <2>5. \A q \in Requests : q # r /\ req[q].at # "idle" =>
          req[q].own # req[r].own
    BY <2>1 DEF IInv, OwnApart, Ids
  <2>6. \A q \in Requests : req[q].at # "idle" =>
          \A e \in register' : e.doc = req[q].doc => e \in register
    BY <2>2, <2>4
  <2>7. /\ req'[r].own = req[r].own /\ req'[r].doc = req[r].doc
        /\ req'[r].cab = req[r].cab /\ cut \subseteq cut'
        /\ \/ req'[r].at = "link"
           \/ req'[r].at = "drop" /\ req[r].own \in cut'
    <3>1. CASE req'[r] = At(r, "link") /\ cut' = cut
      BY <3>1 DEF At
    <3>2. CASE req'[r] = At(r, "drop") /\ cut' = cut \cup {req[r].own}
      BY <3>2 DEF At
    <3> QED BY <1>1, <3>1, <3>2
  <2>8. ASSUME NEW q \in Requests, q # r
        PROVE  /\ req'[q].at \in {"check", "commit"} =>
                    \A e \in register' : e.doc # req'[q].own
               /\ req'[q].at = "drop" =>
                    \/ req'[q].own \in cut'
                    \/ \A e \in register' : e.doc # req'[q].own
    BY <2>3, <2>4, <2>5, <2>7, <2>8 DEF IInv, OwnMoves
  <2>9. ASSUME NEW q \in Requests, q # r, req[q].at \in Written
        PROVE  /\ \A e \in register' :
                    e.doc = req[q].doc /\ InPart(e, req[q].cab) =>
                      [doc |-> req[q].own, cab |-> e.cab, reverses |-> e.doc]
                          \in register'
               /\ \A e \in register' :
                    e.doc = req[q].own => e.reverses = req[q].doc
    BY <1>2, <2>4, <2>5, <2>6, <2>9 DEF IInv, OwnMoves, Written, Lines
  <2>10. /\ \A e \in register' :
              e.doc = req[r].doc /\ InPart(e, req[r].cab) =>
                [doc |-> req[r].own, cab |-> e.cab, reverses |-> e.doc]
                    \in register'
         /\ \A e \in register' :
              e.doc = req[r].own => e.reverses = req[r].doc
    BY <1>1, <1>2, <2>1, <2>4, <2>6 DEF Lines
  <2> QED BY <2>3, <2>7, <2>8, <2>9, <2>10
          DEF OwnMoves, Written, Lines, InPart
<1>13. ReadyOrRaced'
  <2>1. /\ req[r].own \in Ids /\ \A e \in register : e.doc # req[r].own
    BY <1>1 DEF IInv, OwnCard, OwnMoves, Working
  <2>2. \A q \in Requests : req[q].at # "idle" => req[q].doc # req[r].own
    BY <2>1, HasLines DEF Lines
  <2>3. \A q \in Requests : q # r => req'[q] = req[q]
    BY <1>1 DEF OthersStay
  <2>4. \A e \in register' : e \notin register =>
          /\ e.doc = req[r].own /\ e.reverses = req[r].doc
          /\ \E f \in Lines(req[r].doc, req[r].cab) : f.cab = e.cab
    BY <1>2
  <2>5. SUFFICES ASSUME NEW q \in Requests, q # r, req[q].at = "commit",
                        NEW e \in register', e.reverses = req[q].doc,
                        InPart(e, req[q].cab)
        PROVE  <<e.reverses, e.cab>> \in raced
    BY <1>1, <2>3 DEF ReadyOrRaced, InPart, At
  <2>6. CASE e \in register
    BY <2>5, <2>6 DEF IInv, ReadyOrRaced
  <2>7. CASE e \notin register
    <3>1. PICK f \in Lines(req[r].doc, req[r].cab) : f.cab = e.cab
      BY <2>4, <2>7
    <3>2. req[q].doc = req[r].doc
      BY <2>4, <2>5, <2>7
    <3>3. req[q].cab = req[r].cab
      <4>1. CASE req[q].cab # NoCabinet /\ req[r].cab # NoCabinet
        BY <2>5, <3>1, <4>1 DEF Lines, InPart
      <4> QED BY <1>1, <2>5, <3>2, <4>1, SamePart
    <3>4. PartsOf(req[r].doc, req[r].cab) \subseteq raced
      BY <1>1, <2>5, <3>2, <3>3 DEF IInv, BothRaced
    <3> QED BY <2>5, <3>1, <3>2, <3>4 DEF PartsOf
  <2> QED BY <2>6, <2>7
<1>14. BothRaced'
  <2>1. /\ req[r].own \in Ids /\ \A e \in register : e.doc # req[r].own
    BY <1>1 DEF IInv, OwnCard, OwnMoves, Working
  <2>2. \A q \in Requests : req[q].at # "idle" => req[q].doc # req[r].own
    BY <2>1, HasLines DEF Lines
  <2>3. \A q \in Requests : q # r => req'[q] = req[q]
    BY <1>1 DEF OthersStay
  <2>4. \A e \in register' : e \notin register =>
          /\ e.doc = req[r].own /\ e.reverses = req[r].doc
          /\ \E f \in Lines(req[r].doc, req[r].cab) : f.cab = e.cab
    BY <1>2
  <2>5. SUFFICES ASSUME NEW p \in Requests, NEW q \in Requests, p # q,
                        p # r, q # r, req[p].at = "commit",
                        req[q].at = "commit", req[p].doc = req[q].doc,
                        req[p].cab = req[q].cab
        PROVE  PartsOf(req[p].doc, req[p].cab)' \subseteq raced
    BY <1>1, <2>3 DEF BothRaced, At, PartsOf, Lines, InPart
  <2>6. \A e \in register' : e.doc = req[p].doc => e \in register
    BY <2>2, <2>4, <2>5
  <2>7. PartsOf(req[p].doc, req[p].cab) \subseteq raced
    BY <2>5 DEF IInv, BothRaced
  <2> QED BY <2>3, <2>5, <2>6, <2>7 DEF PartsOf, Lines, InPart
<1>15. MarkedIsUndone'
  BY <1>1, <1>2 DEF IInv, OthersStay, OnlyCard, At, Working, Written, Idle,
      Absent, Ids, Docs, Cabs, InPart, Lines, MarkedIsUndone, CardHasMoves,
      OwnCard, Remembers, TypeOK, Req, Card
<1>16. UndoneOnce'
  <2>1. /\ req[r].own \in Ids /\ \A e \in register : e.doc # req[r].own
    BY <1>1 DEF IInv, OwnCard, OwnMoves, Working
  <2>2. \A q \in Requests : req[q].at # "idle" => req[q].doc # req[r].own
    BY <2>1, HasLines DEF Lines
  <2>3. \A q \in Requests : q # r => req'[q] = req[q]
    BY <1>1 DEF OthersStay
  <2>4. \A e \in register' : e \notin register =>
          /\ e.doc = req[r].own /\ e.reverses = req[r].doc
          /\ \E f \in Lines(req[r].doc, req[r].cab) : f.cab = e.cab
    BY <1>2
  <2>5. SUFFICES ASSUME NEW e \in register', NEW f \in register',
                        e.reverses = f.reverses, e.cab = f.cab,
                        e.reverses # NoDoc, <<e.reverses, e.cab>> \notin raced
        PROVE  e = f
    BY <1>1 DEF UndoneOnce
  <2>6. \A g \in Lines(req[r].doc, req[r].cab) : InPart(g, req[r].cab)
    BY DEF Lines
  <2>7. ASSUME NEW g \in register, NEW h \in register', h \notin register,
               g.reverses = h.reverses, g.cab = h.cab
        PROVE  <<g.reverses, g.cab>> \in raced
    <3>1. g.reverses = req[r].doc /\ InPart(g, req[r].cab)
      BY <2>4, <2>6, <2>7 DEF InPart
    <3> QED BY <1>1, <3>1 DEF IInv, ReadyOrRaced
  <2>8. \A g \in register' : g \in Entry
    BY <1>3 DEF TypeOK
  <2>9. CASE e \in register /\ f \in register
    BY <2>5, <2>9 DEF IInv, UndoneOnce
  <2>10. CASE e \notin register /\ f \notin register
    BY <2>4, <2>5, <2>8, <2>10 DEF Entry
  <2> QED BY <2>5, <2>7, <2>9, <2>10
<1>17. JournalFollows'
  <2>1. /\ req[r].own \in Ids /\ \A e \in register : e.doc # req[r].own
    BY <1>1 DEF IInv, OwnCard, OwnMoves, Working
  <2>2. \A q \in Requests : req[q].at # "idle" => req[q].doc # req[r].own
    BY <2>1, HasLines DEF Lines
  <2>3. \A q \in Requests : q # r => req'[q] = req[q]
    BY <1>1 DEF OthersStay
  <2>4. \A e \in register' : e \notin register =>
          /\ e.doc = req[r].own /\ e.reverses = req[r].doc
          /\ \E f \in Lines(req[r].doc, req[r].cab) : f.cab = e.cab
    BY <1>2
  <2>5. \/ req'[r].at = "link" /\ req'[r].own = req[r].own
        \/ req[r].own \in cut'
    BY <1>1 DEF At
  <2>6. cut \subseteq cut' /\ req[r].at = "commit" /\ cards' = cards
    BY <1>1
  <2>7. ASSUME NEW e \in register', e \in register, e.reverses # NoDoc,
               e.doc \notin cut'
        PROVE  \/ \E q \in Requests : /\ req'[q].own = e.doc
                                      /\ req'[q].at \in {"link", "mark"}
               \/ /\ cards[e.doc].status # "none"
                  /\ cards[e.doc].movement = e.doc
                  /\ \E i \in Ids : /\ i = cards[e.doc].reverses
                                    /\ cards[i].status = "reversed"
                                    /\ cards[i].movement = e.reverses
    BY <2>3, <2>6, <2>7 DEF IInv, JournalFollows
  <2>8. \A e \in register' : e \notin register =>
          \/ \E q \in Requests : /\ req'[q].own = e.doc
                                 /\ req'[q].at \in {"link", "mark"}
          \/ e.doc \in cut'
    BY <2>4, <2>5
  <2> QED BY <2>6, <2>7, <2>8 DEF JournalFollows
<1>18. NoEmptyCard'
  <2>1. \A q \in Requests : req'[q].own = req[q].own
    BY <1>1 DEF OthersStay, At
  <2>2. cards' = cards /\ cut \subseteq cut'
    BY <1>1
  <2> QED BY <2>1, <2>2 DEF IInv, NoEmptyCard
<1> QED BY <1>3, <1>4, <1>5, <1>6, <1>7, <1>8, <1>9, <1>10, <1>11, <1>12, <1>13,
    <1>14, <1>15, <1>16, <1>17, <1>18 DEF IInv

LEMMA FailInv ==
    ASSUME IInv, NEW r \in Requests, Fail(r)
    PROVE  IInv'
<1>1. /\ OthersStay(r)
      /\ \/ req[r].at = "insert" /\ req'[r] = Idle
         \/ req[r].at \in {"check", "commit"} /\ req'[r] = At(r, "drop")
      /\ UNCHANGED <<register, cards, made, raced, cut>>
  <2>0. TypeOK
    BY DEF IInv
  <2>1. CASE req[r].at = "insert"
    BY <2>0, <2>1, EndDoes DEF Fail
  <2>2. CASE req[r].at # "insert"
    BY <2>0, <2>2, GotoDoes DEF Fail, AfterError
  <2> QED BY <2>1, <2>2
<1> USE PostingsApart
<1>2. TypeOK'
  BY DEF Fail, Goto, End, AfterError, PartsOf, Lines, IInv, TypeOK, Entry,
         Card, Req, Places, Idle, Ids, Docs, Cabs, Remembers
<1>3. Unborn'
  BY <1>1 DEF IInv, OthersStay, OnlyCard, At, Working, Written, Idle, Absent,
      Ids, Docs, Cabs, TypeOK, Unborn, Remembers, OwnCard
<1>4. PostedWhole'
  BY <1>1 DEF IInv, PostedWhole
<1>5. ReversalIds'
  BY <1>1 DEF IInv, ReversalIds
<1>6. CardHasMoves'
  BY <1>1 DEF IInv, OthersStay, OnlyCard, At, Working, Written, Idle, Absent,
      Ids, Docs, Cabs, InPart, Lines, CardHasMoves, Remembers, OwnCard,
      Unborn, TypeOK, Card, Req
<1>7. ReversedHasMoves'
  BY <1>1 DEF IInv, OthersStay, OnlyCard, At, Working, Written, Idle, Absent,
      Ids, Docs, Cabs, ReversedHasMoves, Remembers, OwnCard, TypeOK, Req,
      Card
<1>8. Remembers'
  BY <1>1 DEF IInv, OthersStay, OnlyCard, At, Working, Written, Idle, Absent,
      Ids, Docs, Cabs, Remembers, OwnCard, Unborn, TypeOK, Req, Card
<1>9. OwnCard'
  BY <1>1 DEF IInv, OthersStay, OnlyCard, At, Working, Written, Idle, Absent,
      Ids, Docs, Cabs, Remembers, OwnCard, OwnApart, Unborn, TypeOK, Req,
      Card
<1>10. OwnApart'
  BY <1>1 DEF IInv, OthersStay, OnlyCard, At, Working, Written, Idle, Absent,
      Ids, Docs, Cabs, OwnApart, Unborn, TypeOK, Req, OwnCard, Remembers
<1>11. OwnMoves'
  BY <1>1 DEF IInv, OthersStay, OnlyCard, At, Working, Written, Idle, Absent,
      Ids, Docs, Cabs, InPart, Lines, OwnMoves, OwnApart, OwnCard, Remembers,
      Unborn, TypeOK, Req, Entry
<1>12. ReadyOrRaced'
  BY <1>1 DEF IInv, OthersStay, OnlyCard, At, Working, Written, Idle, Absent,
      Ids, Docs, Cabs, InPart, Lines, ReadyOrRaced, Remembers, TypeOK, Req
<1>13. BothRaced'
  BY <1>1 DEF IInv, OthersStay, OnlyCard, At, Working, Written, Idle, Absent,
      Ids, Docs, Cabs, InPart, Lines, BothRaced, Remembers, TypeOK, Req,
      PartsOf
<1>14. MarkedIsUndone'
  BY <1>1 DEF IInv, OthersStay, OnlyCard, At, Working, Written, Idle, Absent,
      Ids, Docs, Cabs, InPart, Lines, MarkedIsUndone, CardHasMoves, OwnCard,
      Remembers, TypeOK, Req, Card
<1>15. UndoneOnce'
  BY <1>1 DEF IInv, OthersStay, OnlyCard, At, Working, Written, Idle, Absent,
      Ids, Docs, Cabs, UndoneOnce, TypeOK
<1>16. JournalFollows'
  <2>1. \A q \in Requests : /\ req'[q].own = req[q].own
                            /\ req[q].at \in {"link", "mark"} =>
                                req'[q].at \in {"link", "mark"}
    BY <1>1 DEF OthersStay, At, Idle, IInv, OwnCard
  <2> QED BY <1>1, <2>1 DEF IInv, JournalFollows
<1>17. NoEmptyCard'
  <2>1. \A q \in Requests : req'[q].own = req[q].own \/ req[q].own = 0
    BY <1>1 DEF OthersStay, At, IInv, OwnCard
  <2> QED BY <1>1, <2>1 DEF IInv, NoEmptyCard, Ids
<1> QED BY <1>2, <1>3, <1>4, <1>5, <1>6, <1>7, <1>8, <1>9, <1>10, <1>11, <1>12,
    <1>13, <1>14, <1>15, <1>16, <1>17 DEF IInv

LEMMA LinkInv ==
    ASSUME IInv, NEW r \in Requests, Link(r)
    PROVE  IInv'
<1>1. /\ req[r].at = "link" /\ OthersStay(r)
      /\ req'[r] = At(r, "mark")
      /\ OnlyCard(req[r].own)
      /\ \/ /\ cut' = cut
            /\ cards'[req[r].own] =
                 [status |-> "posted", movement |-> req[r].own,
                  cab |-> cards[req[r].own].cab,
                  reverses |-> cards[req[r].own].reverses,
                  reversedBy |-> 0]
         \/ cards' = cards /\ cut' = cut \cup {req[r].own}
      /\ UNCHANGED <<register, made, raced>>
  <2>0. TypeOK /\ req[r].own \in Ids
    BY DEF IInv, Link, OwnCard, Remembers, Working
  <2>1. /\ req[r].at = "link" /\ OthersStay(r) /\ req'[r] = At(r, "mark")
        /\ UNCHANGED <<register, made, raced>>
    BY <2>0, GotoDoes DEF Link
  <2>2. CASE cards' = Linked(r) /\ UNCHANGED cut
    BY <2>0, <2>1, <2>2, RewrittenDoes DEF Linked
  <2>3. CASE UNCHANGED cards /\ cut' = cut \cup {req[r].own}
    BY <2>0, <2>1, <2>3 DEF OnlyCard
  <2> QED BY <2>2, <2>3 DEF Link, Write
<1> USE PostingsApart
<1>2. TypeOK'
  <2>1. req' \in [Requests -> Req]
    BY GotoTyped DEF IInv, Link, Places
  <2>2. req[r].own \in Ids /\ req[r].card \in Ids /\ req[r].doc \in Docs
        /\ req[r].own \in Docs
    BY <1>1 DEF IInv, OwnCard, Remembers, Working, TypeOK, Req, Docs
  <2>3. cards' \in [Ids -> Card]
    BY RewrittenTyped, <2>2 DEF IInv, Link, Write, Linked, TypeOK
  <2> QED BY <1>1, <2>1, <2>2, <2>3 DEF IInv, TypeOK
<1>3. Unborn'
  BY <1>1 DEF IInv, OthersStay, OnlyCard, At, Working, Written, Idle, Absent,
      Ids, Docs, Cabs, TypeOK, Unborn, Remembers, OwnCard
<1>4. PostedWhole'
  BY <1>1 DEF IInv, PostedWhole
<1>5. ReversalIds'
  BY <1>1 DEF IInv, ReversalIds
<1>6. CardHasMoves'
  <2>1. \A doc, cab : Lines(doc, cab)' = Lines(doc, cab)
    BY <1>1 DEF Lines
  <2>2. /\ req[r].own \in Ids /\ req[r].card \in Ids
        /\ cards[req[r].own].cab = req[r].cab
        /\ cards[req[r].own].status # "none"
        /\ cards[req[r].card].movement = req[r].doc
        /\ req[r].doc # NoDoc
    BY <1>1 DEF IInv, OwnCard, Remembers, Working
  <2>3. Lines(req[r].doc, req[r].cab) # {}
    BY <1>1, <2>2 DEF IInv, CardHasMoves, Remembers
  <2>4. Lines(req[r].own, req[r].cab) # {}
    <3>1. PICK e \in Lines(req[r].doc, req[r].cab) : TRUE
      BY <2>3
    <3>2. [doc |-> req[r].own, cab |-> e.cab, reverses |-> e.doc] \in register
      BY <1>1 DEF IInv, OwnMoves, Written
    <3> QED BY <3>2 DEF Lines, InPart
  <2> QED BY <1>1, <2>1, <2>2, <2>4 DEF IInv, CardHasMoves, OnlyCard, Ids
<1>7. ReversedHasMoves'
  <2>1. \A doc, cab : Lines(doc, cab)' = Lines(doc, cab)
    BY <1>1 DEF Lines
  <2>2. /\ req[r].own \in Ids /\ req[r].card \in Ids
        /\ cards[req[r].own].cab = req[r].cab
        /\ cards[req[r].own].status # "none"
        /\ cards[req[r].card].movement = req[r].doc
        /\ req[r].doc # NoDoc
    BY <1>1 DEF IInv, OwnCard, Remembers, Working
  <2> QED BY <1>1, <2>2 DEF IInv, ReversedHasMoves, OnlyCard, Absent, Ids
<1>8. Remembers'
  BY <1>1 DEF IInv, OthersStay, OnlyCard, At, Working, Written, Idle, Absent,
      Ids, Docs, Cabs, Remembers, OwnCard, Unborn, TypeOK, Req, Card
<1>9. OwnCard'
  <2>1. /\ req[r].own \in Ids /\ req[r].card \in Ids
        /\ cards[req[r].own].cab = req[r].cab
        /\ cards[req[r].own].status # "none"
        /\ cards[req[r].card].movement = req[r].doc
        /\ req[r].doc # NoDoc
    BY <1>1 DEF IInv, OwnCard, Remembers, Working
  <2>2. /\ cut \subseteq cut' /\ req'[r].own = req[r].own
        /\ req'[r].at = "mark" /\ req'[r].card = req[r].card
        /\ req'[r].cab = req[r].cab
    BY <1>1 DEF At
  <2>3. \A q \in Requests : q # r =>
          /\ req'[q] = req[q]
          /\ req[q].at \in Working => cards'[req[q].own] = cards[req[q].own]
    BY <1>1, <2>1 DEF IInv, OthersStay, OwnApart, OnlyCard, OwnCard, Ids
  <2>4. /\ cards'[req[r].own].status # "none"
        /\ cards'[req[r].own].reverses = req[r].card
        /\ cards'[req[r].own].cab = req[r].cab
        /\ \/ cards'[req[r].own].movement = req[r].own
           \/ cards'[req[r].own].movement = NoDoc /\ req[r].own \in cut'
    BY <1>1, <2>1 DEF IInv, OwnCard, Working
  <2> QED BY <2>1, <2>2, <2>3, <2>4 DEF IInv, OwnCard, Working
<1>10. OwnApart'
  BY <1>1 DEF IInv, OthersStay, OnlyCard, At, Working, Written, Idle, Absent,
      Ids, Docs, Cabs, OwnApart, Unborn, TypeOK, Req, OwnCard, Remembers
<1>11. OwnMoves'
  BY <1>1 DEF IInv, OthersStay, OnlyCard, At, Working, Written, Idle, Absent,
      Ids, Docs, Cabs, InPart, Lines, OwnMoves, OwnApart, OwnCard, Remembers,
      Unborn, TypeOK, Req, Entry
<1>12. ReadyOrRaced'
  BY <1>1 DEF IInv, OthersStay, OnlyCard, At, Working, Written, Idle, Absent,
      Ids, Docs, Cabs, InPart, Lines, ReadyOrRaced, Remembers, TypeOK, Req
<1>13. BothRaced'
  BY <1>1 DEF IInv, OthersStay, OnlyCard, At, Working, Written, Idle, Absent,
      Ids, Docs, Cabs, InPart, Lines, BothRaced, Remembers, TypeOK, Req,
      PartsOf
<1>14. MarkedIsUndone'
  <2>1. \A doc, cab : Lines(doc, cab)' = Lines(doc, cab)
    BY <1>1 DEF Lines
  <2>2. /\ req[r].own \in Ids /\ req[r].card \in Ids
        /\ cards[req[r].own].cab = req[r].cab
        /\ cards[req[r].own].status # "none"
        /\ cards[req[r].card].movement = req[r].doc
        /\ req[r].doc # NoDoc
    BY <1>1 DEF IInv, OwnCard, Remembers, Working
  <2> QED BY <1>1, <2>1, <2>2 DEF IInv, MarkedIsUndone, OnlyCard
<1>15. UndoneOnce'
  BY <1>1 DEF IInv, OthersStay, OnlyCard, At, Working, Written, Idle, Absent,
      Ids, Docs, Cabs, UndoneOnce, TypeOK
<1>16. JournalFollows'
  <2>1. \A q \in Requests : /\ req'[q].own = req[q].own
                            /\ req[q].at \in {"link", "mark"} =>
                                req'[q].at \in {"link", "mark"}
    BY <1>1 DEF OthersStay, At
  <2>2. /\ req[r].own \in Ids /\ NoDoc \notin Ids /\ cut \subseteq cut'
        /\ cards[req[r].own].movement = NoDoc
        /\ cards[req[r].own].status = "posted"
    BY <1>1 DEF IInv, OwnCard, Working, Ids
  <2>3. \A i \in Ids : i # req[r].own => cards'[i] = cards[i]
    BY <1>1 DEF OnlyCard
  <2>4. \A e \in register : e.reverses # NoDoc => e.doc \in Ids
    BY DEF IInv, ReversalIds
  <2> QED BY <1>1, <2>1, <2>2, <2>3, <2>4 DEF IInv, JournalFollows
<1>17. NoEmptyCard'
  <2>1. \A q \in Requests : req'[q].own = req[q].own
    BY <1>1 DEF OthersStay, At
  <2>2. req[r].own \in Ids /\ NoDoc \notin Ids /\ cut \subseteq cut'
    BY <1>1 DEF IInv, OwnCard, Working, Ids
  <2>3. \A i \in Ids : 
          \/ cards'[i] = cards[i]
          \/ i = req[r].own /\ cards'[i].movement = i
    BY <1>1, <2>2 DEF OnlyCard
  <2> QED BY <2>1, <2>2, <2>3 DEF IInv, NoEmptyCard
<1> QED BY <1>2, <1>3, <1>4, <1>5, <1>6, <1>7, <1>8, <1>9, <1>10, <1>11, <1>12,
    <1>13, <1>14, <1>15, <1>16, <1>17 DEF IInv

LEMMA MarkInv ==
    ASSUME IInv, NEW r \in Requests, Mark(r)
    PROVE  IInv'
<1>1. /\ req[r].at = "mark" /\ OthersStay(r) /\ req'[r] = Idle
      /\ OnlyCard(req[r].card)
      /\ \/ /\ cut' = cut
            /\ cards'[req[r].card] =
                 [status |-> "reversed", movement |-> req[r].doc,
                  cab |-> cards[req[r].card].cab,
                  reverses |-> cards[req[r].card].reverses,
                  reversedBy |-> req[r].own]
         \/ cards' = cards /\ cut' = cut \cup {req[r].own}
      /\ UNCHANGED <<register, made, raced>>
  <2>0. TypeOK /\ req[r].card \in Ids
    BY DEF IInv, Mark, OwnCard, Remembers, Working
  <2>1. /\ req[r].at = "mark" /\ OthersStay(r) /\ req'[r] = Idle
        /\ UNCHANGED <<register, made, raced>>
    BY <2>0, EndDoes DEF Mark
  <2>2. CASE cards' = Marked(r) /\ UNCHANGED cut
    BY <2>0, <2>1, <2>2, RewrittenDoes DEF Marked
  <2>3. CASE UNCHANGED cards /\ cut' = cut \cup {req[r].own}
    BY <2>0, <2>1, <2>3 DEF OnlyCard
  <2> QED BY <2>2, <2>3 DEF Mark, Write
<1> USE PostingsApart
<1>2. TypeOK'
  <2>1. req' \in [Requests -> Req]
    BY EndTyped DEF IInv, Mark, Places
  <2>2. req[r].own \in Ids /\ req[r].card \in Ids /\ req[r].doc \in Docs
        /\ req[r].own \in Docs
    BY <1>1 DEF IInv, OwnCard, Remembers, Working, TypeOK, Req, Docs
  <2>3. cards' \in [Ids -> Card]
    BY RewrittenTyped, <2>2 DEF IInv, Mark, Write, Marked, TypeOK
  <2> QED BY <1>1, <2>1, <2>2, <2>3 DEF IInv, TypeOK
<1>3. Unborn'
  <2>1. cards[req[r].card].movement # NoDoc
    BY <1>1 DEF IInv, Remembers
  <2>2. \A i \in Ids : i > made => i # req[r].card /\ i # req[r].own
    BY <2>1 DEF IInv, Unborn, Absent
  <2>3. \A i \in Ids : i > made => cards'[i] = cards[i] /\ i \notin cut'
    BY <1>1, <2>2 DEF IInv, Unborn, OnlyCard
  <2>4. \A i \in Ids, q \in Requests : i > made => req'[q].own # i
    BY <1>1 DEF IInv, Unborn, OthersStay, Idle, Ids
  <2> QED BY <1>1, <2>3, <2>4 DEF IInv, Unborn
<1>4. PostedWhole'
  BY <1>1 DEF IInv, PostedWhole
<1>5. ReversalIds'
  BY <1>1 DEF IInv, ReversalIds
<1>6. CardHasMoves'
  <2>1. \A doc, cab : Lines(doc, cab)' = Lines(doc, cab)
    BY <1>1 DEF Lines
  <2>2. /\ req[r].own \in Ids /\ req[r].card \in Ids
        /\ cards[req[r].own].cab = req[r].cab
        /\ cards[req[r].own].status # "none"
        /\ cards[req[r].card].movement = req[r].doc
        /\ req[r].doc # NoDoc
    BY <1>1 DEF IInv, OwnCard, Remembers, Working
  <2>3. cards[req[r].card].status # "none"
    BY <2>2 DEF IInv, CardHasMoves
  <2> QED BY <1>1, <2>1, <2>2, <2>3 DEF IInv, CardHasMoves, OnlyCard
<1>7. ReversedHasMoves'
  <2>1. \A doc, cab : Lines(doc, cab)' = Lines(doc, cab)
    BY <1>1 DEF Lines
  <2>2. /\ req[r].own \in Ids /\ req[r].card \in Ids
        /\ cards[req[r].own].cab = req[r].cab
        /\ cards[req[r].own].status # "none"
        /\ cards[req[r].card].movement = req[r].doc
        /\ req[r].doc # NoDoc
    BY <1>1 DEF IInv, OwnCard, Remembers, Working
  <2> QED BY <1>1, <2>2 DEF IInv, ReversedHasMoves, OnlyCard, Absent, Ids
<1>8. Remembers'
  <2>1. \A i \in Ids : /\ cards'[i].movement = cards[i].movement
                       /\ cards'[i].cab = cards[i].cab
                       /\ cards'[i].reverses = cards[i].reverses
                       /\ cards[i].status # "none" => cards'[i].status # "none"
                       /\ cards[i].status = "reversed" =>
                           cards'[i].status = "reversed"
    BY <1>1 DEF IInv, Remembers, OnlyCard
  <2>2. \A q \in Requests : q # r => req'[q] = req[q]
    BY <1>1 DEF OthersStay
  <2>20. cut' = cut \/ (cut' = cut \cup {req[r].own} /\ cards' = cards)
    BY <1>1
  <2>21. cut \subseteq cut'
    BY <2>20
  <2> QED BY <1>1, <2>1, <2>2, <2>21 DEF IInv, Remembers, Idle
<1>9. OwnCard'
  <2>1. \A i \in Ids : /\ cards'[i].movement = cards[i].movement
                       /\ cards'[i].cab = cards[i].cab
                       /\ cards'[i].reverses = cards[i].reverses
                       /\ cards[i].status # "none" => cards'[i].status # "none"
                       /\ cards[i].status = "reversed" =>
                           cards'[i].status = "reversed"
    BY <1>1 DEF IInv, Remembers, OnlyCard
  <2>2. \A q \in Requests : q # r => req'[q] = req[q]
    BY <1>1 DEF OthersStay
  <2>20. cut' = cut \/ (cut' = cut \cup {req[r].own} /\ cards' = cards)
    BY <1>1
  <2>21. cut \subseteq cut'
    BY <2>20
  <2>3. \A q \in Requests : q # r /\ req[q].at \in Working \ {"mark"} =>
          cards'[req[q].own] = cards[req[q].own]
    <3>1. cards[req[r].card].movement # NoDoc
      BY <1>1 DEF IInv, Remembers
    <3>2. \A q \in Requests : req[q].at \in Working \ {"mark"} =>
            req[q].own \in Ids /\ cards[req[q].own].movement = NoDoc
      BY DEF IInv, OwnCard, Working
    <3> QED BY <1>1, <3>1, <3>2 DEF OnlyCard
  <2> QED BY <1>1, <2>1, <2>2, <2>21, <2>3 DEF IInv, OwnCard, Working, Idle
<1>10. OwnApart'
  BY <1>1 DEF IInv, OthersStay, OnlyCard, At, Working, Written, Idle, Absent,
      Ids, Docs, Cabs, OwnApart, Unborn, TypeOK, Req, OwnCard, Remembers
<1>11. OwnMoves'
  BY <1>1 DEF IInv, OthersStay, OnlyCard, At, Working, Written, Idle, Absent,
      Ids, Docs, Cabs, InPart, Lines, OwnMoves, OwnApart, OwnCard, Remembers,
      Unborn, TypeOK, Req, Entry
<1>12. ReadyOrRaced'
  BY <1>1 DEF IInv, OthersStay, OnlyCard, At, Working, Written, Idle, Absent,
      Ids, Docs, Cabs, InPart, Lines, ReadyOrRaced, Remembers, TypeOK, Req
<1>13. BothRaced'
  BY <1>1 DEF IInv, OthersStay, OnlyCard, At, Working, Written, Idle, Absent,
      Ids, Docs, Cabs, InPart, Lines, BothRaced, Remembers, TypeOK, Req,
      PartsOf
<1>14. MarkedIsUndone'
  <2>1. \A doc, cab : Lines(doc, cab)' = Lines(doc, cab)
    BY <1>1 DEF Lines
  <2>2. /\ req[r].own \in Ids /\ req[r].card \in Ids
        /\ cards[req[r].own].cab = req[r].cab
        /\ cards[req[r].own].status # "none"
        /\ cards[req[r].card].movement = req[r].doc
        /\ req[r].doc # NoDoc
    BY <1>1 DEF IInv, OwnCard, Remembers, Working
  <2>3. \A e \in Lines(req[r].doc, req[r].cab) :
          [doc |-> req[r].own, cab |-> e.cab, reverses |-> e.doc] \in register
    BY <1>1 DEF IInv, OwnMoves, Written
  <2>4. cards[req[r].card].cab = req[r].cab
    BY <1>1 DEF IInv, Remembers
  <2> QED BY <1>1, <2>1, <2>2, <2>3, <2>4 DEF IInv, MarkedIsUndone, OnlyCard
<1>15. UndoneOnce'
  BY <1>1 DEF IInv, OthersStay, OnlyCard, At, Working, Written, Idle, Absent,
      Ids, Docs, Cabs, UndoneOnce, TypeOK
<1>16. JournalFollows'
  <2>1. \A i \in Ids : /\ cards'[i].movement = cards[i].movement
                       /\ cards'[i].cab = cards[i].cab
                       /\ cards'[i].reverses = cards[i].reverses
                       /\ cards[i].status # "none" => cards'[i].status # "none"
                       /\ cards[i].status = "reversed" =>
                           cards'[i].status = "reversed"
    BY <1>1 DEF IInv, Remembers, OnlyCard
  <2>2. \A q \in Requests : q # r => req'[q] = req[q]
    BY <1>1 DEF OthersStay
  <2>20. cut' = cut \/ (cut' = cut \cup {req[r].own} /\ cards' = cards)
    BY <1>1
  <2>21. cut \subseteq cut'
    BY <2>20
  <2>3. SUFFICES ASSUME NEW e \in register, e.reverses # NoDoc, e.doc \notin cut'
        PROVE  \/ \E q \in Requests : /\ req'[q].own = e.doc
                                      /\ req'[q].at \in {"link", "mark"}
               \/ /\ cards'[e.doc].status # "none"
                  /\ cards'[e.doc].movement = e.doc
                  /\ \E i \in Ids : /\ i = cards'[e.doc].reverses
                                    /\ cards'[i].status = "reversed"
                                    /\ cards'[i].movement = e.reverses
    BY <1>1 DEF JournalFollows
  <2>4. e.doc \in Ids /\ e.doc \notin cut
    BY <2>2, <2>21, <2>3 DEF IInv, ReversalIds
  <2>5. CASE req[r].own = e.doc
    <3>1. /\ req[r].card \in Ids /\ cards[e.doc].reverses = req[r].card
          /\ cards[e.doc].status # "none" /\ cards[e.doc].movement = e.doc
          /\ cards[req[r].card].movement = req[r].doc
          /\ e.reverses = req[r].doc
      BY <1>1, <2>3, <2>4, <2>5
         DEF IInv, OwnCard, OwnMoves, Remembers, Working, Written
    <3>2. cut' = cut
      BY <2>20, <2>3, <2>5
    <3>3. cards'[req[r].card].status = "reversed"
      <4>1. CASE cards' = cards /\ cut' = cut \cup {req[r].own}
        BY <2>3, <2>5, <4>1
      <4> QED BY <1>1, <4>1
    <3> QED BY <2>1, <2>4, <3>1, <3>3
  <2>6. CASE req[r].own # e.doc
    <3>1. CASE \E q \in Requests : /\ req[q].own = e.doc
                                   /\ req[q].at \in {"link", "mark"}
      BY <2>2, <2>6, <3>1
    <3>2. CASE ~\E q \in Requests : /\ req[q].own = e.doc
                                    /\ req[q].at \in {"link", "mark"}
      <4>1. /\ cards[e.doc].status # "none" /\ cards[e.doc].movement = e.doc
            /\ \E i \in Ids : /\ i = cards[e.doc].reverses
                              /\ cards[i].status = "reversed"
                              /\ cards[i].movement = e.reverses
        BY <2>3, <2>4, <3>2 DEF IInv, JournalFollows
      <4> QED BY <2>1, <2>4, <4>1
    <3> QED BY <3>1, <3>2
  <2> QED BY <2>5, <2>6
<1>17. NoEmptyCard'
  <2>1. \A i \in Ids : /\ cards'[i].movement = cards[i].movement
                       /\ cards'[i].cab = cards[i].cab
                       /\ cards'[i].reverses = cards[i].reverses
                       /\ cards[i].status # "none" => cards'[i].status # "none"
                       /\ cards[i].status = "reversed" =>
                           cards'[i].status = "reversed"
    BY <1>1 DEF IInv, Remembers, OnlyCard
  <2>2. \A q \in Requests : q # r => req'[q] = req[q]
    BY <1>1 DEF OthersStay
  <2>20. cut' = cut \/ (cut' = cut \cup {req[r].own} /\ cards' = cards)
    BY <1>1
  <2>21. cut \subseteq cut'
    BY <2>20
  <2>3. req[r].own \in Ids
    BY <1>1 DEF IInv, OwnCard, Working
  <2>4. cards[req[r].own].movement = NoDoc => req[r].own \in cut
    BY <1>1, <2>3 DEF IInv, OwnCard, Working, Ids
  <2>5. \A i \in Ids : cards'[i].status # "none" => cards[i].status # "none"
    <3>1. req[r].card \in Ids /\ cards[req[r].card].movement # NoDoc
      BY <1>1 DEF IInv, Remembers
    <3>2. cards[req[r].card].status # "none"
      BY <3>1 DEF IInv, CardHasMoves
    <3>3. \A i \in Ids : i # req[r].card => cards'[i] = cards[i]
      BY <1>1 DEF OnlyCard
    <3> QED BY <3>2, <3>3
  <2> QED BY <1>1, <2>1, <2>2, <2>21, <2>4, <2>5 DEF IInv, NoEmptyCard
<1> QED BY <1>2, <1>3, <1>4, <1>5, <1>6, <1>7, <1>8, <1>9, <1>10, <1>11, <1>12,
    <1>13, <1>14, <1>15, <1>16, <1>17 DEF IInv

LEMMA DropInv ==
    ASSUME IInv, NEW r \in Requests, Drop(r)
    PROVE  IInv'
<1>1. /\ req[r].at = "drop" /\ OthersStay(r) /\ req'[r] = Idle
      /\ OnlyCard(req[r].own)
      /\ \/ cut' = cut /\ cards'[req[r].own] = Absent
         \/ cards' = cards /\ cut' = cut \cup {req[r].own}
      /\ UNCHANGED <<register, made, raced>>
  <2>0. TypeOK /\ req[r].own \in Ids
    BY DEF IInv, Drop, OwnCard, Remembers, Working
  <2>1. /\ req[r].at = "drop" /\ OthersStay(r) /\ req'[r] = Idle
        /\ UNCHANGED <<register, made, raced>>
    BY <2>0, EndDoes DEF Drop
  <2>2. CASE cards' = [cards EXCEPT ![req[r].own] = Absent] /\ UNCHANGED cut
    BY <2>0, <2>1, <2>2 DEF OnlyCard, TypeOK
  <2>3. CASE UNCHANGED cards /\ cut' = cut \cup {req[r].own}
    BY <2>0, <2>1, <2>3 DEF OnlyCard
  <2> QED BY <2>2, <2>3 DEF Drop, Write
<1> USE PostingsApart
<1>2. TypeOK'
  <2>1. req' \in [Requests -> Req]
    BY EndTyped DEF IInv, Drop, Places
  <2>2. req[r].own \in Ids /\ req[r].card \in Ids /\ req[r].doc \in Docs
        /\ req[r].own \in Docs
    BY <1>1 DEF IInv, OwnCard, Remembers, Working, TypeOK, Req, Docs
  <2>3. cards' \in [Ids -> Card]
    BY <2>2 DEF IInv, Drop, Write, Absent, TypeOK, Card, Cabs
  <2> QED BY <1>1, <2>1, <2>2, <2>3 DEF IInv, TypeOK
<1>3. Unborn'
  BY <1>1 DEF IInv, OthersStay, OnlyCard, At, Working, Written, Idle, Absent,
      Ids, Docs, Cabs, TypeOK, Unborn, Remembers, OwnCard
<1>4. PostedWhole'
  BY <1>1 DEF IInv, PostedWhole
<1>5. ReversalIds'
  BY <1>1 DEF IInv, ReversalIds
<1>6. CardHasMoves'
  <2>1. \A doc, cab : Lines(doc, cab)' = Lines(doc, cab)
    BY <1>1 DEF Lines
  <2>2. /\ req[r].own \in Ids /\ req[r].card \in Ids
        /\ cards[req[r].own].cab = req[r].cab
        /\ cards[req[r].own].status # "none"
        /\ cards[req[r].card].movement = req[r].doc
        /\ req[r].doc # NoDoc
    BY <1>1 DEF IInv, OwnCard, Remembers, Working
  <2> QED BY <1>1, <2>1, <2>2 DEF IInv, CardHasMoves, OnlyCard, Absent
<1>7. ReversedHasMoves'
  <2>1. \A doc, cab : Lines(doc, cab)' = Lines(doc, cab)
    BY <1>1 DEF Lines
  <2>2. /\ req[r].own \in Ids /\ req[r].card \in Ids
        /\ cards[req[r].own].cab = req[r].cab
        /\ cards[req[r].own].status # "none"
        /\ cards[req[r].card].movement = req[r].doc
        /\ req[r].doc # NoDoc
    BY <1>1 DEF IInv, OwnCard, Remembers, Working
  <2> QED BY <1>1, <2>2 DEF IInv, ReversedHasMoves, OnlyCard, Absent, Ids
<1>8. Remembers'
  BY <1>1 DEF IInv, OthersStay, OnlyCard, At, Working, Written, Idle, Absent,
      Ids, Docs, Cabs, Remembers, OwnCard, Unborn, TypeOK, Req, Card
<1>9. OwnCard'
  BY <1>1 DEF IInv, OthersStay, OnlyCard, At, Working, Written, Idle, Absent,
      Ids, Docs, Cabs, Remembers, OwnCard, OwnApart, Unborn, TypeOK, Req,
      Card
<1>10. OwnApart'
  BY <1>1 DEF IInv, OthersStay, OnlyCard, At, Working, Written, Idle, Absent,
      Ids, Docs, Cabs, OwnApart, Unborn, TypeOK, Req, OwnCard, Remembers
<1>11. OwnMoves'
  BY <1>1 DEF IInv, OthersStay, OnlyCard, At, Working, Written, Idle, Absent,
      Ids, Docs, Cabs, InPart, Lines, OwnMoves, OwnApart, OwnCard, Remembers,
      Unborn, TypeOK, Req, Entry
<1>12. ReadyOrRaced'
  BY <1>1 DEF IInv, OthersStay, OnlyCard, At, Working, Written, Idle, Absent,
      Ids, Docs, Cabs, InPart, Lines, ReadyOrRaced, Remembers, TypeOK, Req
<1>13. BothRaced'
  BY <1>1 DEF IInv, OthersStay, OnlyCard, At, Working, Written, Idle, Absent,
      Ids, Docs, Cabs, InPart, Lines, BothRaced, Remembers, TypeOK, Req,
      PartsOf
<1>14. MarkedIsUndone'
  <2>1. \A doc, cab : Lines(doc, cab)' = Lines(doc, cab)
    BY <1>1 DEF Lines
  <2>2. /\ req[r].own \in Ids /\ req[r].card \in Ids
        /\ cards[req[r].own].cab = req[r].cab
        /\ cards[req[r].own].status # "none"
        /\ cards[req[r].card].movement = req[r].doc
        /\ req[r].doc # NoDoc
    BY <1>1 DEF IInv, OwnCard, Remembers, Working
  <2> QED BY <1>1, <2>1, <2>2 DEF IInv, MarkedIsUndone, OnlyCard, Absent
<1>15. UndoneOnce'
  BY <1>1 DEF IInv, OthersStay, OnlyCard, At, Working, Written, Idle, Absent,
      Ids, Docs, Cabs, UndoneOnce, TypeOK
<1>16. JournalFollows'
  <2>1. /\ cards[req[r].own].movement = NoDoc
        /\ cards[req[r].own].status = "posted"
    BY <1>1 DEF IInv, OwnCard, Working
  <2>2. \A i \in Ids : i # req[r].own => cards'[i] = cards[i]
    BY <1>1 DEF OnlyCard
  <2>3. cut \subseteq cut' /\ \A q \in Requests : q # r => req'[q] = req[q]
    BY <1>1 DEF OthersStay
  <2>4. \A e \in register : e.reverses # NoDoc =>
          e.doc \in Ids /\ e.doc # NoDoc
    BY DEF IInv, ReversalIds, Ids
  <2> QED BY <1>1, <2>1, <2>2, <2>3, <2>4 DEF IInv, JournalFollows
<1>17. NoEmptyCard'
  <2>1. \A q \in Requests : q # r => req'[q].own = req[q].own
    BY <1>1 DEF OthersStay
  <2>2. req[r].own \in Ids /\ cut \subseteq cut'
    BY <1>1 DEF IInv, OwnCard, Working
  <2>3. \A i \in Ids : i # req[r].own => cards'[i] = cards[i]
    BY <1>1 DEF OnlyCard
  <2>4. \/ cards'[req[r].own].status = "none"
        \/ req[r].own \in cut'
    BY <1>1 DEF Absent
  <2> QED BY <2>1, <2>2, <2>3, <2>4 DEF IInv, NoEmptyCard
<1> QED BY <1>2, <1>3, <1>4, <1>5, <1>6, <1>7, <1>8, <1>9, <1>10, <1>11, <1>12,
    <1>13, <1>14, <1>15, <1>16, <1>17 DEF IInv

LEMMA DieInv ==
    ASSUME IInv, NEW r \in Requests, Die(r)
    PROVE  IInv'
<1>1. /\ req[r].at # "idle" /\ OthersStay(r) /\ req'[r] = Idle
      /\ cut' = cut \cup ({req[r].own} \ {0})
      /\ UNCHANGED <<register, cards, made, raced>>
  BY EndDoes DEF IInv, Die
<1> USE PostingsApart
<1>2. TypeOK'
  BY DEF Die, Goto, End, AfterError, PartsOf, Lines, IInv, TypeOK, Entry,
         Card, Req, Places, Idle, Ids, Docs, Cabs, Remembers
<1>3. Unborn'
  BY <1>1 DEF IInv, OthersStay, OnlyCard, At, Working, Written, Idle, Absent,
      Ids, Docs, Cabs, TypeOK, Unborn, Remembers, OwnCard
<1>4. PostedWhole'
  BY <1>1 DEF IInv, PostedWhole
<1>5. ReversalIds'
  BY <1>1 DEF IInv, ReversalIds
<1>6. CardHasMoves'
  BY <1>1 DEF IInv, OthersStay, OnlyCard, At, Working, Written, Idle, Absent,
      Ids, Docs, Cabs, InPart, Lines, CardHasMoves, Remembers, OwnCard,
      Unborn, TypeOK, Card, Req
<1>7. ReversedHasMoves'
  BY <1>1 DEF IInv, OthersStay, OnlyCard, At, Working, Written, Idle, Absent,
      Ids, Docs, Cabs, ReversedHasMoves, Remembers, OwnCard, TypeOK, Req,
      Card
<1>8. Remembers'
  BY <1>1 DEF IInv, OthersStay, OnlyCard, At, Working, Written, Idle, Absent,
      Ids, Docs, Cabs, Remembers, OwnCard, Unborn, TypeOK, Req, Card
<1>9. OwnCard'
  BY <1>1 DEF IInv, OthersStay, OnlyCard, At, Working, Written, Idle, Absent,
      Ids, Docs, Cabs, Remembers, OwnCard, OwnApart, Unborn, TypeOK, Req,
      Card
<1>10. OwnApart'
  BY <1>1 DEF IInv, OthersStay, OnlyCard, At, Working, Written, Idle, Absent,
      Ids, Docs, Cabs, OwnApart, Unborn, TypeOK, Req, OwnCard, Remembers
<1>11. OwnMoves'
  BY <1>1 DEF IInv, OthersStay, OnlyCard, At, Working, Written, Idle, Absent,
      Ids, Docs, Cabs, InPart, Lines, OwnMoves, OwnApart, OwnCard, Remembers,
      Unborn, TypeOK, Req, Entry
<1>12. ReadyOrRaced'
  BY <1>1 DEF IInv, OthersStay, OnlyCard, At, Working, Written, Idle, Absent,
      Ids, Docs, Cabs, InPart, Lines, ReadyOrRaced, Remembers, TypeOK, Req
<1>13. BothRaced'
  BY <1>1 DEF IInv, OthersStay, OnlyCard, At, Working, Written, Idle, Absent,
      Ids, Docs, Cabs, InPart, Lines, BothRaced, Remembers, TypeOK, Req,
      PartsOf
<1>14. MarkedIsUndone'
  BY <1>1 DEF IInv, OthersStay, OnlyCard, At, Working, Written, Idle, Absent,
      Ids, Docs, Cabs, InPart, Lines, MarkedIsUndone, CardHasMoves, OwnCard,
      Remembers, TypeOK, Req, Card
<1>15. UndoneOnce'
  BY <1>1 DEF IInv, OthersStay, OnlyCard, At, Working, Written, Idle, Absent,
      Ids, Docs, Cabs, UndoneOnce, TypeOK
<1>16. JournalFollows'
  BY <1>1 DEF IInv, OthersStay, OnlyCard, At, Working, Written, Idle, Absent,
      Ids, Docs, Cabs, JournalFollows, ReversalIds, OwnCard, OwnApart,
      OwnMoves, Remembers, CardHasMoves, ReversedHasMoves, Unborn, TypeOK,
      Req, Card, Entry
<1>17. NoEmptyCard'
  <2>1. \A q \in Requests : q # r => req'[q].own = req[q].own
    BY <1>1 DEF OthersStay
  <2>2. \A i \in Ids : req[r].own = i => i \in cut'
    BY <1>1 DEF Ids
  <2> QED BY <1>1, <2>1, <2>2 DEF IInv, NoEmptyCard
<1> QED BY <1>2, <1>3, <1>4, <1>5, <1>6, <1>7, <1>8, <1>9, <1>10, <1>11, <1>12,
    <1>13, <1>14, <1>15, <1>16, <1>17 DEF IInv

-----------------------------------------------------------------------------
LEMMA InitInv == Init => IInv
<1> SUFFICES ASSUME Init PROVE IInv
  OBVIOUS
<1>1. TypeOK
  BY MaxCardsIsNat DEF Init, TypeOK, Card, Req, Absent, Idle, Places, Cabs
<1>2. Unborn /\ PostedWhole /\ ReversalIds
  BY <1>1 DEF Init, Unborn, PostedWhole, ReversalIds, Idle, Ids
<1>3. CardHasMoves /\ ReversedHasMoves /\ MarkedIsUndone /\ NoEmptyCard
  BY DEF Init, CardHasMoves, ReversedHasMoves, MarkedIsUndone, NoEmptyCard,
         Absent
<1>4. Remembers /\ OwnCard /\ OwnApart /\ OwnMoves
  BY DEF Init, Remembers, OwnCard, OwnApart, OwnMoves, Idle, Working, Written
<1>5. ReadyOrRaced /\ BothRaced /\ UndoneOnce /\ JournalFollows
  BY DEF Init, ReadyOrRaced, BothRaced, UndoneOnce, JournalFollows, Idle
<1> QED BY <1>1, <1>2, <1>3, <1>4, <1>5 DEF IInv

LEMMA StutterInv == ASSUME IInv, UNCHANGED vars PROVE IInv'
<1>1. UNCHANGED <<register, cards, made, req, raced, cut>>
  BY DEF vars
<1>2. (TypeOK /\ Unborn /\ PostedWhole /\ ReversalIds /\ CardHasMoves)'
  BY <1>1 DEF IInv, TypeOK, Unborn, PostedWhole, ReversalIds, CardHasMoves,
              Lines, InPart
<1>3. (ReversedHasMoves /\ Remembers /\ OwnCard /\ OwnApart /\ OwnMoves)'
  BY <1>1 DEF IInv, ReversedHasMoves, Remembers, OwnCard, OwnApart, OwnMoves,
              Lines, InPart
<1>4. (ReadyOrRaced /\ BothRaced /\ MarkedIsUndone)'
  BY <1>1 DEF IInv, ReadyOrRaced, BothRaced, MarkedIsUndone, PartsOf, Lines,
              InPart
<1>5. (UndoneOnce /\ JournalFollows /\ NoEmptyCard)'
  BY <1>1 DEF IInv, UndoneOnce, JournalFollows, NoEmptyCard
<1> QED BY <1>2, <1>3, <1>4, <1>5 DEF IInv

LEMMA NextInv == IInv /\ [Next]_vars => IInv'
<1> SUFFICES ASSUME IInv, [Next]_vars PROVE IInv'
  OBVIOUS
<1>1. ASSUME NEW d \in Postings, Post(d) \/ \E c \in Cabs : Record(d, c)
      PROVE  IInv'
  BY <1>1, PostInv, RecordInv
<1>2. ASSUME NEW r \in Requests, Step(r) \/ \E i \in Ids : Open(r, i)
      PROVE  IInv'
  BY <1>2, OpenInv, InsertInv, CheckInv, CommitInv, FailInv, LinkInv, MarkInv,
     DropInv, DieInv DEF Step
<1>3. CASE UNCHANGED vars
  BY <1>3, StutterInv
<1> QED BY <1>1, <1>2, <1>3 DEF Next

LEMMA Inductive == Spec => []IInv
  BY InitInv, NextInv, PTL DEF Spec

(* Every variable keeps its type, whatever faults occur.                   *)
THEOREM TypeCorrect == Spec => []TypeOK
<1>1. IInv => TypeOK
  BY DEF IInv
<1> QED BY <1>1, Inductive, PTL

(* A card that says "reversed" has the opposite of every one of its moves  *)
(* in the register, written by the reversal it names.                      *)
THEOREM MarkedCorrect == Spec => []MarkedIsUndone
<1>1. IInv => MarkedIsUndone
  BY DEF IInv
<1> QED BY <1>1, Inductive, PTL

(* A part of a document is undone twice only by two requests that were     *)
(* between post_doc_reversal's check and its COMMIT together; retries,     *)
(* lost answers and crashes never do it.                                   *)
THEOREM UndoneOnceCorrect == Spec => []UndoneOnce
<1>1. IInv => UndoneOnce
  BY DEF IInv
<1> QED BY <1>1, Inductive, PTL

(* A reversal in the register is told by both cards, but while its request *)
(* is at it and unless that very request was cut short.                    *)
THEOREM JournalCorrect == Spec => []JournalFollows
<1>1. IInv => JournalFollows
  BY DEF IInv
<1> QED BY <1>1, Inductive, PTL

(* No card without moves is left behind, but by a request cut short.       *)
THEOREM NoEmptyCardCorrect == Spec => []NoEmptyCard
<1>1. IInv => NoEmptyCard
  BY DEF IInv
<1> QED BY <1>1, Inductive, PTL
=============================================================================
