----------------------------- MODULE DocReversal -----------------------------
(***************************************************************************)
(* The journal of warehouse documents and the reversal of one of them.     *)
(*                                                                         *)
(* A posting writes moves into the register; the journal (stock_docs)      *)
(* remembers it by cards, one for each cabinet its moves belong to, or one *)
(* for all.  POST /docs/[id]/reverse inserts the card of the reversal,     *)
(* has post_doc_reversal write the opposite moves, and then updates both   *)
(* cards.  Each of these is a call of its own: between two of them other   *)
(* requests go on, a call is refused, its answer is lost, or the function  *)
(* dies.  post_doc_reversal itself is a transaction at READ COMMITTED: its *)
(* check is one step, its COMMIT another.                                  *)
(*                                                                         *)
(* A register entry stands for the moves of one document and one cabinet;  *)
(* quantities are StockPosting's.  A reversing card can be reversed too.   *)
(* Drafts and cancelled tasks have no moves and are left out.              *)
(***************************************************************************)
EXTENDS Integers, FiniteSets

CONSTANTS
    Requests,
    Postings,      \* uuids of what posting functions wrote
    Corrections,   \* those of them that correct a receipt
    Cabinets,
    NoCabinet,     \* cabinet_id is null
    NoDoc,         \* movement_doc_id, reverses_doc_id is null
    Parts,         \* the cabinets of each posting's moves
    CardCabs,      \* the cabinets of the cards it gets
    MaxCards,      \* bound: cards ever inserted
    Faults         \* "refuse", "lose", "die"

ASSUME PostingsApart == Postings \cap Nat = {} /\ NoDoc \notin Postings \cup Nat
ASSUME CabinetsApart == NoCabinet \notin Cabinets
ASSUME CorrectionsArePostings == Corrections \subseteq Postings
ASSUME PartsHaveCards ==
    \A d \in Postings :
        /\ Parts[d] \subseteq Cabinets \cup {NoCabinet} /\ Parts[d] # {}
        /\ \/ CardCabs[d] = {NoCabinet}
           \/ CardCabs[d] = Parts[d] /\ NoCabinet \notin Parts[d]
ASSUME MaxCardsIsNat == MaxCards \in Nat

VARIABLES
    register,   \* stock_moves
    cards,      \* stock_docs
    made,       \* cards ever inserted
    req         \* where each request is and what it remembers

(* History, for the properties only.                                       *)
VARIABLES
    raced,      \* parts two requests were writing a reversal of at once
    cut         \* cards whose request was cut short by a fault

vars == <<register, cards, made, req, raced, cut>>

Cabs == Cabinets \cup {NoCabinet}
Ids == 1..MaxCards
Docs == Postings \cup Ids     \* a reversal's moves carry the id of its card
Entry == [doc : Docs, cab : Cabs, reverses : Docs \cup {NoDoc}]

Absent == [status |-> "none", movement |-> NoDoc, cab |-> NoCabinet,
           reverses |-> 0, reversedBy |-> 0]
Idle == [at |-> "idle", card |-> 0, doc |-> NoDoc, cab |-> NoCabinet, own |-> 0]

Init ==
    /\ register = {}
    /\ cards = [i \in Ids |-> Absent]
    /\ made = 0
    /\ req = [r \in Requests |-> Idle]
    /\ raced = {} /\ cut = {}

Goto(r, place) ==
    req' = [req EXCEPT ![r] = [at |-> place, card |-> req[r].card,
                               doc |-> req[r].doc, cab |-> req[r].cab,
                               own |-> req[r].own]]
End(r) == req' = [req EXCEPT ![r] = Idle]

-----------------------------------------------------------------------------
(* What the journal is about.                                              *)

(* A posting function commits.                                             *)
Post(d) ==
    /\ \A e \in register : e.doc # d
    /\ register' = register \cup
           {[doc |-> d, cab |-> c, reverses |-> NoDoc] : c \in Parts[d]}
    /\ UNCHANGED <<cards, made, req, raced, cut>>

(* recordStockDoc(), once for each card; it may fail, and nobody minds.    *)
Record(d, c) ==
    /\ \E e \in register : e.doc = d
    /\ c \in CardCabs[d]
    /\ \A i \in Ids : cards[i].movement = d => cards[i].cab # c
    /\ made < MaxCards /\ made' = made + 1
    /\ cards' = [cards EXCEPT ![made'] =
                   [status |-> "posted", movement |-> d, cab |-> c,
                    reverses |-> 0, reversedBy |-> 0]]
    /\ UNCHANGED <<register, req, raced, cut>>

-----------------------------------------------------------------------------
(* The request.                                                            *)

(* The card is read and its guards are checked; all that follows uses what *)
(* was read.  A correction of a receipt is not reversed.                   *)
Open(r, i) ==
    /\ req[r].at = "idle"
    /\ cards[i].status = "posted" /\ cards[i].reversedBy = 0
    /\ cards[i].movement \notin Corrections \cup {NoDoc}
    /\ req' = [req EXCEPT ![r] =
                 [at |-> "insert", card |-> i, doc |-> cards[i].movement,
                  cab |-> cards[i].cab, own |-> 0]]
    /\ UNCHANGED <<register, cards, made, raced, cut>>

(* Mutant: the card refers to the moves, not to the card, it reverses.     *)
OfMoves(r) ==
    [status |-> "posted", movement |-> NoDoc, cab |-> req[r].cab,
     reverses |-> req[r].doc, reversedBy |-> 0]

NewCard(r) ==
    [status |-> "posted", movement |-> NoDoc, cab |-> req[r].cab,
     reverses |-> req[r].card, reversedBy |-> 0]

(* The number, then the card of the reversal.                              *)
Insert(r) ==
    /\ req[r].at = "insert"
    /\ made < MaxCards /\ made' = made + 1
    /\ cards' = [cards EXCEPT ![made'] = NewCard(r)]
    /\ \/ /\ req' = [req EXCEPT ![r] =
                       [at |-> "check", card |-> req[r].card,
                        doc |-> req[r].doc, cab |-> req[r].cab, own |-> made']]
          /\ UNCHANGED cut
       \/ "lose" \in Faults /\ End(r) /\ cut' = cut \cup {made'}
    /\ UNCHANGED <<register, raced>>

InPart(e, cab) == cab = NoCabinet \/ e.cab = cab

(* Mutant: the wrong one of its two documents is compared.                 *)
IsReversal(doc, cab) ==
    \E e \in register : e.doc = doc /\ e.reverses # NoDoc /\ InPart(e, cab)

(* The look-up also knows, by the note, reversals from before entries had  *)
(* the link to what they reverse; post_doc_reversal writes none without it *)
(* any more, and there are none here.  A database without the migration    *)
(* that knows cabinets, for which the route calls the function again in    *)
(* its older form, is left out too.                                        *)
AlreadyReversed(doc, cab) ==
    \E e \in register : e.reverses = doc /\ InPart(e, cab)

Lines(doc, cab) == {e \in register : e.doc = doc /\ InPart(e, cab)}

PartsOf(doc, cab) == {<<doc, e.cab>> : e \in Lines(doc, cab)}

(* Mutants: an error is taken for an answer; it ends the request.          *)
Onwards == "link"
AtOnce == "idle"

AfterError == "drop"

(* post_doc_reversal: the check ...                                        *)
Check(r) ==
    /\ req[r].at = "check"
    /\ IF AlreadyReversed(req[r].doc, req[r].cab)
       THEN Goto(r, AfterError) /\ UNCHANGED raced
       ELSE /\ Goto(r, "commit")
            /\ raced' = IF \E q \in Requests :
                             /\ req[q].at = "commit"
                             /\ req[q].doc = req[r].doc
                             /\ req[q].cab = req[r].cab
                        THEN raced \cup PartsOf(req[r].doc, req[r].cab)
                        ELSE raced
    /\ UNCHANGED <<register, cards, made, cut>>

(* ... and the opposite moves.                                             *)
Commit(r) ==
    /\ req[r].at = "commit"
    /\ register' = register \cup
           {[doc |-> req[r].own, cab |-> e.cab, reverses |-> req[r].doc]
                : e \in Lines(req[r].doc, req[r].cab)}
    /\ \/ Goto(r, "link") /\ UNCHANGED cut
       \/ "lose" \in Faults /\ Goto(r, AfterError)
          /\ cut' = cut \cup {req[r].own}
    /\ UNCHANGED <<cards, made, raced>>

(* The function raises or is not reached.                                  *)
Fail(r) ==
    /\ "refuse" \in Faults /\ req[r].at \in {"insert", "check", "commit"}
    /\ IF req[r].at = "insert" THEN End(r) ELSE Goto(r, AfterError)
    /\ UNCHANGED <<register, cards, made, raced, cut>>

(* An update or the delete of a card, whose result nobody looks at.        *)
Write(r, new) ==
    \/ cards' = new /\ UNCHANGED cut
    \/ "refuse" \in Faults /\ UNCHANGED cards /\ cut' = cut \cup {req[r].own}

(* A card with a new status, moves or reversal.                            *)
Rewritten(i, status, movement, by) ==
    [cards EXCEPT ![i] = [status |-> status, movement |-> movement,
                          cab |-> cards[i].cab, reverses |-> cards[i].reverses,
                          reversedBy |-> by]]

Linked(r) == Rewritten(req[r].own, "posted", req[r].own, 0)

Link(r) ==
    /\ req[r].at = "link"
    /\ Write(r, Linked(r))
    /\ Goto(r, "mark")
    /\ UNCHANGED <<register, made, raced>>

(* Mutant: the card is linked but keeps its status.                        *)
LinkedOnly(r) ==
    Rewritten(req[r].card, cards[req[r].card].status, req[r].doc, req[r].own)

Marked(r) == Rewritten(req[r].card, "reversed", req[r].doc, req[r].own)

Mark(r) ==
    /\ req[r].at = "mark"
    /\ Write(r, Marked(r))
    /\ End(r)
    /\ UNCHANGED <<register, made, raced>>

Drop(r) ==
    /\ req[r].at = "drop"
    /\ Write(r, [cards EXCEPT ![req[r].own] = Absent])
    /\ End(r)
    /\ UNCHANGED <<register, made, raced>>

Die(r) ==
    /\ "die" \in Faults /\ req[r].at # "idle"
    /\ End(r)
    /\ cut' = cut \cup ({req[r].own} \ {0})
    /\ UNCHANGED <<register, cards, made, raced>>

Step(r) ==
    \/ Insert(r) \/ Check(r) \/ Commit(r) \/ Fail(r)
    \/ Link(r) \/ Mark(r) \/ Drop(r) \/ Die(r)

Next ==
    \/ \E d \in Postings : Post(d) \/ \E c \in Cabs : Record(d, c)
    \/ \E r \in Requests : Step(r) \/ \E i \in Ids : Open(r, i)

Spec == Init /\ [][Next]_vars

-----------------------------------------------------------------------------
Places == {"idle", "insert", "check", "commit", "link", "mark", "drop"}

Card == [status : {"none", "posted", "reversed"}, movement : Docs \cup {NoDoc},
         cab : Cabs, reverses : Ids \cup {0}, reversedBy : Ids \cup {0}]
Req == [at : Places, card : Ids \cup {0}, doc : Docs \cup {NoDoc}, cab : Cabs,
        own : Ids \cup {0}]

TypeOK ==
    /\ register \subseteq Entry
    /\ cards \in [Ids -> Card]
    /\ made \in 0..MaxCards
    /\ req \in [Requests -> Req]
    /\ raced \subseteq Docs \X Cabs
    /\ cut \subseteq Ids

(* A card that says "reversed" is right: the card it names as its reversal *)
(* wrote the opposite of every one of its moves.                           *)
MarkedIsUndone ==
    \A i \in Ids : cards[i].status = "reversed" =>
        \A e \in Lines(cards[i].movement, cards[i].cab) :
            [doc |-> cards[i].reversedBy, cab |-> e.cab, reverses |-> e.doc]
                \in register

(* However often a reversal is pressed again after an error, a lost answer *)
(* or a crash, moves are undone once: twice only when two requests were    *)
(* between their check and their COMMIT together, which nothing prevents.  *)
UndoneOnce ==
    \A e, f \in register :
        /\ e.reverses = f.reverses /\ e.cab = f.cab
        /\ e.reverses # NoDoc /\ <<e.reverses, e.cab>> \notin raced
        => e = f

(* The journal follows the register: a reversal in the register has its    *)
(* card, and the card it reverses says so, unless its request is still at  *)
(* it or was itself cut short.  Other requests cannot break this.          *)
JournalFollows ==
    \A e \in register : e.reverses # NoDoc =>
        \/ \E r \in Requests : req[r].own = e.doc /\ req[r].at \in {"link", "mark"}
        \/ e.doc \in cut
        \/ /\ cards[e.doc].status # "none" /\ cards[e.doc].movement = e.doc
           /\ \E i \in Ids : /\ i = cards[e.doc].reverses
                             /\ cards[i].status = "reversed"
                             /\ cards[i].movement = e.reverses

(* route.ts: no document without lines is left hanging in the journal, but *)
(* for one whose request was cut short.                                    *)
NoEmptyCard ==
    \A i \in Ids : cards[i].status # "none" /\ cards[i].movement = NoDoc =>
        i \in cut \/ \E r \in Requests : req[r].own = i
=============================================================================
