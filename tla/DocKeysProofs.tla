--------------------------- MODULE DocKeysProofs ---------------------------
(***************************************************************************)
(* Theorems about the idempotency layer, for any number of keys and        *)
(* requests: with any failures, and, last, its promise when nothing fails. *)
(***************************************************************************)
EXTENDS DocKeys, FiniteSetTheorems, TLAPS

-----------------------------------------------------------------------------
(* Types.                                                                  *)

(* Moving a handler to another step keeps the requests typed.              *)
LEMMA GotoTyped ==
  ASSUME request \in [Requests -> Request], NEW r, NEW s \in Steps, Goto(r, s)
  PROVE  request' \in [Requests -> Request]
BY DEF Goto, Request

(* Every reachable state of the rows, handlers and postings has its type.  *)
THEOREM TypeCorrect == Spec => []TypeOK
<1> USE NoResultIsNoRequest DEF TypeOK, Row, Request, Steps, Verdicts
<1>1. Init => TypeOK
  BY DEF Init, NoRow
<1>2. TypeOK /\ [Next]_vars => TypeOK'
  <2> SUFFICES ASSUME TypeOK, [Next]_vars PROVE TypeOK'
    OBVIOUS
  <2>1. ASSUME NEW r \in Requests, Arrive(r) PROVE TypeOK'
    BY <2>1, GotoTyped DEF Arrive
  <2>2. ASSUME NEW r \in Requests, ClaimRead(r) PROVE TypeOK'
    <3>1. Verdict(keyRow[request[r].key]) \in Verdicts
      BY DEF Verdict
    <3>2. keyRow[request[r].key].result \in Requests \cup {NoResult}
      OBVIOUS
    <3>3. QED
      BY <2>2, <3>1, <3>2 DEF ClaimRead
  <2>3. ASSUME NEW r \in Requests, ClaimAnswered(r) \/ ClaimBusy(r) PROVE TypeOK'
    <3>1. request' \in [Requests -> Request]
      BY <2>3, GotoTyped DEF ClaimAnswered, ClaimBusy
    <3>2. UNCHANGED <<keyRow, posted, mishaps>>
      BY <2>3 DEF ClaimAnswered, ClaimBusy
    <3>3. QED
      BY <3>1, <3>2
  <2>4. ASSUME NEW r \in Requests, ClaimInsert(r) PROVE TypeOK'
    <3>1. CASE keyRow[request[r].key].there
      BY <2>4, <3>1, GotoTyped DEF ClaimInsert
    <3>2. CASE ~keyRow[request[r].key].there
      <4>1. request' \in [Requests -> Request]
        BY <2>4, <3>2, GotoTyped DEF ClaimInsert
      <4>2. keyRow' \in [Keys -> Row]
        <5>1. FreshRow \in Row
          BY DEF FreshRow
        <5>2. QED
          BY <2>4, <3>2, <5>1 DEF ClaimInsert
      <4>3. QED
        BY <2>4, <4>1, <4>2 DEF ClaimInsert
    <3>3. QED
      BY <3>1, <3>2
  <2>5. ASSUME NEW r \in Requests, ClaimTakeover(r) PROVE TypeOK'
    <3>1. request' \in [Requests -> Request]
      BY <2>5, GotoTyped DEF ClaimTakeover
    <3>2. keyRow' \in [Keys -> Row]
      BY <2>5 DEF ClaimTakeover, TouchRow
    <3>3. mishaps' \in [Keys -> Nat]
      BY <2>5 DEF ClaimTakeover, Mishap
    <3>4. QED
      BY <2>5, <3>1, <3>2, <3>3 DEF ClaimTakeover
  <2>6. ASSUME NEW r \in Requests, ClaimError(r) PROVE TypeOK'
    <3>1. request' \in [Requests -> Request]
      BY <2>6, GotoTyped DEF ClaimError
    <3>2. QED
      BY <2>6, <3>1 DEF ClaimError, Mishap
  <2>7. ASSUME NEW r \in Requests, Post(r) \/ PostRaised(r) PROVE TypeOK'
    <3>1. request' \in [Requests -> Request]
      BY <2>7, GotoTyped DEF Post, PostRaised
    <3>2. QED
      BY <2>7, <3>1 DEF Post, PostRaised
  <2>8. ASSUME NEW r \in Requests, PostAnswerLost(r) PROVE TypeOK'
    <3>1. request' \in [Requests -> Request]
      BY <2>8, GotoTyped DEF PostAnswerLost
    <3>2. QED
      BY <2>8, <3>1 DEF PostAnswerLost, Mishap
  <2>9. ASSUME NEW r \in Requests, Release(r) PROVE TypeOK'
    <3>1. request' \in [Requests -> Request]
      BY <2>9, GotoTyped DEF Release
    <3>2. QED
      BY <2>9, <3>1 DEF Release, DropClaim, NoRow
  <2>10. ASSUME NEW r \in Requests, Settle(r) PROVE TypeOK'
    <3>1. request' \in [Requests -> Request]
      BY <2>10 DEF Settle, AnswerOwn
    <3>2. keyRow' \in [Keys -> Row]
      BY <2>10 DEF Settle, StoreAnswer
    <3>3. QED
      BY <2>10, <3>1, <3>2 DEF Settle
  <2>11. ASSUME NEW r \in Requests, SettleLost(r) PROVE TypeOK'
    BY <2>11 DEF SettleLost, AnswerOwn
  <2>12. ASSUME NEW r \in Requests, Crash(r) PROVE TypeOK'
    <3>1. request' \in [Requests -> Request]
      BY <2>12, GotoTyped DEF Crash
    <3>2. QED
      BY <2>12, <3>1 DEF Crash
  <2>13. ASSUME NEW k \in Keys, Age(k) PROVE TypeOK'
    BY <2>13 DEF Age
  <2>14. CASE UNCHANGED vars
    BY <2>14 DEF vars
  <2>15. QED
    BY <2>1, <2>2, <2>3, <2>4, <2>5, <2>6, <2>7, <2>8, <2>9, <2>10, <2>11,
       <2>12, <2>13, <2>14 DEF Next, Handler, Failure
<1>3. QED
  BY <1>1, <1>2, PTL DEF Spec

-----------------------------------------------------------------------------
(* The budget.                                                             *)

(* A claim in the table pays for one holder or posting, and every mishap   *)
(* for one more.  Unlike PostingBudget this counts the handlers that may   *)
(* still post, and it is tighter once the row is gone: a released key must *)
(* not leave a holder behind that nobody paid for.                         *)
Paid(k) == mishaps[k] + (IF keyRow[k].there THEN 1 ELSE 0)
Load(k) == Cardinality(Holders(k)) + Cardinality(Postings(k))
LoadIsPaid == \A k \in Keys : Load(k) <= Paid(k)

(* Counting facts about a finite set that gains or loses one element.      *)
LEMMA Grow ==
  ASSUME NEW S, IsFiniteSet(S), NEW T, NEW x, T \subseteq S \cup {x}
  PROVE  /\ IsFiniteSet(T)
         /\ Cardinality(T) \in Nat /\ Cardinality(S) \in Nat
         /\ Cardinality(T) <= Cardinality(S) + 1
<1>0. Cardinality(S) \in Nat
  BY FS_CardinalityType
<1>1. /\ IsFiniteSet(S \cup {x})
      /\ Cardinality(S \cup {x}) \in {Cardinality(S), Cardinality(S) + 1}
  BY FS_AddElement
<1>2. IsFiniteSet(T) /\ Cardinality(T) <= Cardinality(S \cup {x})
  BY <1>1, FS_Subset
<1>3. Cardinality(T) \in Nat
  BY <1>2, FS_CardinalityType
<1>4. QED
  BY <1>0, <1>1, <1>2, <1>3

LEMMA Shrink ==
  ASSUME NEW S, IsFiniteSet(S), NEW T, T \subseteq S
  PROVE  /\ IsFiniteSet(T)
         /\ Cardinality(T) \in Nat /\ Cardinality(S) \in Nat
         /\ Cardinality(T) <= Cardinality(S)
BY FS_Subset, FS_CardinalityType

LEMMA Lose ==
  ASSUME NEW S, IsFiniteSet(S), NEW T, NEW x \in S, T \subseteq S \ {x}
  PROVE  /\ IsFiniteSet(T)
         /\ Cardinality(T) \in Nat /\ Cardinality(S) \in Nat
         /\ Cardinality(T) <= Cardinality(S) - 1
<1>1. IsFiniteSet(S \ {x}) /\ Cardinality(S \ {x}) = Cardinality(S) - 1
  BY FS_RemoveElement
<1>2. IsFiniteSet(T) /\ Cardinality(T) <= Cardinality(S \ {x})
  BY <1>1, FS_Subset
<1>3. QED
  BY <1>1, <1>2, FS_CardinalityType

(* A key's holders and postings are finite sets of requests.               *)
LEMMA UseIsFinite ==
  ASSUME TypeOK, NEW k \in Keys
  PROVE  IsFiniteSet(Holders(k)) /\ IsFiniteSet(Postings(k))
<1>1. Holders(k) \subseteq Requests /\ Postings(k) \subseteq Requests
  BY DEF Holders, Postings, TypeOK
<1>2. QED
  BY <1>1, RequestsFinite, FS_Subset

(* The three ways a step may change the load of a key.                     *)
LEMMA LoadKept ==
  ASSUME TypeOK, NEW k \in Keys,
         Holders(k)' \subseteq Holders(k), Postings(k)' \subseteq Postings(k)
  PROVE  Load(k) \in Nat /\ Load(k)' \in Nat /\ Load(k)' <= Load(k)
BY UseIsFinite, Shrink DEF Load

LEMMA LoadGrown ==
  ASSUME TypeOK, NEW k \in Keys, NEW r \in Requests,
         \/ /\ Holders(k)' \subseteq Holders(k) \cup {r}
            /\ Postings(k)' \subseteq Postings(k)
         \/ /\ Holders(k)' \subseteq Holders(k)
            /\ Postings(k)' \subseteq Postings(k) \cup {r}
  PROVE  Load(k) \in Nat /\ Load(k)' \in Nat /\ Load(k)' <= Load(k) + 1
<1>1. CASE /\ Holders(k)' \subseteq Holders(k) \cup {r}
           /\ Postings(k)' \subseteq Postings(k)
  <2>1. /\ Cardinality(Holders(k)) \in Nat
        /\ Cardinality(Holders(k)') \in Nat
        /\ Cardinality(Holders(k)') <= Cardinality(Holders(k)) + 1
    BY <1>1, UseIsFinite, Grow
  <2>2. /\ Cardinality(Postings(k)) \in Nat
        /\ Cardinality(Postings(k)') \in Nat
        /\ Cardinality(Postings(k)') <= Cardinality(Postings(k))
    BY <1>1, UseIsFinite, Shrink
  <2>3. QED
    BY <2>1, <2>2 DEF Load
<1>2. CASE /\ Holders(k)' \subseteq Holders(k)
           /\ Postings(k)' \subseteq Postings(k) \cup {r}
  <2>1. /\ Cardinality(Holders(k)) \in Nat
        /\ Cardinality(Holders(k)') \in Nat
        /\ Cardinality(Holders(k)') <= Cardinality(Holders(k))
    BY <1>2, UseIsFinite, Shrink
  <2>2. /\ Cardinality(Postings(k)) \in Nat
        /\ Cardinality(Postings(k)') \in Nat
        /\ Cardinality(Postings(k)') <= Cardinality(Postings(k)) + 1
    BY <1>2, UseIsFinite, Grow
  <2>3. QED
    BY <2>1, <2>2 DEF Load
<1>3. QED
  BY <1>1, <1>2

LEMMA LoadReleased ==
  ASSUME TypeOK, NEW k \in Keys, NEW r \in Holders(k),
         Holders(k)' \subseteq Holders(k) \ {r},
         Postings(k)' \subseteq Postings(k)
  PROVE  Load(k) \in Nat /\ Load(k)' \in Nat /\ Load(k)' <= Load(k) - 1
<1>1. /\ Cardinality(Holders(k)) \in Nat
      /\ Cardinality(Holders(k)') \in Nat
      /\ Cardinality(Holders(k)') <= Cardinality(Holders(k)) - 1
  BY UseIsFinite, Lose
<1>2. /\ Cardinality(Postings(k)) \in Nat
      /\ Cardinality(Postings(k)') \in Nat
      /\ Cardinality(Postings(k)') <= Cardinality(Postings(k))
  BY UseIsFinite, Shrink
<1>3. QED
  BY <1>1, <1>2 DEF Load

LEMMA LoadPosted ==
  ASSUME TypeOK, NEW k \in Keys, NEW r \in Holders(k),
         Holders(k)' \subseteq Holders(k) \ {r},
         Postings(k)' \subseteq Postings(k) \cup {r}
  PROVE  Load(k) \in Nat /\ Load(k)' \in Nat /\ Load(k)' <= Load(k)
<1>1. /\ Cardinality(Holders(k)) \in Nat
      /\ Cardinality(Holders(k)') \in Nat
      /\ Cardinality(Holders(k)') <= Cardinality(Holders(k)) - 1
  BY UseIsFinite, Lose
<1>2. /\ Cardinality(Postings(k)) \in Nat
      /\ Cardinality(Postings(k)') \in Nat
      /\ Cardinality(Postings(k)') <= Cardinality(Postings(k)) + 1
  BY UseIsFinite, Grow
<1>3. QED
  BY <1>1, <1>2 DEF Load

(* Every step keeps the load of every key paid for.                        *)
LEMMA LoadStep ==
  ASSUME TypeOK, LoadIsPaid, [Next]_vars
  PROVE  LoadIsPaid'
<1> SUFFICES ASSUME NEW k \in Keys PROVE Load(k)' <= Paid(k)'
  BY DEF LoadIsPaid
<1>0. Load(k) <= Paid(k) /\ mishaps[k] \in Nat
  BY DEF LoadIsPaid, TypeOK
<1>kept. ASSUME Holders(k)' \subseteq Holders(k),
                Postings(k)' \subseteq Postings(k),
                mishaps'[k] = mishaps[k],
                keyRow[k].there => keyRow'[k].there
         PROVE  Load(k)' <= Paid(k)'
  BY <1>0, <1>kept, LoadKept DEF Paid
<1> USE DEF TypeOK, Request
<1>1. ASSUME NEW r \in Requests,
             Arrive(r) \/ ClaimRead(r) \/ ClaimAnswered(r) \/ ClaimBusy(r)
      PROVE  Load(k)' <= Paid(k)'
  <2>1. Holders(k)' \subseteq Holders(k) /\ Postings(k)' \subseteq Postings(k)
    BY <1>1 DEF Arrive, ClaimRead, ClaimAnswered, ClaimBusy, Goto, Holders,
                Postings
  <2>2. mishaps' = mishaps /\ keyRow' = keyRow
    BY <1>1 DEF Arrive, ClaimRead, ClaimAnswered, ClaimBusy
  <2>3. QED
    BY <2>1, <2>2, <1>kept
<1>2. ASSUME NEW r \in Requests, ClaimInsert(r) PROVE Load(k)' <= Paid(k)'
  <2>1. CASE request[r].key # k \/ keyRow[k].there
    <3>1. Holders(k)' \subseteq Holders(k) /\ Postings(k)' \subseteq Postings(k)
      BY <1>2, <2>1 DEF ClaimInsert, Goto, Holders, Postings
    <3>2. mishaps' = mishaps /\ keyRow'[k] = keyRow[k]
      BY <1>2, <2>1 DEF ClaimInsert
    <3>3. QED
      BY <3>1, <3>2, <1>kept
  <2>2. CASE request[r].key = k /\ ~keyRow[k].there
    <3>1. /\ Holders(k)' \subseteq Holders(k) \cup {r}
          /\ Postings(k)' \subseteq Postings(k)
      BY <1>2, <2>2 DEF ClaimInsert, Goto, Holders, Postings
    <3>2. mishaps' = mishaps /\ keyRow'[k] = FreshRow
      BY <1>2, <2>2 DEF ClaimInsert
    <3>3. Paid(k)' = Paid(k) + 1
      BY <1>0, <3>2, <2>2 DEF Paid, FreshRow
    <3>4. Load(k) \in Nat /\ Load(k)' \in Nat /\ Load(k)' <= Load(k) + 1
      BY <3>1, LoadGrown
    <3>5. QED
      BY <1>0, <3>3, <3>4 DEF Paid
  <2>3. QED
    BY <2>1, <2>2
<1>3. ASSUME NEW r \in Requests, ClaimTakeover(r) PROVE Load(k)' <= Paid(k)'
  <2>0. keyRow'[k].there = keyRow[k].there
    BY <1>3 DEF ClaimTakeover, TouchRow, Row
  <2>1. CASE request[r].key # k
    <3>1. Holders(k)' \subseteq Holders(k) /\ Postings(k)' \subseteq Postings(k)
      BY <1>3, <2>1 DEF ClaimTakeover, Goto, Holders, Postings
    <3>2. mishaps'[k] = mishaps[k]
      BY <1>3, <2>1 DEF ClaimTakeover, Mishap
    <3>3. QED
      BY <2>0, <3>1, <3>2, <1>kept
  <2>2. CASE request[r].key = k
    <3>1. /\ Holders(k)' \subseteq Holders(k) \cup {r}
          /\ Postings(k)' \subseteq Postings(k)
      BY <1>3, <2>2 DEF ClaimTakeover, Goto, Holders, Postings
    <3>2. Load(k) \in Nat /\ Load(k)' \in Nat /\ Load(k)' <= Load(k) + 1
      BY <3>1, LoadGrown
    <3>3. CASE CleanTakeover(k)
      <4>1. mishaps'[k] = mishaps[k] /\ keyRow'[k].there
        BY <1>3, <2>0, <2>2, <3>3 DEF ClaimTakeover, CleanTakeover
      <4>2. Load(k) = 0
        BY <3>3, FS_EmptySet DEF CleanTakeover, Load
      <4>3. QED
        BY <1>0, <3>2, <4>1, <4>2 DEF Paid
    <3>4. CASE ~CleanTakeover(k)
      <4>1. mishaps'[k] = mishaps[k] + 1
        BY <1>3, <2>2, <3>4 DEF ClaimTakeover, Mishap
      <4>2. Paid(k)' = Paid(k) + 1
        BY <1>0, <2>0, <4>1 DEF Paid
      <4>3. QED
        BY <1>0, <3>2, <4>2 DEF Paid
    <3>5. QED
      BY <3>3, <3>4
  <2>3. QED
    BY <2>1, <2>2
<1>4. ASSUME NEW r \in Requests, ClaimError(r) \/ PostAnswerLost(r)
      PROVE  Load(k)' <= Paid(k)'
  <2>0. keyRow' = keyRow
    BY <1>4 DEF ClaimError, PostAnswerLost
  <2>1. CASE request[r].key # k
    <3>1. Holders(k)' \subseteq Holders(k) /\ Postings(k)' \subseteq Postings(k)
      BY <1>4, <2>1 DEF ClaimError, PostAnswerLost, Goto, Holders, Postings
    <3>2. mishaps'[k] = mishaps[k]
      BY <1>4, <2>1 DEF ClaimError, PostAnswerLost, Mishap
    <3>3. QED
      BY <2>0, <3>1, <3>2, <1>kept
  <2>2. CASE request[r].key = k
    <3>1. \/ /\ Holders(k)' \subseteq Holders(k) \cup {r}
             /\ Postings(k)' \subseteq Postings(k)
          \/ /\ Holders(k)' \subseteq Holders(k)
             /\ Postings(k)' \subseteq Postings(k) \cup {r}
      BY <1>4, <2>2 DEF ClaimError, PostAnswerLost, Goto, Holders, Postings
    <3>2. Load(k) \in Nat /\ Load(k)' \in Nat /\ Load(k)' <= Load(k) + 1
      BY <3>1, LoadGrown
    <3>3. mishaps'[k] = mishaps[k] + 1
      BY <1>4, <2>2 DEF ClaimError, PostAnswerLost, Mishap
    <3>4. Paid(k)' = Paid(k) + 1
      BY <1>0, <2>0, <3>3 DEF Paid
    <3>5. QED
      BY <1>0, <3>2, <3>4 DEF Paid
  <2>3. QED
    BY <2>1, <2>2
<1>5. ASSUME NEW r \in Requests, Post(r) \/ Crash(r)
      PROVE  Load(k)' <= Paid(k)'
  <2>0. mishaps' = mishaps /\ keyRow' = keyRow
    BY <1>5 DEF Post, Crash
  <2>1. CASE request[r].key = k /\ request[r].step = "posting"
    <3>1. r \in Holders(k)
      BY <2>1 DEF Holders
    <3>2. /\ Holders(k)' \subseteq Holders(k) \ {r}
          /\ Postings(k)' \subseteq Postings(k) \cup {r}
      BY <1>5, <2>1 DEF Post, Crash, Goto, Holders, Postings
    <3>3. Load(k) \in Nat /\ Load(k)' \in Nat /\ Load(k)' <= Load(k)
      BY <3>1, <3>2, LoadPosted
    <3>4. QED
      BY <1>0, <2>0, <3>3 DEF Paid
  <2>2. CASE request[r].key # k \/ request[r].step # "posting"
    <3>1. Holders(k)' \subseteq Holders(k) /\ Postings(k)' \subseteq Postings(k)
      BY <1>5, <2>2 DEF Post, Crash, Goto, Holders, Postings, Live
    <3>2. QED
      BY <2>0, <3>1, <1>kept
  <2>3. QED
    BY <2>1, <2>2
<1>6. ASSUME NEW r \in Requests, Release(r) PROVE Load(k)' <= Paid(k)'
  <2>1. mishaps' = mishaps /\ posted' = posted
    BY <1>6 DEF Release
  <2>2. CASE request[r].key = k
    <3>1. r \in Holders(k)
      BY <1>6, <2>2 DEF Release, Holders
    <3>2. /\ Holders(k)' \subseteq Holders(k) \ {r}
          /\ Postings(k)' \subseteq Postings(k)
      BY <1>6, <2>1 DEF Release, Goto, Holders, Postings
    <3>3. Load(k) \in Nat /\ Load(k)' \in Nat /\ Load(k)' <= Load(k) - 1
      BY <3>1, <3>2, LoadReleased
    <3>4. QED
      BY <1>0, <2>1, <3>3 DEF Paid
  <2>3. CASE request[r].key # k
    <3>1. Holders(k)' \subseteq Holders(k) /\ Postings(k)' \subseteq Postings(k)
      BY <1>6, <2>3 DEF Release, Goto, Holders, Postings
    <3>2. keyRow'[k] = keyRow[k]
      BY <1>6, <2>3 DEF Release, DropClaim
    <3>3. QED
      BY <2>1, <3>1, <3>2, <1>kept
  <2>4. QED
    BY <2>2, <2>3
<1>7. ASSUME NEW r \in Requests, PostRaised(r) \/ Settle(r) \/ SettleLost(r)
      PROVE  Load(k)' <= Paid(k)'
  <2>1. Holders(k)' \subseteq Holders(k) /\ Postings(k)' \subseteq Postings(k)
    <3>1. CASE PostRaised(r)
      BY <3>1 DEF PostRaised, Goto, Holders, Postings
    <3>2. CASE Settle(r) \/ SettleLost(r)
      <4>1. posted' = posted
        BY <3>2 DEF Settle, SettleLost
      <4>2. \A q \in Requests : /\ request'[q].key = request[q].key
                                /\ request'[q].step \in {request[q].step, "done"}
        BY <3>2 DEF Settle, SettleLost, AnswerOwn
      <4>3. QED
        BY <4>1, <4>2 DEF Holders, Postings
    <3>3. QED
      BY <1>7, <3>1, <3>2
  <2>2. mishaps' = mishaps
    BY <1>7 DEF PostRaised, Settle, SettleLost
  <2>3. keyRow'[k].there = keyRow[k].there
    BY <1>7 DEF PostRaised, Settle, SettleLost, StoreAnswer, Row
  <2>4. QED
    BY <2>1, <2>2, <2>3, <1>kept
<1>8. ASSUME NEW j \in Keys, Age(j) PROVE Load(k)' <= Paid(k)'
  <2>1. keyRow'[k].there = keyRow[k].there
    BY <1>8 DEF Age, Row
  <2>2. QED
    BY <1>8, <2>1, <1>kept DEF Age, Holders, Postings
<1>9. CASE UNCHANGED vars
  BY <1>9, <1>kept DEF vars, Holders, Postings
<1>10. QED
  BY <1>1, <1>2, <1>3, <1>4, <1>5, <1>6, <1>7, <1>8, <1>9
     DEF Next, Handler, Failure

(* However the requests of a press interleave, crash, outlive the window   *)
(* or lose answers, the press posts at most once plus once per mishap.     *)
THEOREM BudgetHolds == Spec => []PostingBudget
<1>1. Init => LoadIsPaid
  <2> SUFFICES ASSUME Init, NEW k \in Keys PROVE Load(k) <= Paid(k)
    BY DEF LoadIsPaid
  <2>1. Holders(k) = {} /\ Postings(k) = {}
    BY DEF Init, Holders, Postings
  <2>2. Load(k) = 0
    BY <2>1, FS_EmptySet DEF Load
  <2>3. QED
    BY <2>2 DEF Init, Paid, NoRow
<1>2. TypeOK /\ LoadIsPaid => PostingBudget
  <2> SUFFICES ASSUME TypeOK, LoadIsPaid, NEW k \in Keys
               PROVE  Cardinality(Postings(k)) <= 1 + mishaps[k]
    BY DEF PostingBudget
  <2>1. /\ Cardinality(Holders(k)) \in Nat
        /\ Cardinality(Postings(k)) \in Nat
    BY UseIsFinite, FS_CardinalityType
  <2>2. mishaps[k] \in Nat /\ Load(k) <= Paid(k)
    BY DEF TypeOK, LoadIsPaid
  <2>3. QED
    BY <2>1, <2>2 DEF Load, Paid
<1>3. QED
  BY <1>1, <1>2, LoadStep, TypeCorrect, PTL DEF Spec

-----------------------------------------------------------------------------
(* Answers.                                                                *)

(* Where an answer can be: in the row, in the verdict of a claim that saw  *)
(* a settled row, and with a handler that finished.                        *)
AnswerInv ==
    /\ \A k \in Keys : keyRow[k].result # NoResult =>
           keyRow[k].there /\ keyRow[k].result \in Postings(k)
    /\ \A r \in Requests :
           /\ request[r].step = "posted" => r \in posted
           /\ \/ request[r].step = "decide" /\ request[r].saw = "settled"
              \/ request[r].step \in {"answered", "done"}
              => request[r].answer \in Postings(request[r].key)

(* No step takes a posting away from a key.                                *)
LEMMA PostingsGrow ==
  ASSUME TypeOK, [Next]_vars
  PROVE  /\ \A r \in Requests : request'[r].key = request[r].key
         /\ posted \subseteq posted'
         /\ \A k \in Keys : Postings(k) \subseteq Postings(k)'
<1> USE DEF TypeOK, Request
<1>1. \A r \in Requests : request'[r].key = request[r].key
  <2>1. ASSUME NEW q \in Requests, ClaimRead(q) \/ Settle(q) \/ SettleLost(q)
        PROVE  \A r \in Requests : request'[r].key = request[r].key
    BY <2>1 DEF ClaimRead, Settle, SettleLost, AnswerOwn
  <2>2. ASSUME NEW q \in Requests, NEW st, Goto(q, st)
        PROVE  \A r \in Requests : request'[r].key = request[r].key
    BY <2>2 DEF Goto
  <2>3. ASSUME NEW q \in Requests, ClaimInsert(q)
        PROVE  Goto(q, "busy") \/ Goto(q, "posting")
    BY <2>3 DEF ClaimInsert
  <2>4. QED
    BY <2>1, <2>2, <2>3 DEF Next, Handler, Failure, vars, Arrive, ClaimAnswered,
       ClaimBusy, ClaimTakeover, ClaimError, Post, PostRaised, PostAnswerLost,
       Release, Crash, Age
<1>2. posted \subseteq posted'
  BY DEF Next, Handler, Failure, vars, Arrive, ClaimRead, ClaimAnswered,
     ClaimBusy, ClaimInsert, ClaimTakeover, ClaimError, Post, PostRaised,
     PostAnswerLost, Release, Settle, SettleLost, Crash, Age
<1>3. QED
  BY <1>1, <1>2 DEF Postings

(* What a step does to a key's row: it keeps the row's answer, or removes  *)
(* or inserts a row without one, or stores the caller's own posting.       *)
LEMMA RowStep ==
  ASSUME TypeOK, AnswerInv, [Next]_vars, NEW k \in Keys
  PROVE  \/ /\ keyRow'[k].result = keyRow[k].result
            /\ keyRow'[k].there = keyRow[k].there
         \/ keyRow[k].result = NoResult /\ keyRow'[k].result = NoResult
         \/ /\ keyRow[k].there /\ keyRow'[k].there
            /\ \E r \in posted : /\ request[r].key = k
                                 /\ keyRow'[k].result = r
<1> USE DEF TypeOK, Row
<1>1. ASSUME NEW r \in Requests, ClaimInsert(r)
      PROVE  \/ keyRow'[k] = keyRow[k]
             \/ keyRow[k].result = NoResult /\ keyRow'[k].result = NoResult
  <2>1. CASE keyRow[request[r].key].there \/ request[r].key # k
    BY <1>1, <2>1 DEF ClaimInsert
  <2>2. CASE ~keyRow[request[r].key].there /\ request[r].key = k
    <3>1. keyRow[k].result = NoResult
      BY <2>2 DEF AnswerInv
    <3>2. keyRow'[k] = FreshRow
      BY <1>1, <2>2 DEF ClaimInsert
    <3>3. QED
      BY <3>1, <3>2 DEF FreshRow
  <2>3. QED
    BY <2>1, <2>2
<1>2. ASSUME NEW r \in Requests, ClaimTakeover(r)
      PROVE  /\ keyRow'[k].result = keyRow[k].result
             /\ keyRow'[k].there = keyRow[k].there
  BY <1>2 DEF ClaimTakeover, TouchRow
<1>3. ASSUME NEW r \in Requests, Release(r)
      PROVE  \/ keyRow'[k] = keyRow[k]
             \/ keyRow[k].result = NoResult /\ keyRow'[k].result = NoResult
  BY <1>3 DEF Release, DropClaim, Pending, NoRow
<1>4. ASSUME NEW r \in Requests, Settle(r)
      PROVE  \/ keyRow'[k] = keyRow[k]
             \/ /\ keyRow[k].there /\ keyRow'[k].there
                /\ \E q \in posted : /\ request[q].key = k
                                     /\ keyRow'[k].result = q
  <2>1. r \in posted
    BY <1>4 DEF Settle, AnswerInv
  <2>2. QED
    BY <1>4, <2>1 DEF Settle, StoreAnswer
<1>5. ASSUME NEW j \in Keys, Age(j)
      PROVE  /\ keyRow'[k].result = keyRow[k].result
             /\ keyRow'[k].there = keyRow[k].there
  BY <1>5 DEF Age
<1>6. ASSUME NEW r \in Requests,
             \/ Arrive(r) \/ ClaimRead(r) \/ ClaimAnswered(r) \/ ClaimBusy(r)
             \/ ClaimError(r) \/ Post(r) \/ PostRaised(r)
             \/ PostAnswerLost(r) \/ SettleLost(r) \/ Crash(r)
      PROVE  keyRow' = keyRow
  BY <1>6 DEF Arrive, ClaimRead, ClaimAnswered, ClaimBusy, ClaimError, Post,
     PostRaised, PostAnswerLost, SettleLost, Crash
<1>7. QED
  BY <1>1, <1>2, <1>3, <1>4, <1>5, <1>6 DEF Next, Handler, Failure, vars

(* AnswerInv is inductive relative to the types.                           *)
LEMMA AnswerStep ==
  ASSUME TypeOK, AnswerInv, [Next]_vars
  PROVE  AnswerInv'
<1> USE DEF TypeOK, Request
<1>1. \A k \in Keys : keyRow'[k].result # NoResult =>
          keyRow'[k].there /\ keyRow'[k].result \in Postings(k)'
  <2> SUFFICES ASSUME NEW k \in Keys, keyRow'[k].result # NoResult
               PROVE  keyRow'[k].there /\ keyRow'[k].result \in Postings(k)'
    OBVIOUS
  <2>1. Postings(k) \subseteq Postings(k)'
    BY PostingsGrow
  <2>2. CASE \E r \in posted : request[r].key = k /\ keyRow'[k].result = r
    BY <2>1, <2>2, RowStep DEF Postings, AnswerInv
  <2>3. CASE /\ keyRow'[k].result = keyRow[k].result
             /\ keyRow'[k].there = keyRow[k].there
    BY <2>1, <2>3 DEF AnswerInv
  <2>4. QED
    BY <2>2, <2>3, RowStep
<1>2. ASSUME NEW r \in Requests
      PROVE  /\ request'[r].step = "posted" => r \in posted'
             /\ \/ request'[r].step = "decide" /\ request'[r].saw = "settled"
                \/ request'[r].step \in {"answered", "done"}
                => request'[r].answer \in Postings(request[r].key)
  <2>1. CASE request'[r] = request[r]
    BY <2>1, PostingsGrow DEF AnswerInv
  <2>2. CASE ClaimRead(r)
    <3>1. request'[r].step = "decide"
      BY <2>2 DEF ClaimRead
    <3>2. request'[r].saw = "settled" =>
              /\ keyRow[request[r].key].result # NoResult
              /\ request'[r].answer = keyRow[request[r].key].result
      BY <2>2 DEF ClaimRead, Verdict
    <3>3. QED
      BY <3>1, <3>2 DEF AnswerInv
  <2>3. CASE ClaimAnswered(r)
    BY <2>3 DEF ClaimAnswered, Goto, AnswerInv
  <2>4. CASE Settle(r) \/ SettleLost(r)
    <3>1. r \in Postings(request[r].key)
      BY <2>4 DEF Settle, SettleLost, AnswerInv, Postings
    <3>2. request'[r].step = "done" /\ request'[r].answer = r
      BY <2>4 DEF Settle, SettleLost, AnswerOwn
    <3>3. QED
      BY <3>1, <3>2
  <2>5. CASE Post(r)
    BY <2>5 DEF Post, Goto
  <2>6. ASSUME NEW st \in {"claim", "busy", "posting", "failed", "refused", "crashed"},
               Goto(r, st)
        PROVE  request'[r].step = st
    BY <2>6 DEF Goto
  <2>7. CASE \/ Arrive(r) \/ ClaimBusy(r) \/ ClaimInsert(r) \/ ClaimTakeover(r)
             \/ ClaimError(r) \/ PostRaised(r) \/ PostAnswerLost(r)
             \/ Release(r) \/ Crash(r)
    <3>1. \E st \in {"claim", "busy", "posting", "failed", "refused", "crashed"} :
              Goto(r, st)
      BY <2>7 DEF Arrive, ClaimBusy, ClaimInsert, ClaimTakeover, ClaimError,
         PostRaised, PostAnswerLost, Release, Crash
    <3>2. QED
      BY <2>6, <3>1
  <2>8. ASSUME NEW q \in Requests, q # r,
               Arrive(q) \/ Handler(q) \/ Failure(q)
        PROVE  request'[r] = request[r]
    BY <2>8 DEF Handler, Failure, Goto, AnswerOwn, Arrive, ClaimRead,
       ClaimAnswered, ClaimBusy, ClaimInsert, ClaimTakeover, ClaimError, Post,
       PostRaised, PostAnswerLost, Release, Settle, SettleLost, Crash
  <2>9. ASSUME \/ UNCHANGED vars \/ \E k \in Keys : Age(k)
        PROVE  request'[r] = request[r]
    BY <2>9 DEF vars, Age
  <2>10. QED
    BY <2>1, <2>2, <2>3, <2>4, <2>5, <2>7, <2>8, <2>9 DEF Next, Handler, Failure
<1>3. QED
  BY <1>1, <1>2, PostingsGrow DEF AnswerInv

(* AnswerInv holds in every reachable state.                               *)
LEMMA AnswerCorrect == Spec => []AnswerInv
<1>1. Init => AnswerInv
  BY DEF Init, AnswerInv, NoRow
<1>2. QED
  BY <1>1, AnswerStep, TypeCorrect, PTL DEF Spec

(* Whatever an answer was served from - the handler's own posting or the   *)
(* row of the key - that posting was made, and made for this press.        *)
THEOREM AnswersCorrect == Spec => []AnswersAreReal
<1>1. AnswerInv => AnswersAreReal
  BY DEF AnswerInv, AnswersAreReal
<1>2. QED
  BY <1>1, AnswerCorrect, PTL

(* A settled key is never released, re-claimed as new, or emptied.         *)
THEOREM SettledCorrect == Spec => SettledStays
<1>1. TypeOK /\ AnswerInv /\ [Next]_vars
         => [\A k \in Keys : keyRow[k].result # NoResult =>
                keyRow'[k].there /\ keyRow'[k].result # NoResult]_vars
  <2> SUFFICES ASSUME TypeOK, AnswerInv, [Next]_vars, NEW k \in Keys,
                      keyRow[k].result # NoResult
               PROVE  keyRow'[k].there /\ keyRow'[k].result # NoResult
    OBVIOUS
  <2>1. CASE \E r \in posted : keyRow'[k].there /\ keyRow'[k].result = r
    BY <2>1, NoResultIsNoRequest DEF TypeOK
  <2>2. CASE /\ keyRow'[k].result = keyRow[k].result
             /\ keyRow'[k].there = keyRow[k].there
    BY <2>2 DEF AnswerInv
  <2>3. QED
    BY <2>1, <2>2, RowStep
<1>2. QED
  BY <1>1, AnswerCorrect, TypeCorrect, PTL DEF Spec, SettledStays

-----------------------------------------------------------------------------
(* The promise.  When nothing fails, the layer implements PostOnce.        *)
(*                                                                         *)
(* The heart is that a row and its user come and go together: a claim      *)
(* always has one live handler behind it, so it is never old, no request   *)
(* ever sees it as stale, and a second posting has no way in.              *)

(* The handlers a row stands for.                                          *)
Busy == {"posting", "failed", "posted"}
Using(r, k) == request[r].key = k /\ request[r].step \in Busy \cup {"done"}

OneUser ==
    \A r, q \in Requests :
        Using(r, request[r].key) /\ Using(q, request[r].key) => r = q

RowHasUser == \A k \in Keys : keyRow[k].there <=> \E r \in Requests : Using(r, k)

SettledWhenDone ==
    \A k \in Keys : keyRow[k].result # NoResult <=>
        \E r \in Requests : request[r].key = k /\ request[r].step = "done"

PostedWhenSaid ==
    \A r \in Requests : r \in posted <=> request[r].step \in {"posted", "done"}

NeverStale ==
    /\ \A k \in Keys : ~keyRow[k].old
    /\ \A r \in Requests : request[r].saw # "stale"

AnsweredAfter ==
    \A r \in Requests :
        request[r].step = "answered"
        \/ (request[r].step = "decide" /\ request[r].saw = "settled") =>
            \E q \in Requests : request[q].key = request[r].key
                                /\ request[q].step = "done"

QuietInv == OneUser /\ RowHasUser /\ SettledWhenDone /\ PostedWhenSaid
                /\ NeverStale /\ AnsweredAfter

-----------------------------------------------------------------------------
(* What an action changes of the other requests, and of the rows: nothing. *)
LEMMA GotoSteps ==
  ASSUME TypeOK, NEW r \in Requests, NEW s, Goto(r, s)
  PROVE  /\ request'[r].step = s
         /\ request'[r].saw = request[r].saw
         /\ request'[r].answer = request[r].answer
         /\ \A q \in Requests : request'[q].key = request[q].key
         /\ \A q \in Requests \ {r} : request'[q] = request[q]
BY DEF Goto, TypeOK, Request

(* Before any request arrives no row has a user.                           *)
LEMMA QuietInit == Init => QuietInv
<1> SUFFICES ASSUME Init PROVE QuietInv
  OBVIOUS
<1>1. \A r \in Requests : request[r].step = "idle" /\ request[r].saw = "none"
  BY DEF Init
<1>2. \A k \in Keys : keyRow[k] = NoRow
  BY DEF Init
<1>3. \A r, k : r \in Requests => ~Using(r, k)
  BY <1>1 DEF Using, Busy
<1>4. QED
  BY <1>1, <1>2, <1>3 DEF QuietInv, OneUser, RowHasUser, SettledWhenDone,
     PostedWhenSaid, NeverStale, AnsweredAfter, NoRow, Init

(* Rows and users stay paired at every step no failure disturbs.           *)
LEMMA QuietStep ==
  ASSUME Failures = {}, TypeOK, QuietInv, [Next]_vars
  PROVE  QuietInv'
<1> USE DEF QuietInv
<1>inv. OneUser /\ RowHasUser /\ SettledWhenDone /\ PostedWhenSaid
          /\ NeverStale /\ AnsweredAfter
  OBVIOUS
<1> USE DEF Using, Busy
<1>1. ASSUME NEW r \in Requests, Arrive(r) PROVE QuietInv'
  BY <1>1, <1>inv, GotoSteps DEF Arrive, OneUser, RowHasUser, SettledWhenDone,
     PostedWhenSaid, NeverStale, AnsweredAfter, TypeOK
<1>2. ASSUME NEW r \in Requests, ClaimRead(r) PROVE QuietInv'
  <2> DEFINE row == keyRow[request[r].key]
  <2>1. /\ request[r].step = "claim" /\ request'[r].step = "decide"
        /\ request'[r].saw = Verdict(row)
        /\ \A q \in Requests : request'[q].key = request[q].key
        /\ \A q \in Requests \ {r} : request'[q] = request[q]
        /\ UNCHANGED <<keyRow, posted>>
    BY <1>2 DEF ClaimRead, TypeOK, Request
  <2>2. request[r].key \in Keys
    BY DEF TypeOK, Request
  <2>3. /\ Verdict(row) # "stale"
        /\ Verdict(row) = "settled" => row.result # NoResult
    BY <1>inv, <2>2 DEF Verdict, NeverStale
  <2>4. QED
    BY <1>inv, <2>1, <2>2, <2>3 DEF OneUser, RowHasUser, SettledWhenDone,
       PostedWhenSaid, NeverStale, AnsweredAfter
<1>3. ASSUME NEW r \in Requests, ClaimAnswered(r) \/ ClaimBusy(r) PROVE QuietInv'
  BY <1>3, <1>inv, GotoSteps DEF ClaimAnswered, ClaimBusy, OneUser, RowHasUser,
     SettledWhenDone, PostedWhenSaid, NeverStale, AnsweredAfter, TypeOK
<1>4. ASSUME NEW r \in Requests, ClaimInsert(r) PROVE QuietInv'
  <2> DEFINE k == request[r].key
  <2>1. k \in Keys /\ request[r].step = "decide" /\ request[r].saw = "absent"
    BY <1>4 DEF ClaimInsert, TypeOK, Request
  <2>2. CASE keyRow[k].there
    BY <1>4, <1>inv, <2>1, <2>2, GotoSteps DEF ClaimInsert, OneUser, RowHasUser,
       SettledWhenDone, PostedWhenSaid, NeverStale, AnsweredAfter, TypeOK
  <2>3. CASE ~keyRow[k].there
    <3>1. Goto(r, "posting") /\ UNCHANGED posted
          /\ keyRow' = [keyRow EXCEPT ![k] = FreshRow]
      BY <1>4, <2>3 DEF ClaimInsert
    <3>2. \A q \in Requests : ~Using(q, k)
      BY <1>inv, <2>1, <2>3 DEF RowHasUser
    <3>3. /\ keyRow'[k] = FreshRow
          /\ \A j \in Keys \ {k} : keyRow'[j] = keyRow[j]
      BY <2>1, <3>1 DEF TypeOK
    <3>4. /\ request'[r].step = "posting" /\ request'[r].saw = request[r].saw
          /\ \A q \in Requests : request'[q].key = request[q].key
          /\ \A q \in Requests \ {r} : request'[q] = request[q]
      BY <3>1, GotoSteps
    <3>5. OneUser'
      BY <1>inv, <2>1, <3>2, <3>4 DEF OneUser
    <3>6. RowHasUser'
      BY <1>inv, <2>1, <3>2, <3>3, <3>4 DEF RowHasUser, FreshRow
    <3>7. SettledWhenDone'
      BY <1>inv, <2>1, <3>2, <3>3, <3>4 DEF SettledWhenDone, FreshRow
    <3>8. PostedWhenSaid' /\ NeverStale' /\ AnsweredAfter'
      BY <1>inv, <2>1, <3>1, <3>3, <3>4
         DEF PostedWhenSaid, NeverStale, AnsweredAfter, FreshRow
    <3>9. QED
      BY <3>5, <3>6, <3>7, <3>8
  <2>4. QED
    BY <2>2, <2>3
<1>5. ASSUME NEW r \in Requests, Post(r) \/ PostRaised(r) PROVE QuietInv'
  BY <1>5, <1>inv, GotoSteps DEF Post, PostRaised, OneUser, RowHasUser,
     SettledWhenDone, PostedWhenSaid, NeverStale, AnsweredAfter, TypeOK
<1>6. ASSUME NEW r \in Requests, Release(r) PROVE QuietInv'
  <2> DEFINE k == request[r].key
  <2>1. k \in Keys /\ request[r].step = "failed" /\ Using(r, k)
    BY <1>6 DEF Release, TypeOK, Request
  <2>2. Pending(k)
    BY <1>inv, <2>1 DEF RowHasUser, SettledWhenDone, OneUser, Pending
  <2>3. Goto(r, "refused") /\ UNCHANGED posted
        /\ keyRow' = [keyRow EXCEPT ![k] = NoRow]
    BY <1>6, <2>2 DEF Release, DropClaim
  <2>4. /\ keyRow'[k] = NoRow
        /\ \A j \in Keys \ {k} : keyRow'[j] = keyRow[j]
    BY <2>1, <2>3 DEF TypeOK
  <2>5. /\ request'[r].step = "refused" /\ request'[r].saw = request[r].saw
        /\ \A q \in Requests : request'[q].key = request[q].key
        /\ \A q \in Requests \ {r} : request'[q] = request[q]
    BY <2>3, GotoSteps
  <2>6. \A q \in Requests : ~Using(q, k)'
    BY <1>inv, <2>1, <2>5 DEF OneUser
  <2>7. OneUser' /\ RowHasUser' /\ SettledWhenDone'
    BY <1>inv, <2>1, <2>4, <2>5, <2>6
       DEF OneUser, RowHasUser, SettledWhenDone, NoRow
  <2>8. PostedWhenSaid' /\ NeverStale' /\ AnsweredAfter'
    BY <1>inv, <2>1, <2>3, <2>4, <2>5
       DEF PostedWhenSaid, NeverStale, AnsweredAfter, NoRow
  <2>9. QED
    BY <2>7, <2>8
<1>7. ASSUME NEW r \in Requests, Settle(r) PROVE QuietInv'
  <2> DEFINE k == request[r].key
  <2>1. k \in Keys /\ request[r].step = "posted" /\ Using(r, k) /\ keyRow[k].there
    BY <1>7, <1>inv DEF Settle, TypeOK, Request, RowHasUser
  <2>2. /\ keyRow'[k].there /\ keyRow'[k].result = r
        /\ keyRow'[k].old = keyRow[k].old
        /\ \A j \in Keys \ {k} : keyRow'[j] = keyRow[j]
        /\ UNCHANGED posted
    BY <1>7, <2>1 DEF Settle, StoreAnswer, TypeOK, Row
  <2>3. /\ request'[r].step = "done" /\ request'[r].saw = request[r].saw
        /\ \A q \in Requests : request'[q].key = request[q].key
        /\ \A q \in Requests \ {r} : request'[q] = request[q]
    BY <1>7 DEF Settle, AnswerOwn, TypeOK, Request
  <2>4. r # NoResult
    BY NoResultIsNoRequest
  <2>5. OneUser' /\ RowHasUser' /\ SettledWhenDone'
    BY <1>inv, <2>1, <2>2, <2>3, <2>4 DEF OneUser, RowHasUser, SettledWhenDone
  <2>6. PostedWhenSaid' /\ NeverStale' /\ AnsweredAfter'
    BY <1>inv, <2>1, <2>2, <2>3 DEF PostedWhenSaid, NeverStale, AnsweredAfter
  <2>7. QED
    BY <2>5, <2>6
<1>8. ASSUME NEW k \in Keys, Age(k) PROVE FALSE
  BY <1>8, <1>inv DEF Age, Pending, RowHasUser, SettledWhenDone
<1>9. ASSUME NEW r \in Requests, ClaimTakeover(r) \/ Failure(r) PROVE FALSE
  BY <1>9, <1>inv DEF ClaimTakeover, Failure, ClaimError, PostAnswerLost,
     SettleLost, Crash, NeverStale
<1>10. CASE UNCHANGED vars
  BY <1>10, <1>inv DEF vars, OneUser, RowHasUser, SettledWhenDone,
     PostedWhenSaid, NeverStale, AnsweredAfter
<1>11. QED
  BY <1>1, <1>2, <1>3, <1>4, <1>5, <1>6, <1>7, <1>8, <1>9, <1>10
     DEF Next, Handler

(* So they are paired in every reachable state.                            *)
LEMMA QuietHolds == ASSUME Failures = {} PROVE Spec => []QuietInv
<1>1. Init => QuietInv
  BY QuietInit
<1>2. TypeOK /\ QuietInv /\ [Next]_vars => QuietInv'
  BY QuietStep
<1>3. QED
  BY <1>1, <1>2, TypeCorrect, PTL DEF Spec

-----------------------------------------------------------------------------
(* A request about to post finds its key without a posting.                *)
LEMMA TimesBefore ==
  ASSUME TypeOK, QuietInv, NEW r \in Requests, request[r].step = "posting"
  PROVE  Postings(request[r].key) = {}
BY DEF TypeOK, QuietInv, OneUser, PostedWhenSaid, Using, Busy, Postings

(* Once it has posted, its posting is the only one of the key.             *)
LEMMA TimesAfter ==
  ASSUME TypeOK, QuietInv, NEW r \in Requests,
         request[r].step \in {"posted", "done"}
  PROVE  Cardinality(Postings(request[r].key)) = 1
<1>1. Postings(request[r].key) = {r}
  BY DEF TypeOK, QuietInv, OneUser, PostedWhenSaid, Using, Busy, Postings
<1>2. QED
  BY <1>1, FS_Singleton

(* A step that posts nothing and tells nobody is a stutter.                *)
LEMMA Invisible ==
  ASSUME posted' = posted,
         \A q \in Requests : request'[q].key = request[q].key,
         \A q \in Requests : request'[q].step \in {"answered", "done"}
                                <=> request[q].step \in {"answered", "done"},
         TypeOK
  PROVE  UNCHANGED <<Times, Told>>
<1>1. \A k \in Keys : Postings(k)' = Postings(k)
  BY DEF Postings, TypeOK
<1>2. Times' = Times
  BY <1>1 DEF Times
<1>3. Told' = Told
  BY DEF Told
<1>4. QED
  BY <1>2, <1>3

(* The posting of a request is the one of its press.                       *)
LEMMA PostIsDo ==
  ASSUME TypeOK, QuietInv, NEW r \in Requests, Post(r)
  PROVE  Promise!Do(request[r].key)
<1> DEFINE k == request[r].key
<1>1. k \in Keys
  BY DEF TypeOK, Request
<1>2. posted' = posted \cup {r} /\ request[r].step = "posting"
      /\ Goto(r, "posted")
  BY DEF Post
<1>3. Postings(k) = {} /\ Times[k] = 0
  BY <1>1, <1>2, TimesBefore, FS_EmptySet DEF Times
<1>4. \A q \in Requests : request'[q].key = request[q].key
  BY <1>2, GotoSteps
<1>5. Postings(k)' = {r}
  BY <1>2, <1>3, <1>4 DEF Postings, TypeOK
<1>6. \A j \in Keys \ {k} : Postings(j)' = Postings(j)
  BY <1>2, <1>4 DEF Postings, TypeOK
<1>7. Cardinality({r}) = 1
  BY FS_Singleton
<1>8. Times' = [Times EXCEPT ![k] = 1]
  <2>1. ASSUME NEW j \in Keys
        PROVE  Cardinality(Postings(j))' = [Times EXCEPT ![k] = 1][j]
    <3>1. CASE j = k
      <4>1. Postings(j)' = {r}
        BY <1>4, <1>5, <3>1 DEF Postings
      <4>2. QED
        BY <1>1, <1>7, <3>1, <4>1 DEF Times
    <3>2. CASE j # k
      BY <1>6, <3>2 DEF Times
    <3>3. QED
      BY <3>1, <3>2
  <2>2. QED
    BY <2>1 DEF Times
<1>9. Told' = Told
  BY <1>2, GotoSteps DEF Told
<1>10. QED
  BY <1>3, <1>8, <1>9 DEF Promise!Do

(* Whoever is told of success is told after the posting.                   *)
LEMMA AnswerIsTell ==
  ASSUME TypeOK, QuietInv, NEW r \in Requests, ClaimAnswered(r) \/ Settle(r)
  PROVE  Promise!Tell(request[r].key, r)
<1> DEFINE k == request[r].key
<1>1. k \in Keys
  BY DEF TypeOK, Request
<1>2. Times[k] = 1
  <2>1. CASE Settle(r)
    BY <1>1, <2>1, TimesAfter DEF Settle, Times
  <2>2. CASE ClaimAnswered(r)
    <3>1. PICK q \in Requests : request[q].key = k /\ request[q].step = "done"
      BY <2>2 DEF ClaimAnswered, QuietInv, AnsweredAfter
    <3>2. QED
      BY <1>1, <3>1, TimesAfter DEF Times
  <2>3. QED
    BY <2>1, <2>2
<1>3. /\ request'[r].step \in {"answered", "done"}
      /\ \A q \in Requests : request'[q].key = request[q].key
      /\ \A q \in Requests \ {r} : request'[q] = request[q]
      /\ posted' = posted
  <2>1. CASE Settle(r)
    BY <2>1 DEF Settle, AnswerOwn, TypeOK, Request
  <2>2. CASE ClaimAnswered(r)
    BY <2>2, GotoSteps DEF ClaimAnswered
  <2>3. QED
    BY <2>1, <2>2
<1>4. \A j \in Keys : Postings(j)' = Postings(j)
  BY <1>3 DEF Postings, TypeOK
<1>5. Times' = Times
  BY <1>4 DEF Times
<1>6. Told' = Told \cup {<<k, r>>}
  BY <1>3 DEF Told
<1>7. QED
  BY <1>2, <1>5, <1>6 DEF Promise!Tell

(* With no failures the layer keeps the promise of its header: one posting *)
(* per press, and success told only after it.                              *)
THEOREM PromiseKept == ASSUME Failures = {} PROVE Spec => KeepsPromise
<1>1. Init => Promise!Init
  <2> SUFFICES ASSUME Init PROVE Promise!Init
    OBVIOUS
  <2>1. \A k \in Keys : Cardinality(Postings(k)) = 0
    BY FS_EmptySet DEF Init, Postings
  <2>2. Told = {}
    BY DEF Init, Told
  <2>3. QED
    BY <2>1, <2>2 DEF Times, Promise!Init
<1>2. TypeOK /\ QuietInv /\ [Next]_vars => [Promise!Next]_<<Times, Told>>
  <2> SUFFICES ASSUME TypeOK, QuietInv, [Next]_vars
               PROVE  Promise!Next \/ UNCHANGED <<Times, Told>>
    OBVIOUS
  <2>1. ASSUME NEW r \in Requests,
               Post(r) \/ ClaimAnswered(r) \/ Settle(r)
        PROVE  Promise!Next
    <3>1. request[r].key \in Keys
      BY DEF TypeOK, Request
    <3>2. QED
      BY <2>1, <3>1, PostIsDo, AnswerIsTell DEF Promise!Next
  <2>2. ASSUME NEW r \in Requests,
               \/ Arrive(r) \/ ClaimRead(r) \/ ClaimBusy(r) \/ ClaimInsert(r)
               \/ PostRaised(r) \/ Release(r)
        PROVE  UNCHANGED <<Times, Told>>
    <3>1. /\ posted' = posted
          /\ \A q \in Requests : request'[q].key = request[q].key
          /\ \A q \in Requests \ {r} : request'[q] = request[q]
          /\ request[r].step \notin {"answered", "done"}
          /\ request'[r].step \notin {"answered", "done"}
      <4>1. CASE ClaimRead(r)
        BY <4>1 DEF ClaimRead, TypeOK, Request
      <4>2. CASE ~ClaimRead(r)
        BY <2>2, <4>2, GotoSteps DEF Arrive, ClaimBusy, ClaimInsert,
           PostRaised, Release
      <4>3. QED
        BY <4>1, <4>2
    <3>2. QED
      BY <3>1, Invisible
  <2>3. ASSUME NEW k \in Keys, Age(k) PROVE FALSE
    BY <2>3 DEF Age, Pending, QuietInv, RowHasUser, SettledWhenDone, Using, Busy
  <2>4. ASSUME NEW r \in Requests, ClaimTakeover(r) \/ Failure(r) PROVE FALSE
    BY <2>4 DEF QuietInv, ClaimTakeover, Failure, ClaimError, PostAnswerLost,
       SettleLost, Crash, NeverStale
  <2>5. CASE UNCHANGED vars
    BY <2>5, Invisible DEF vars
  <2>6. QED
    BY <2>1, <2>2, <2>3, <2>4, <2>5 DEF Next, Handler
<1>3. QED
  BY <1>1, <1>2, TypeCorrect, QuietHolds, PTL DEF Spec, KeepsPromise, Promise!Spec
=============================================================================
