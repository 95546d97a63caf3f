------------------------ MODULE ShipmentTasksProofs ------------------------
(***************************************************************************)
(* Theorems about shipment tasks, for any number of tasks, sizes and       *)
(* overlapping requests, except CardCorrect and ReserveCorrect, which are  *)
(* about one request at a time.  What holds of the reserve when requests   *)
(* overlap is ReservedByRaceCorrect, at the end.                           *)
(***************************************************************************)
EXTENDS ShipmentTasks, Sums

-----------------------------------------------------------------------------
(* Types.                                                                  *)

(* The requests work on tasks: every step but the first ones of a creation *)
(* knows its document.                                                     *)
Placed ==
    \A r \in Requests :
        request[r].step \notin {"idle", "newReserve", "newDoc"}
            => request[r].task \in Tasks

TypeInv == TypeOK /\ Placed

(* A request that ends or moves on stays well typed.                       *)
LEMMA FinishTyped ==
  ASSUME TypeInv, NEW r \in Requests, Finish(r)
  PROVE  request' \in [Requests -> Request] /\ Placed'
<1>1. Idle \in Request
  BY MaxQtyIsNat DEF Idle, Request, Steps, Nothing, Quantities
<1>2. request' \in [Requests -> Request]
  BY <1>1 DEF TypeInv, TypeOK, Finish
<1>3. Placed'
  BY DEF TypeInv, TypeOK, Placed, Finish, Idle
<1>4. QED
  BY <1>2, <1>3

LEMMA GotoTyped ==
  ASSUME TypeInv, NEW r \in Requests, NEW step \in Steps, Goto(r, step),
         request[r].task \in Tasks
  PROVE  request' \in [Requests -> Request] /\ Placed'
<1>1. request' \in [Requests -> Request]
  BY DEF TypeInv, TypeOK, Goto, Request
<1>2. Placed'
  BY DEF TypeInv, TypeOK, Placed, Goto, Request
<1>3. QED
  BY <1>1, <1>2

LEMMA OpenTyped ==
  ASSUME TypeInv, NEW r \in Requests, NEW step \in Steps, NEW t \in Tasks,
         Open(r, step, t)
  PROVE  request' \in [Requests -> Request] /\ Placed'
<1>1. Nothing \in Quantities /\ Nothing \in [Variants -> Int]
  BY MaxQtyIsNat DEF Nothing, Quantities
<1>2. request' \in [Requests -> Request]
  BY <1>1 DEF TypeInv, TypeOK, Open, Request
<1>3. Placed'
  BY DEF TypeInv, TypeOK, Placed, Open
<1>4. QED
  BY <1>2, <1>3

LEMMA ReadStockTyped ==
  ASSUME TypeInv, NEW r \in Requests, NEW step \in Steps, ReadStock(r, step),
         step = "newReserve" \/ request[r].task \in Tasks
  PROVE  request' \in [Requests -> Request] /\ Placed'
<1>1. stock \in [Variants -> Int]
  BY DEF TypeInv, TypeOK
<1>2. request' \in [Requests -> Request]
  BY <1>1 DEF TypeInv, TypeOK, ReadStock, Request
<1>3. Placed'
  BY DEF TypeInv, TypeOK, Placed, ReadStock, Request
<1>4. QED
  BY <1>2, <1>3

LEMMA CheckTyped ==
  ASSUME TypeInv, NEW r \in Requests, NEW step \in Steps, Check(r, step),
         step = "newDoc" \/ request[r].task \in Tasks
  PROVE  request' \in [Requests -> Request] /\ Placed'
<1>0. Nothing \in [Variants -> Int]
  BY DEF Nothing
<1>1. PICK want \in Quantities : request' = [request EXCEPT ![r] =
               [step |-> step, task |-> @.task, want |-> want,
                seen |-> @.seen, free |-> Nothing]]
  BY DEF Check
<1>2. request' \in [Requests -> Request]
  BY <1>0, <1>1 DEF TypeInv, TypeOK, Request
<1>3. Placed'
  BY <1>1 DEF TypeInv, TypeOK, Placed, Request
<1>4. QED
  BY <1>2, <1>3

LEMMA InsertTyped ==
  ASSUME TypeOK, NEW t \in Tasks, NEW new \in Quantities, InsertLines(t, new)
  PROVE  plan' \in [Tasks -> Quantities]
<1>1. [v \in Variants |-> IF new[v] > 0 THEN new[v] ELSE plan[t][v]] \in Quantities
  BY DEF TypeOK, Quantities
<1>2. QED
  BY <1>1 DEF TypeOK, InsertLines

(* Every document, line, move and request keeps its type; in particular no *)
(* shipment of a task takes a size below zero.                             *)
LEMMA TypeStep ==
  ASSUME TypeInv, [Next]_vars
  PROVE  TypeInv'
<1> USE DEF docs
<1>0. Nothing \in Quantities /\ Unshipped \in [Variants -> NotYet..MaxQty]
  BY MaxQtyIsNat DEF Nothing, Quantities, Unshipped, NotYet
<1>g. Raised \subseteq Requests /\ Lowered \subseteq Requests
  BY DEF Raised, Lowered
<1>1. ASSUME NEW r \in Requests, Create(r) PROVE TypeInv'
  <2>1. CASE CreateStock(r)
    <3>1. request' \in [Requests -> Request] /\ Placed'
      BY <2>1, ReadStockTyped DEF CreateStock, Steps
    <3>2. QED
      BY <2>1, <3>1 DEF CreateStock, TypeInv, TypeOK
  <2>2. CASE CreateCheck(r)
    <3>1. request' \in [Requests -> Request] /\ Placed'
      BY <2>2, CheckTyped DEF CreateCheck, Steps
    <3>2. QED
      BY <2>2, <3>1 DEF CreateCheck, TypeInv, TypeOK
  <2>3. CASE CreateLines(r)
    <3>1. request[r].task \in Tasks /\ request[r].want \in Quantities
      BY <2>3 DEF CreateLines, At, TypeInv, TypeOK, Placed, Request
    <3>2. request' \in [Requests -> Request] /\ Placed'
      BY <2>3, <3>1, FinishTyped, GotoTyped DEF CreateLines, Steps
    <3>3. plan' \in [Tasks -> Quantities]
      BY <2>3, <3>1, InsertTyped DEF CreateLines, TypeInv
    <3>4. QED
      BY <1>g, <2>3, <3>2, <3>3 DEF CreateLines, TypeInv, TypeOK
  <2>4. CASE CreateUndo(r)
    <3>1. request[r].task \in Tasks
      BY <2>4 DEF CreateUndo, At, TypeInv, TypeOK, Placed
    <3>2. request' \in [Requests -> Request] /\ Placed'
      BY <2>4, FinishTyped DEF CreateUndo
    <3>3. /\ plan' \in [Tasks -> Quantities]
          /\ shipped' \in [Tasks -> [Variants -> NotYet..MaxQty]]
          /\ status' \in [Tasks -> Statuses]
      BY <2>4, <3>1, <1>0 DEF CreateUndo, TypeInv, TypeOK, Statuses
    <3>4. QED
      BY <2>4, <3>2, <3>3 DEF CreateUndo, TypeInv, TypeOK
  <2>5. ASSUME NEW t \in Tasks, CreateDoc(r, t) PROVE TypeInv'
    <3>1. request' \in [Requests -> Request]
      BY <2>5 DEF CreateDoc, TypeInv, TypeOK, Request, Steps
    <3>2. Placed'
      BY <2>5 DEF CreateDoc, TypeInv, TypeOK, Placed
    <3>3. status' \in [Tasks -> Statuses]
      BY <2>5 DEF CreateDoc, TypeInv, TypeOK, Statuses
    <3>4. QED
      BY <2>5, <3>1, <3>2, <3>3 DEF CreateDoc, TypeInv, TypeOK
  <2>6. QED
    BY <1>1, <2>1, <2>2, <2>3, <2>4, <2>5 DEF Create
<1>2. ASSUME NEW r \in Requests, Edit(r) PROVE TypeInv'
  <2>0. request[r] \in Request
    BY DEF TypeInv, TypeOK
  <2>1. CASE EditLoad(r)
    <3>0. request[r].task \in Tasks
      BY <2>1 DEF EditLoad, At, TypeInv, Placed
    <3>1. plan[request[r].task] \in Quantities
      BY <3>0 DEF TypeInv, TypeOK
    <3>2. request' \in [Requests -> Request]
      BY <2>1, <3>1 DEF EditLoad, TypeInv, TypeOK, Request, Steps
    <3>3. Placed'
      BY <2>1, <3>0 DEF EditLoad, TypeInv, TypeOK, Placed
    <3>4. QED
      BY <2>1, <3>2, <3>3 DEF EditLoad, TypeInv, TypeOK
  <2>2. CASE EditStock(r)
    <3>0. request[r].task \in Tasks
      BY <2>2 DEF EditStock, At, TypeInv, Placed
    <3>1. request' \in [Requests -> Request] /\ Placed'
      BY <2>2, <3>0, ReadStockTyped DEF EditStock, Steps
    <3>2. QED
      BY <2>2, <3>1 DEF EditStock, TypeInv, TypeOK
  <2>3. CASE EditCheck(r)
    <3>0. request[r].task \in Tasks
      BY <2>3 DEF EditCheck, At, TypeInv, Placed
    <3>1. request' \in [Requests -> Request] /\ Placed'
      BY <2>3, <3>0, CheckTyped DEF EditCheck, Steps
    <3>2. QED
      BY <2>3, <3>1 DEF EditCheck, TypeInv, TypeOK
  <2>4. CASE EditDelete(r)
    <3>0. request[r].task \in Tasks
      BY <2>4 DEF EditDelete, At, TypeInv, Placed
    <3> DEFINE t == request[r].task
               out == {v \in Variants : request[r].seen[v] > 0 /\ request[r].want[v] = 0}
    <3>1. request' \in [Requests -> Request] /\ Placed'
      BY <2>4, <3>0, GotoTyped DEF EditDelete, Steps
    <3>2. [v \in Variants |-> IF v \in out THEN 0 ELSE plan[t][v]] \in Quantities
      <4>1. plan[t] \in Quantities
        BY <3>0 DEF TypeInv, TypeOK
      <4>2. QED
        BY <4>1, MaxQtyIsNat DEF Quantities
    <3>3. [v \in Variants |-> IF v \in out THEN NotYet ELSE shipped[t][v]]
             \in [Variants -> NotYet..MaxQty]
      <4>1. shipped[t] \in [Variants -> NotYet..MaxQty]
        BY <3>0 DEF TypeInv, TypeOK
      <4>2. QED
        BY <4>1, MaxQtyIsNat DEF NotYet
    <3>4. plan' \in [Tasks -> Quantities]
      BY <2>4, <3>2 DEF EditDelete, TypeInv, TypeOK
    <3>5. shipped' \in [Tasks -> [Variants -> NotYet..MaxQty]]
      BY <2>4, <3>3 DEF EditDelete, TypeInv, TypeOK
    <3>6. QED
      BY <2>4, <3>1, <3>4, <3>5 DEF EditDelete, TypeInv, TypeOK
  <2>5. CASE EditInsert(r)
    <3>0. request[r].task \in Tasks
      BY <2>5 DEF EditInsert, At, TypeInv, Placed
    <3> DEFINE new == [v \in Variants |-> IF request[r].seen[v] = 0
                                          THEN request[r].want[v] ELSE 0]
    <3>1. request' \in [Requests -> Request] /\ Placed'
      BY <2>5, FinishTyped DEF EditInsert
    <3>2. new \in Quantities
      BY <2>0, MaxQtyIsNat DEF Quantities, Request
    <3>3. plan' \in [Tasks -> Quantities]
      <4>1. CASE new = Nothing
        BY <2>5, <4>1 DEF EditInsert, TypeInv, TypeOK
      <4>2. CASE InsertLines(request[r].task, new)
        BY <4>2, <3>0, <3>2, InsertTyped DEF TypeInv
      <4>3. QED
        BY <2>5, <4>1, <4>2 DEF EditInsert
    <3>4. QED
      BY <1>g, <2>5, <3>1, <3>3 DEF EditInsert, TypeInv, TypeOK
  <2>6. ASSUME NEW v \in Variants, EditUpdate(r, v) PROVE TypeInv'
    <3>0. request[r].task \in Tasks
      BY <2>6 DEF EditUpdate, At, TypeInv, Placed
    <3> DEFINE t == request[r].task
               old == request[r].seen
               line == [w \in Variants |-> IF w = v THEN request[r].want[v]
                                           ELSE plan[t][w]]
               seen == [w \in Variants |-> IF w = v THEN request[r].want[v]
                                           ELSE old[w]]
    <3>1. line \in Quantities
      BY <2>0, <3>0 DEF TypeInv, TypeOK, Quantities, Request
    <3>2. seen \in Quantities
      BY <2>0 DEF Quantities, Request
    <3>3. plan' \in [Tasks -> Quantities]
      BY <2>6, <3>1 DEF EditUpdate, TypeInv, TypeOK
    <3>4. request' \in [Requests -> Request]
      <4>1. request' = [request EXCEPT ![r] =
               [step |-> "editUpdate", task |-> @.task, want |-> @.want,
                seen |-> seen, free |-> @.free]]
        BY <2>6 DEF EditUpdate
      <4> HIDE DEF seen
      <4>2. QED
        BY <4>1, <3>2 DEF TypeInv, TypeOK, Request, Steps
    <3>5. Placed'
      BY <2>6, <3>0 DEF EditUpdate, TypeInv, TypeOK, Placed
    <3>6. QED
      BY <1>g, <2>6, <3>3, <3>4, <3>5 DEF EditUpdate, TypeInv, TypeOK
  <2>7. ASSUME NEW t \in Tasks, EditClaim(r, t) PROVE TypeInv'
    <3>1. request' \in [Requests -> Request] /\ Placed'
      BY <2>7, OpenTyped DEF EditClaim, Steps
    <3>2. QED
      BY <2>7, <3>1 DEF EditClaim, TypeInv, TypeOK
  <2>8. QED
    BY <1>2, <2>1, <2>2, <2>3, <2>4, <2>5, <2>6, <2>7 DEF Edit
<1>3. ASSUME NEW r \in Requests, Cancel(r) PROVE TypeInv'
  <2>1. CASE CancelWrite(r)
    <3>1. request' \in [Requests -> Request] /\ Placed'
      BY <2>1, FinishTyped DEF CancelWrite
    <3>2. status' \in [Tasks -> Statuses]
      BY <2>1 DEF CancelWrite, TypeInv, TypeOK, Statuses
    <3>3. QED
      BY <2>1, <3>1, <3>2 DEF CancelWrite, TypeInv, TypeOK
  <2>2. ASSUME NEW t \in Tasks, CancelRead(r, t) PROVE TypeInv'
    <3>1. request' \in [Requests -> Request] /\ Placed'
      BY <2>2, OpenTyped DEF CancelRead, Steps
    <3>2. QED
      BY <2>2, <3>1 DEF CancelRead, TypeInv, TypeOK
  <2>3. QED
    BY <1>3, <2>1, <2>2 DEF Cancel
<1>4. ASSUME NEW r \in Requests, Ship(r) PROVE TypeInv'
  <2>1. CASE ShipLock(r)
    <3>0. request[r].task \in Tasks
      BY <2>1 DEF ShipLock, At, TypeInv, Placed
    <3>1. plan[request[r].task] \in Quantities
      BY <3>0 DEF TypeInv, TypeOK
    <3>2. request' \in [Requests -> Request]
      BY <2>1, <3>0, <3>1 DEF ShipLock, TypeInv, TypeOK, Request, Steps
    <3>3. Placed'
      BY <2>1, <3>0 DEF ShipLock, TypeInv, TypeOK, Placed
    <3>4. QED
      BY <2>1, <3>2, <3>3 DEF ShipLock, TypeInv, TypeOK
  <2>2. CASE ShipPost(r)
    <3>0. request[r].task \in Tasks
      BY <2>2 DEF ShipPost, At, TypeInv, Placed
    <3> DEFINE t == request[r].task
               seen == request[r].seen
               asked == {v \in Variants : seen[v] > 0}
               Qty(over) == [v \in Variants |->
                   IF v \in asked THEN Actual(seen[v], over[v]) ELSE 0]
    <3>1. PICK over \in [Variants -> AsPlanned..MaxQty] :
             /\ \A v \in asked : WithinPlan(Qty(over)[v], seen[v])
                                   /\ InStock(v, Qty(over)[v])
             /\ stock' = [v \in Variants |-> stock[v] - Qty(over)[v]]
             /\ moved' = [moved EXCEPT ![t] =
                    [v \in Variants |-> moved[t][v] + Qty(over)[v]]]
             /\ shipped' = [shipped EXCEPT ![t] =
                    [v \in Variants |-> IF v \in asked /\ plan[t][v] > 0
                                        THEN Told(seen[v], over[v])
                                        ELSE shipped[t][v]]]
      BY <2>2 DEF ShipPost
    <3>2. seen \in Quantities
      BY DEF TypeInv, TypeOK, Request
    <3>3. Qty(over) \in [Variants -> 0..MaxQty]
      BY <3>2, MaxQtyIsNat DEF Actual, AsPlanned, Quantities
    <3>4. stock' \in [Variants -> Nat]
      <4>1. \A v \in Variants : Qty(over)[v] <= stock[v]
        <5>1. ASSUME NEW v \in Variants, v \notin asked
              PROVE  Qty(over)[v] <= stock[v]
          BY <5>1 DEF TypeInv, TypeOK
        <5>2. ASSUME NEW v \in asked PROVE Qty(over)[v] <= stock[v]
          BY <3>1 DEF InStock
        <5>3. QED
          BY <5>1, <5>2
      <4> HIDE DEF Qty
      <4>2. QED
        BY <3>1, <3>3, <4>1 DEF TypeInv, TypeOK
    <3>5. moved' \in [Tasks -> [Variants -> Nat]]
      <4> HIDE DEF Qty
      <4>1. [v \in Variants |-> moved[t][v] + Qty(over)[v]] \in [Variants -> Nat]
        BY <3>0, <3>3 DEF TypeInv, TypeOK
      <4>2. QED
        BY <3>1, <4>1 DEF TypeInv, TypeOK
    <3>6. shipped' \in [Tasks -> [Variants -> NotYet..MaxQty]]
      <4>1. [v \in Variants |-> IF v \in asked /\ plan[t][v] > 0
                                THEN Told(seen[v], over[v])
                                ELSE shipped[t][v]]
               \in [Variants -> NotYet..MaxQty]
        BY <3>0, <3>2, MaxQtyIsNat
           DEF TypeInv, TypeOK, Told, Actual, AsPlanned, NotYet, Quantities
      <4>2. QED
        BY <3>1, <4>1 DEF TypeInv, TypeOK
    <3>7. request' \in [Requests -> Request] /\ Placed'
      BY <2>2, FinishTyped DEF ShipPost
    <3>8. status' \in [Tasks -> Statuses] /\ UNCHANGED plan
      BY <2>2 DEF ShipPost, TypeInv, TypeOK, Statuses
    <3>9. overtaken' \subseteq Requests
      BY <1>g, <2>2 DEF ShipPost, TypeInv, TypeOK
    <3>10. QED
      BY <3>4, <3>5, <3>6, <3>7, <3>8, <3>9 DEF TypeInv, TypeOK
  <2>3. ASSUME NEW t \in Tasks, ShipRead(r, t) PROVE TypeInv'
    <3>1. request' \in [Requests -> Request] /\ Placed'
      BY <2>3, OpenTyped DEF ShipRead, Steps
    <3>2. QED
      BY <2>3, <3>1 DEF ShipRead, TypeInv, TypeOK
  <2>4. QED
    BY <1>4, <2>1, <2>2, <2>3 DEF Ship
<1>5. ASSUME NEW r \in Requests, GiveUp(r) PROVE TypeInv'
  BY <1>5, FinishTyped DEF GiveUp, TypeInv, TypeOK
<1>6. ASSUME NEW v \in Variants, OtherMove(v) PROVE TypeInv'
  <2>1. stock' \in [Variants -> Nat]
    <3>0. stock[v] \in Nat /\ stock \in [Variants -> Nat]
      BY DEF TypeInv, TypeOK
    <3>1. CASE stock' = [stock EXCEPT ![v] = @ + 1]
      BY <3>0, <3>1
    <3>2. CASE stock[v] > 0 /\ stock' = [stock EXCEPT ![v] = @ - 1]
      BY <3>0, <3>2
    <3>3. QED
      BY <1>6, <3>1, <3>2 DEF OtherMove
  <2>2. QED
    BY <1>g, <1>6, <2>1 DEF OtherMove, TypeInv, TypeOK, Placed
<1>7. CASE UNCHANGED vars
  BY <1>7 DEF vars, TypeInv, TypeOK, Placed
<1>8. QED
  BY <1>1, <1>2, <1>3, <1>4, <1>5, <1>6, <1>7 DEF Next

(* The initial states are well typed.                                      *)
LEMMA InitTyped == Init => TypeInv
<1>1. SUFFICES ASSUME Init PROVE TypeInv
  OBVIOUS
<1>2. Nothing \in Quantities /\ Nothing \in [Variants -> Nat]
      /\ Nothing \in [Variants -> Int]
      /\ Unshipped \in [Variants -> NotYet..MaxQty]
  BY MaxQtyIsNat DEF Nothing, Quantities, Unshipped, NotYet
<1>3. Idle \in Request
  BY <1>2 DEF Idle, Request, Steps
<1>4. stock \in [Variants -> Nat]
  BY <1>1, MaxQtyIsNat DEF Init, Quantities
<1>5. TypeOK
  BY <1>1, <1>2, <1>3, <1>4 DEF Init, TypeOK, Statuses
<1>6. Placed
  BY <1>1 DEF Init, Placed, Idle
<1>7. QED
  BY <1>5, <1>6 DEF TypeInv

(* Every reachable state is well typed; in particular no task, however     *)
(* requests overlap, takes a size below zero.                              *)
THEOREM TypeCorrect == Spec => []TypeOK
<1>1. TypeInv => TypeOK
  BY DEF TypeInv
<1>2. QED
  BY <1>1, InitTyped, TypeStep, PTL DEF Spec

-----------------------------------------------------------------------------
(* Shipping once.                                                          *)

(* A document that is not posted has moved nothing and shows nothing as    *)
(* shipped, and a card shows what was moved.                               *)
Unposted ==
    \A t \in Tasks :
        /\ status[t] \in {"none", "draft", "cancelled"} =>
               moved[t] = Nothing /\ shipped[t] = Unshipped
        /\ \A v \in Variants :
               shipped[t][v] # NotYet => shipped[t][v] = moved[t][v]

(* While a shipment holds the lock of its task, the task is a draft and    *)
(* nobody else is shipping it.  Without this the status checked when the   *)
(* lock was taken would say nothing when the shipment commits.             *)
LockKeepsDraft ==
    /\ \A r \in Requests :
           At(r, "shipping") => status[request[r].task] = "draft"
    /\ \A r, q \in Requests :
           /\ At(r, "shipping") /\ At(q, "shipping")
           /\ request[r].task = request[q].task
           => r = q

ShipInv == TypeInv /\ Unposted /\ LockKeepsDraft

(* Most steps touch no card: they leave every number alone, and change the *)
(* status of no task that is being shipped, and start no shipment.         *)
LEMMA LockKept ==
  ASSUME ShipInv, TypeInv',
         \A q \in Requests : request'[q].step = "shipping" => request'[q] = request[q],
         \A t \in Tasks : status'[t] = status[t] \/ Unlocked(t)
  PROVE  LockKeepsDraft'
<1>1. ASSUME NEW q \in Requests, request'[q].step = "shipping"
      PROVE  status'[request'[q].task] = "draft"
  <2>1. request'[q] = request[q] /\ At(q, "shipping")
    BY <1>1 DEF At
  <2>2. request[q].task \in Tasks
    BY <2>1 DEF ShipInv, TypeInv, Placed, At
  <2>3. ~Unlocked(request[q].task)
    BY <2>1 DEF Unlocked
  <2>4. QED
    BY <2>1, <2>2, <2>3 DEF ShipInv, LockKeepsDraft
<1>2. QED
  BY <1>1 DEF ShipInv, LockKeepsDraft, At

(* A step that leaves the documents' status and numbers alone, and in      *)
(* which one request goes anywhere but into a shipment.                    *)
LEMMA QuietStep ==
  ASSUME ShipInv, TypeInv', UNCHANGED <<status, shipped, moved>>,
         NEW r \in Requests, request'[r].step # "shipping",
         \A q \in Requests \ {r} : request'[q] = request[q]
  PROVE  ShipInv'
<1>1. LockKeepsDraft'
  BY LockKept
<1>2. Unposted'
  BY DEF ShipInv, Unposted
<1>3. QED
  BY <1>1, <1>2 DEF ShipInv

(* Every step keeps the cards true and the locks meaningful.               *)
LEMMA ShipStep ==
  ASSUME ShipInv, [Next]_vars
  PROVE  ShipInv'
<1>0. TypeInv /\ TypeInv'
  BY TypeStep DEF ShipInv
<1>r. request \in [Requests -> Request]
  BY <1>0 DEF TypeInv, TypeOK
<1>u. Unposted /\ LockKeepsDraft
  BY DEF ShipInv
<1> USE DEF docs
<1>1. ASSUME NEW r \in Requests, Create(r) PROVE ShipInv'
  <2>1. CASE CreateStock(r)
    BY <2>1, <1>0, <1>r, QuietStep DEF CreateStock, ReadStock
  <2>2. CASE CreateCheck(r)
    BY <2>2, <1>0, <1>r, QuietStep DEF CreateCheck, Check
  <2>3. CASE CreateLines(r)
    BY <2>3, <1>0, <1>r, QuietStep DEF CreateLines, Finish, Goto, Idle
  <2>4. CASE CreateUndo(r)
    <3>1. request' = [request EXCEPT ![r] = Idle]
      BY <2>4 DEF CreateUndo, Finish
    <3>2. LockKeepsDraft'
      BY <2>4, <3>1, <1>0, <1>r, LockKept DEF CreateUndo, Idle, TypeInv, TypeOK
    <3>3. Unposted'
      BY <2>4, <1>0, <1>u DEF CreateUndo, Unposted, Unshipped, TypeInv, TypeOK
    <3>4. QED
      BY <1>0, <3>2, <3>3 DEF ShipInv
  <2>5. ASSUME NEW t \in Tasks, CreateDoc(r, t) PROVE ShipInv'
    <3>1. Unlocked(t)
      BY <2>5, <1>u DEF CreateDoc, Unlocked, LockKeepsDraft
    <3>2. /\ request'[r].step = "newLines"
          /\ \A q \in Requests \ {r} : request'[q] = request[q]
      BY <2>5, <1>r DEF CreateDoc
    <3>3. \A u \in Tasks : status'[u] = status[u] \/ Unlocked(u)
      BY <2>5, <3>1, <1>0 DEF CreateDoc, TypeInv, TypeOK
    <3>4. LockKeepsDraft'
      BY <3>2, <3>3, <1>0, LockKept
    <3>5. Unposted'
      BY <2>5, <1>0, <1>u DEF CreateDoc, Unposted, TypeInv, TypeOK
    <3>6. QED
      BY <1>0, <3>4, <3>5 DEF ShipInv
  <2>6. QED
    BY <1>1, <2>1, <2>2, <2>3, <2>4, <2>5 DEF Create
<1>2. ASSUME NEW r \in Requests, Edit(r) PROVE ShipInv'
  <2>1. CASE EditLoad(r)
    BY <2>1, <1>0, <1>r, QuietStep DEF EditLoad
  <2>2. CASE EditStock(r)
    BY <2>2, <1>0, <1>r, QuietStep DEF EditStock, ReadStock
  <2>3. CASE EditCheck(r)
    BY <2>3, <1>0, <1>r, QuietStep DEF EditCheck, Check
  <2>4. CASE EditDelete(r)
    <3>0. request[r].task \in Tasks
      BY <2>4, <1>0 DEF EditDelete, At, TypeInv, Placed
    <3>1. /\ request'[r].step = "editUpdate"
          /\ \A q \in Requests \ {r} : request'[q] = request[q]
      BY <2>4, <1>r DEF EditDelete, Goto
    <3>2. UNCHANGED <<status, moved>>
      BY <2>4 DEF EditDelete
    <3>3. LockKeepsDraft'
      BY <3>1, <3>2, <1>0, LockKept
    <3>4. \A t \in Tasks, v \in Variants : shipped'[t][v] \in {shipped[t][v], NotYet}
      BY <2>4, <1>0 DEF EditDelete, TypeInv, TypeOK
    <3>5. \A t \in Tasks : shipped[t] = Unshipped => shipped'[t] = Unshipped
      <4> SUFFICES ASSUME NEW t \in Tasks, shipped[t] = Unshipped
                   PROVE  shipped'[t] = Unshipped
        OBVIOUS
      <4>1. shipped'[t] \in [Variants -> NotYet..MaxQty]
        BY <1>0 DEF TypeInv, TypeOK
      <4>2. \A v \in Variants : shipped'[t][v] = NotYet
        BY <3>4 DEF Unshipped
      <4>3. QED
        BY <4>1, <4>2 DEF Unshipped
    <3>6. Unposted'
      BY <3>2, <3>4, <3>5, <1>u DEF Unposted
    <3>7. QED
      BY <1>0, <3>3, <3>6 DEF ShipInv
  <2>5. CASE EditInsert(r)
    BY <2>5, <1>0, <1>r, QuietStep DEF EditInsert, Finish, Idle
  <2>6. ASSUME NEW v \in Variants, EditUpdate(r, v) PROVE ShipInv'
    BY <2>6, <1>0, <1>r, QuietStep DEF EditUpdate
  <2>7. ASSUME NEW t \in Tasks, EditClaim(r, t) PROVE ShipInv'
    BY <2>7, <1>0, <1>r, QuietStep DEF EditClaim, Open
  <2>8. QED
    BY <1>2, <2>1, <2>2, <2>3, <2>4, <2>5, <2>6, <2>7 DEF Edit
<1>3. ASSUME NEW r \in Requests, Cancel(r) PROVE ShipInv'
  <2>1. CASE CancelWrite(r)
    <3>0. request[r].task \in Tasks
      BY <2>1, <1>0 DEF CancelWrite, At, TypeInv, Placed
    <3>1. request' = [request EXCEPT ![r] = Idle]
      BY <2>1 DEF CancelWrite, Finish
    <3>2. LockKeepsDraft'
      BY <2>1, <3>1, <1>0, <1>r, LockKept DEF CancelWrite, Idle, TypeInv, TypeOK
    <3>3. Unposted'
      BY <2>1, <3>0, <1>0, <1>u
         DEF CancelWrite, StillDraft, Unposted, TypeInv, TypeOK
    <3>4. QED
      BY <1>0, <3>2, <3>3 DEF ShipInv
  <2>2. ASSUME NEW t \in Tasks, CancelRead(r, t) PROVE ShipInv'
    BY <2>2, <1>0, <1>r, QuietStep DEF CancelRead, Open
  <2>3. QED
    BY <1>3, <2>1, <2>2 DEF Cancel
<1>4. ASSUME NEW r \in Requests, Ship(r) PROVE ShipInv'
  <2>1. CASE ShipLock(r)
    <3> DEFINE t == request[r].task
    <3>0. t \in Tasks
      BY <2>1, <1>0 DEF ShipLock, At, TypeInv, Placed
    <3>1. /\ request'[r].task = t
          /\ \A q \in Requests \ {r} : request'[q] = request[q]
      BY <2>1, <1>r DEF ShipLock
    <3>2. UNCHANGED <<status, shipped, moved>> /\ status[t] = "draft"
      BY <2>1 DEF ShipLock, IsDraft
    <3>3. \A q \in Requests : ~(At(q, "shipping") /\ request[q].task = t)
      BY <2>1 DEF ShipLock, Unlocked
    <3>4. LockKeepsDraft'
      BY <3>1, <3>2, <3>3, <1>u DEF LockKeepsDraft, At
    <3>5. Unposted'
      BY <3>2, <1>u DEF Unposted
    <3>6. QED
      BY <1>0, <3>4, <3>5 DEF ShipInv
  <2>2. CASE ShipPost(r)
    <3> DEFINE t == request[r].task
               seen == request[r].seen
               asked == {v \in Variants : seen[v] > 0}
               Qty(over) == [v \in Variants |->
                   IF v \in asked THEN Actual(seen[v], over[v]) ELSE 0]
    <3>0. t \in Tasks /\ At(r, "shipping")
      BY <2>2, <1>0 DEF ShipPost, At, TypeInv, Placed
    <3>1. status[t] = "draft" /\ moved[t] = Nothing /\ shipped[t] = Unshipped
      BY <3>0, <1>u DEF LockKeepsDraft, Unposted
    <3>2. PICK over \in [Variants -> AsPlanned..MaxQty] :
             /\ moved' = [moved EXCEPT ![t] =
                    [v \in Variants |-> moved[t][v] + Qty(over)[v]]]
             /\ shipped' = [shipped EXCEPT ![t] =
                    [v \in Variants |-> IF v \in asked /\ plan[t][v] > 0
                                        THEN Told(seen[v], over[v])
                                        ELSE shipped[t][v]]]
      BY <2>2 DEF ShipPost
    <3>3. status' = [status EXCEPT ![t] = "posted"]
          /\ request' = [request EXCEPT ![r] = Idle]
      BY <2>2 DEF ShipPost, Finish
    <3>4. ASSUME NEW v \in Variants, shipped'[t][v] # NotYet
          PROVE  shipped'[t][v] = moved'[t][v]
      <4>1. shipped'[t][v] = IF v \in asked /\ plan[t][v] > 0
                             THEN Told(seen[v], over[v]) ELSE NotYet
        BY <3>0, <3>1, <3>2, <1>0 DEF TypeInv, TypeOK, Unshipped
      <4>2. v \in asked /\ shipped'[t][v] = Actual(seen[v], over[v])
        BY <3>4, <4>1 DEF Told
      <4>3. moved'[t][v] = moved[t][v] + Actual(seen[v], over[v])
        BY <3>0, <3>2, <4>2, <1>0 DEF TypeInv, TypeOK
      <4>4. seen[v] \in 0..MaxQty /\ over[v] \in AsPlanned..MaxQty
        BY <1>r DEF Request, Quantities
      <4>5. Actual(seen[v], over[v]) \in Int
        BY <4>4, MaxQtyIsNat DEF Actual, AsPlanned
      <4>6. moved[t][v] = 0
        BY <3>1 DEF Nothing
      <4>7. QED
        BY <4>2, <4>3, <4>5, <4>6
    <3>5. ASSUME NEW u \in Tasks, u # t
          PROVE  /\ status'[u] = status[u]
                 /\ moved'[u] = moved[u] /\ shipped'[u] = shipped[u]
      BY <3>2, <3>3, <3>5, <1>0 DEF TypeInv, TypeOK
    <3>6. status'[t] = "posted"
      BY <3>0, <3>3, <1>0 DEF TypeInv, TypeOK
    <3>7. Unposted'
      BY <3>4, <3>5, <3>6, <1>u DEF Unposted
    <3>8. LockKeepsDraft'
      <4>1. \A q \in Requests : request'[q].step = "shipping" =>
                q # r /\ request'[q] = request[q]
        BY <3>3, <1>r DEF Idle
      <4>2. \A q \in Requests : request'[q].step = "shipping" =>
                request[q].task \in Tasks \ {t}
        BY <4>1, <3>0, <1>0, <1>u DEF LockKeepsDraft, At, TypeInv, Placed
      <4>3. QED
        BY <4>1, <4>2, <3>5, <1>u DEF LockKeepsDraft, At
    <3>9. QED
      BY <1>0, <3>7, <3>8 DEF ShipInv
  <2>3. ASSUME NEW t \in Tasks, ShipRead(r, t) PROVE ShipInv'
    BY <2>3, <1>0, <1>r, QuietStep DEF ShipRead, Open
  <2>4. QED
    BY <1>4, <2>1, <2>2, <2>3 DEF Ship
<1>5. ASSUME NEW r \in Requests, GiveUp(r) PROVE ShipInv'
  BY <1>5, <1>0, <1>r, QuietStep DEF GiveUp, Finish, Idle
<1>6. ASSUME NEW v \in Variants, OtherMove(v) PROVE ShipInv'
  BY <1>6, <1>0, <1>u DEF OtherMove, ShipInv, Unposted, LockKeepsDraft, At
<1>7. CASE UNCHANGED vars
  BY <1>7, <1>0, <1>u DEF vars, ShipInv, Unposted, LockKeepsDraft, At
<1>8. QED
  BY <1>1, <1>2, <1>3, <1>4, <1>5, <1>6, <1>7 DEF Next

(* The invariant holds in every behaviour.                                 *)
LEMMA ShipCorrect == Spec => []ShipInv
<1>1. Init => ShipInv
  <2> SUFFICES ASSUME Init PROVE ShipInv
    OBVIOUS
  <2>1. Unposted
    BY MaxQtyIsNat DEF Init, Unposted, Unshipped, NotYet
  <2>2. LockKeepsDraft
    BY DEF Init, LockKeepsDraft, At, Idle
  <2>3. QED
    BY <2>1, <2>2, InitTyped DEF ShipInv
<1>2. QED
  BY <1>1, ShipStep, PTL DEF Spec

(* However requests interleave, a cancelled task has shipped nothing and a *)
(* task that has shipped is no draft: the status looked at under the lock, *)
(* and the condition of the cancelling UPDATE, are enough.                 *)
THEOREM CancelledCorrect == Spec => []CancelledShipsNothing
<1>1. ShipInv => CancelledShipsNothing
  BY DEF ShipInv, Unposted, CancelledShipsNothing
<1>2. QED
  BY <1>1, ShipCorrect, PTL

(* However requests interleave, a shipped quantity a card shows is what    *)
(* the register moved.                                                     *)
THEOREM ShownCorrect == Spec => []ShownIsMoved
<1>1. ShipInv => ShownIsMoved
  BY DEF ShipInv, Unposted, ShownIsMoved
<1>2. QED
  BY <1>1, ShipCorrect, PTL

(* However requests interleave, a task is shipped once.                    *)
THEOREM ShippedOnceCorrect == Spec => ShippedOnce
<1>1. ShipInv /\ [Next]_vars
         => [\A t \in Tasks : moved[t] # Nothing => moved'[t] = moved[t]]_vars
  <2> SUFFICES ASSUME ShipInv, [Next]_vars, NEW t \in Tasks,
                      moved[t] # Nothing
               PROVE  moved'[t] = moved[t]
    OBVIOUS
  <2>1. CASE moved' = moved
    BY <2>1
  <2>2. ASSUME NEW r \in Requests, ShipPost(r) PROVE moved'[t] = moved[t]
    <3>1. status[request[r].task] = "draft" /\ request[r].task \in Tasks
      BY <2>2 DEF ShipPost, ShipInv, LockKeepsDraft, TypeInv, Placed, At
    <3>2. request[r].task # t
      BY <3>1 DEF ShipInv, Unposted
    <3>3. \E f : moved' = [moved EXCEPT ![request[r].task] = f]
      BY <2>2 DEF ShipPost
    <3>4. QED
      BY <3>2, <3>3 DEF ShipInv, TypeInv, TypeOK
  <2>3. moved' = moved \/ \E r \in Requests : ShipPost(r)
    BY DEF Next, vars, docs, Create, CreateStock, CreateCheck, CreateLines,
           CreateUndo, CreateDoc, Edit, EditLoad, EditStock, EditCheck,
           EditDelete, EditInsert, EditUpdate, EditClaim, Cancel, CancelWrite,
           CancelRead, Ship, ShipLock, ShipRead, GiveUp, OtherMove
  <2>4. QED
    BY <2>1, <2>2, <2>3
<1>2. QED
  BY <1>1, ShipCorrect, PTL DEF Spec, ShippedOnce

-----------------------------------------------------------------------------
(* One request at a time: the card of a task and the register.             *)

(* A request that runs alone finds its task a draft until it ends: nobody  *)
(* is there to ship, cancel or delete it.  Without this an edit would      *)
(* change the card of a task that has been shipped, and an undone creation *)
(* delete it.                                                              *)
OwnDraft ==
    \A r \in Requests :
        request[r].step \notin {"idle", "newReserve", "newDoc"}
            => status[request[r].task] = "draft"

(* The lines a shipment has read are still the lines of its task.          *)
SeesPlan ==
    \A r \in Requests :
        At(r, "shipping") => request[r].seen = plan[request[r].task]

CardInv == ShipInv /\ OwnDraft /\ SeesPlan /\ CardMatchesRegister

(* A step that leaves all documents alone.                                 *)
LEMMA DocsAlone ==
  ASSUME UNCHANGED docs, CardMatchesRegister
  PROVE  CardMatchesRegister'
BY DEF docs, CardMatchesRegister, Lines

(* A step that changes only a document that is posted neither before nor   *)
(* after it, and moves nothing.                                            *)
LEMMA UnpostedChange ==
  ASSUME CardMatchesRegister, moved' = moved, NEW t \in Tasks,
         status[t] # "posted", status'[t] # "posted",
         \A u \in Tasks \ {t} : /\ status'[u] = status[u]
                                /\ plan'[u] = plan[u]
                                /\ shipped'[u] = shipped[u]
  PROVE  CardMatchesRegister'
<1>1. \A u \in Tasks \ {t} : Lines(u)' = Lines(u)
  BY DEF Lines
<1>2. QED
  BY <1>1 DEF CardMatchesRegister

(* The lines of a task change only by its own request.                     *)
LEMMA InsertOthers ==
  ASSUME TypeOK, NEW t, NEW new, InsertLines(t, new)
  PROVE  \A u \in Tasks \ {t} : plan'[u] = plan[u]
BY DEF InsertLines, TypeOK

(* A shipment that commits tells the card what it moves, line by line, and *)
(* moves no more than was planned.                                         *)
LEMMA PostMatches ==
  ASSUME CardInv, NEW r \in Requests, ShipPost(r)
  PROVE  CardMatchesRegister'
<1> DEFINE t == request[r].task
           seen == request[r].seen
           asked == {v \in Variants : seen[v] > 0}
           Qty(over) == [v \in Variants |->
               IF v \in asked THEN Actual(seen[v], over[v]) ELSE 0]
<1>0. TypeInv /\ request[r] \in Request /\ moved \in [Tasks -> [Variants -> Nat]]
      /\ status \in [Tasks -> Statuses] /\ shipped \in [Tasks -> [Variants -> NotYet..MaxQty]]
  BY DEF CardInv, ShipInv, TypeInv, TypeOK
<1>1. t \in Tasks /\ At(r, "shipping")
  BY <1>0 DEF ShipPost, At, TypeInv, Placed
<1>2. moved[t] = Nothing /\ seen = plan[t]
  BY <1>1 DEF CardInv, ShipInv, LockKeepsDraft, Unposted, SeesPlan
<1>3. PICK over \in [Variants -> AsPlanned..MaxQty] :
         /\ \A v \in asked : WithinPlan(Qty(over)[v], seen[v])
         /\ moved' = [moved EXCEPT ![t] =
                [v \in Variants |-> moved[t][v] + Qty(over)[v]]]
         /\ shipped' = [shipped EXCEPT ![t] =
                [v \in Variants |-> IF v \in asked /\ plan[t][v] > 0
                                    THEN Told(seen[v], over[v])
                                    ELSE shipped[t][v]]]
  BY DEF ShipPost
<1>4. status' = [status EXCEPT ![t] = "posted"] /\ plan' = plan
  BY DEF ShipPost
<1>5. ASSUME NEW v \in Variants
      PROVE  /\ moved'[t][v] = (IF plan[t][v] > 0 THEN shipped'[t][v] ELSE 0)
             /\ moved'[t][v] <= plan[t][v]
  <2>1. moved'[t][v] = moved[t][v] + Qty(over)[v]
    BY <1>0, <1>1, <1>3
  <2>2. moved[t][v] = 0
    BY <1>2 DEF Nothing
  <2>3. seen[v] \in 0..MaxQty /\ over[v] \in AsPlanned..MaxQty
    BY <1>0 DEF Request, Quantities
  <2>4. CASE v \in asked
    <3>1. Qty(over)[v] = Actual(seen[v], over[v]) /\ Qty(over)[v] \in Int
      BY <2>3, <2>4, MaxQtyIsNat DEF Actual, AsPlanned
    <3>2. Qty(over)[v] <= seen[v]
      BY <1>3, <2>4 DEF WithinPlan
    <3>3. plan[t][v] > 0
      BY <1>2, <2>4
    <3>4. shipped'[t][v] = Actual(seen[v], over[v])
      BY <1>0, <1>1, <1>3, <2>4, <3>3 DEF Told
    <3>5. moved'[t][v] = Qty(over)[v]
      BY <2>1, <2>2, <3>1
    <3>6. QED
      BY <1>2, <3>1, <3>2, <3>3, <3>4, <3>5
  <2>5. CASE v \notin asked
    <3>1. Qty(over)[v] = 0 /\ seen[v] = 0
      BY <2>3, <2>5, MaxQtyIsNat
    <3>2. QED
      BY <1>2, <2>1, <2>2, <3>1
  <2>6. QED
    BY <2>4, <2>5
<1>6. status'[t] = "posted"
  BY <1>0, <1>1, <1>4
<1>7. ASSUME NEW u \in Tasks, u # t
      PROVE  /\ status'[u] = status[u] /\ moved'[u] = moved[u]
             /\ shipped'[u] = shipped[u] /\ Lines(u)' = Lines(u)
  BY <1>0, <1>3, <1>4, <1>7 DEF Lines
<1> HIDE DEF t
<1>8. ASSUME NEW u \in Tasks
      PROVE  IF status'[u] = "posted"
             THEN \A v \in Variants :
                     /\ moved'[u][v] = (IF v \in Lines(u)' THEN shipped'[u][v] ELSE 0)
                     /\ moved'[u][v] <= plan'[u][v]
             ELSE moved'[u] = Nothing
  <2>1. CASE u = t
    BY <2>1, <1>4, <1>5, <1>6 DEF Lines
  <2>2. CASE u # t
    BY <2>2, <1>4, <1>7 DEF CardInv, CardMatchesRegister
  <2>3. QED
    BY <2>1, <2>2
<1>9. QED
  BY <1>8 DEF CardMatchesRegister

(* A step of the only request that leaves the documents alone and keeps    *)
(* its task.                                                               *)
LEMMA AloneQuiet ==
  ASSUME NEW only, Requests = {only}, CardInv, ShipInv', UNCHANGED docs,
         \/ request'[only].step \in {"idle", "newReserve", "newDoc"}
         \/ /\ request'[only].step # "shipping"
            /\ status[request'[only].task] = "draft"
  PROVE  CardInv'
<1>1. CardMatchesRegister'
  BY DocsAlone DEF CardInv
<1>2. OwnDraft'
  BY DEF OwnDraft, docs
<1>3. SeesPlan'
  BY DEF SeesPlan, At
<1>4. QED
  BY <1>1, <1>2, <1>3 DEF CardInv

(* A step of the only request that changes its own draft.                  *)
LEMMA AloneOwn ==
  ASSUME NEW only, Requests = {only}, CardInv, ShipInv', moved' = moved,
         NEW t \in Tasks, status[t] # "posted", status'[t] # "posted",
         \A u \in Tasks \ {t} : /\ status'[u] = status[u]
                                /\ plan'[u] = plan[u]
                                /\ shipped'[u] = shipped[u],
         \/ request'[only].step = "idle"
         \/ /\ request'[only].step # "shipping"
            /\ request'[only].task = t /\ status'[t] = "draft"
  PROVE  CardInv'
<1>1. CardMatchesRegister'
  BY UnpostedChange DEF CardInv
<1>2. OwnDraft'
  BY DEF OwnDraft
<1>3. SeesPlan'
  BY DEF SeesPlan, At
<1>4. QED
  BY <1>1, <1>2, <1>3 DEF CardInv

(* With one request at a time every step keeps the cards in step with the  *)
(* register.                                                               *)
LEMMA CardStep ==
  ASSUME NEW only, Requests = {only}, CardInv, [Next]_vars
  PROVE  CardInv'
<1>0. TypeInv /\ ShipInv /\ ShipInv'
  BY ShipStep DEF CardInv, ShipInv
<1>t. /\ request \in [Requests -> Request] /\ status \in [Tasks -> Statuses]
      /\ plan \in [Tasks -> Quantities]
      /\ shipped \in [Tasks -> [Variants -> NotYet..MaxQty]]
  BY <1>0 DEF TypeInv, TypeOK
<1>w. OwnDraft
  BY DEF CardInv
<1>1. ASSUME NEW r \in Requests, Create(r) PROVE CardInv'
  <2>1. CASE CreateStock(r)
    BY <2>1, <1>0, <1>t, AloneQuiet DEF CreateStock, ReadStock
  <2>2. CASE CreateCheck(r)
    <3>1. request'[r].step = "newDoc" /\ UNCHANGED docs
      BY <2>2, <1>t DEF CreateCheck, Check
    <3>2. QED
      BY <3>1, <1>0, AloneQuiet
  <2>3. CASE CreateLines(r)
    <3> DEFINE t == request[r].task
    <3>1. t \in Tasks /\ status[t] = "draft"
      BY <2>3, <1>0, <1>w DEF CreateLines, At, TypeInv, Placed, OwnDraft
    <3>2. \A u \in Tasks \ {t} : plan'[u] = plan[u]
      BY <2>3, <1>0, InsertOthers DEF CreateLines, TypeInv
    <3>3. UNCHANGED <<status, shipped, moved>>
      BY <2>3 DEF CreateLines
    <3>4. \/ request'[r].step = "idle"
          \/ request'[r].step = "newUndo" /\ request'[r].task = t
      BY <2>3, <1>t DEF CreateLines, Finish, Goto, Idle
    <3>5. QED
      BY <3>1, <3>2, <3>3, <3>4, <1>0, AloneOwn
  <2>4. CASE CreateUndo(r)
    <3> DEFINE t == request[r].task
    <3>1. t \in Tasks /\ status[t] = "draft"
      BY <2>4, <1>0, <1>w DEF CreateUndo, At, TypeInv, Placed, OwnDraft
    <3>2. /\ status'[t] = "gone" /\ moved' = moved
          /\ request'[r].step = "idle"
          /\ \A u \in Tasks \ {t} : /\ status'[u] = status[u]
                                    /\ plan'[u] = plan[u]
                                    /\ shipped'[u] = shipped[u]
      BY <2>4, <3>1, <1>t DEF CreateUndo, Finish, Idle
    <3>3. QED
      BY <3>1, <3>2, <1>0, AloneOwn
  <2>5. ASSUME NEW t \in Tasks, CreateDoc(r, t) PROVE CardInv'
    <3>1. /\ status[t] = "none" /\ status'[t] = "draft" /\ moved' = moved
          /\ request'[r].step = "newLines" /\ request'[r].task = t
          /\ \A u \in Tasks \ {t} : /\ status'[u] = status[u]
                                    /\ plan'[u] = plan[u]
                                    /\ shipped'[u] = shipped[u]
      BY <2>5, <1>t DEF CreateDoc
    <3>2. QED
      BY <3>1, <1>0, AloneOwn
  <2>6. QED
    BY <1>1, <2>1, <2>2, <2>3, <2>4, <2>5 DEF Create
<1>2. ASSUME NEW r \in Requests, Edit(r) PROVE CardInv'
  <2>1. CASE EditLoad(r)
    BY <2>1, <1>0, <1>t, <1>w, AloneQuiet DEF EditLoad, At, OwnDraft
  <2>2. CASE EditStock(r)
    BY <2>2, <1>0, <1>t, <1>w, AloneQuiet DEF EditStock, ReadStock, At, OwnDraft
  <2>3. CASE EditCheck(r)
    <3>1. /\ request'[r].step = "editDelete" /\ UNCHANGED docs
          /\ request'[r].task = request[r].task
      BY <2>3, <1>t DEF EditCheck, Check
    <3>2. status[request[r].task] = "draft"
      BY <2>3, <1>w DEF EditCheck, At, OwnDraft
    <3>3. QED
      BY <3>1, <3>2, <1>0, AloneQuiet
  <2>4. CASE EditDelete(r)
    <3> DEFINE t == request[r].task
    <3>1. t \in Tasks /\ status[t] = "draft"
      BY <2>4, <1>0, <1>w DEF EditDelete, At, TypeInv, Placed, OwnDraft
    <3>2. /\ status' = status /\ moved' = moved
          /\ request'[r].step = "editUpdate" /\ request'[r].task = t
          /\ \A u \in Tasks \ {t} : plan'[u] = plan[u] /\ shipped'[u] = shipped[u]
      BY <2>4, <3>1, <1>t DEF EditDelete, Goto
    <3>3. QED
      BY <3>1, <3>2, <1>0, AloneOwn
  <2>5. CASE EditInsert(r)
    <3> DEFINE t == request[r].task
    <3>1. t \in Tasks /\ status[t] = "draft"
      BY <2>5, <1>0, <1>w DEF EditInsert, At, TypeInv, Placed, OwnDraft
    <3>2. \A u \in Tasks \ {t} : plan'[u] = plan[u]
      BY <2>5, <1>0, InsertOthers DEF EditInsert, TypeInv
    <3>3. UNCHANGED <<status, shipped, moved>> /\ request'[r].step = "idle"
      BY <2>5, <1>t DEF EditInsert, Finish, Idle
    <3>4. QED
      BY <3>1, <3>2, <3>3, <1>0, AloneOwn
  <2>6. ASSUME NEW v \in Variants, EditUpdate(r, v) PROVE CardInv'
    <3> DEFINE t == request[r].task
    <3>1. t \in Tasks /\ status[t] = "draft"
      BY <2>6, <1>0, <1>w DEF EditUpdate, At, TypeInv, Placed, OwnDraft
    <3>2. \A u \in Tasks \ {t} : plan'[u] = plan[u]
      BY <2>6, <3>1, <1>t DEF EditUpdate
    <3>3. /\ UNCHANGED <<status, shipped, moved>>
          /\ request'[r].step = "editUpdate" /\ request'[r].task = t
      BY <2>6, <1>t DEF EditUpdate
    <3>4. QED
      BY <3>1, <3>2, <3>3, <1>0, AloneOwn
  <2>7. ASSUME NEW t \in Tasks, EditClaim(r, t) PROVE CardInv'
    BY <2>7, <1>0, <1>t, AloneQuiet DEF EditClaim, Open, StillDraft
  <2>8. QED
    BY <1>2, <2>1, <2>2, <2>3, <2>4, <2>5, <2>6, <2>7 DEF Edit
<1>3. ASSUME NEW r \in Requests, Cancel(r) PROVE CardInv'
  <2>1. CASE CancelWrite(r)
    <3> DEFINE t == request[r].task
    <3>1. t \in Tasks /\ status[t] = "draft"
      BY <2>1, <1>0, <1>w DEF CancelWrite, At, TypeInv, Placed, OwnDraft
    <3>2. /\ status'[t] = "cancelled" /\ UNCHANGED <<plan, shipped, moved>>
          /\ request'[r].step = "idle"
          /\ \A u \in Tasks \ {t} : status'[u] = status[u]
      BY <2>1, <3>1, <1>t DEF CancelWrite, Finish, Idle
    <3>3. QED
      BY <3>1, <3>2, <1>0, AloneOwn
  <2>2. ASSUME NEW t \in Tasks, CancelRead(r, t) PROVE CardInv'
    BY <2>2, <1>0, <1>t, AloneQuiet DEF CancelRead, Open
  <2>3. QED
    BY <1>3, <2>1, <2>2 DEF Cancel
<1>4. ASSUME NEW r \in Requests, Ship(r) PROVE CardInv'
  <2>1. CASE ShipLock(r)
    <3>1. /\ UNCHANGED docs /\ status[request[r].task] = "draft"
          /\ request'[r].task = request[r].task
          /\ request'[r].seen = plan[request[r].task]
      BY <2>1, <1>t DEF ShipLock, IsDraft
    <3>2. CardMatchesRegister'
      BY <3>1, DocsAlone DEF CardInv
    <3>3. OwnDraft' /\ SeesPlan'
      BY <3>1 DEF OwnDraft, SeesPlan, docs
    <3>4. QED
      BY <3>2, <3>3, <1>0 DEF CardInv
  <2>2. CASE ShipPost(r)
    <3>1. CardMatchesRegister'
      BY <2>2, PostMatches
    <3>2. request'[r] = Idle
      BY <2>2, <1>t DEF ShipPost, Finish
    <3>3. OwnDraft' /\ SeesPlan'
      BY <3>2 DEF OwnDraft, SeesPlan, At, Idle
    <3>4. QED
      BY <3>1, <3>3, <1>0 DEF CardInv
  <2>3. ASSUME NEW t \in Tasks, ShipRead(r, t) PROVE CardInv'
    BY <2>3, <1>0, <1>t, AloneQuiet DEF ShipRead, Open
  <2>4. QED
    BY <1>4, <2>1, <2>2, <2>3 DEF Ship
<1>5. ASSUME NEW r \in Requests, GiveUp(r) PROVE CardInv'
  BY <1>5, <1>0, <1>t, AloneQuiet DEF GiveUp, Finish, Idle
<1>6. CASE UNCHANGED <<docs, request>>
  <2>1. CardMatchesRegister'
    BY <1>6, DocsAlone DEF CardInv
  <2>2. OwnDraft' /\ SeesPlan'
    BY <1>6 DEF CardInv, OwnDraft, SeesPlan, At, docs
  <2>3. QED
    BY <2>1, <2>2, <1>0 DEF CardInv
<1>7. QED
  BY <1>1, <1>2, <1>3, <1>4, <1>5, <1>6 DEF Next, vars, docs, OtherMove

LEMMA CardInit ==
  ASSUME NEW only, Requests = {only}
  PROVE  Init => CardInv
<1> SUFFICES ASSUME Init PROVE CardInv
  OBVIOUS
<1>1. ShipInv
  <2>1. Unposted
    BY MaxQtyIsNat DEF Init, Unposted, Unshipped, NotYet
  <2>2. LockKeepsDraft
    BY DEF Init, LockKeepsDraft, At, Idle
  <2>3. QED
    BY <2>1, <2>2, InitTyped DEF ShipInv
<1>2. OwnDraft /\ SeesPlan
  BY DEF Init, OwnDraft, SeesPlan, At, Idle
<1>3. CardMatchesRegister
  BY DEF Init, CardMatchesRegister
<1>4. QED
  BY <1>1, <1>2, <1>3 DEF CardInv

(* With one request at a time the document of a posted task tells exactly  *)
(* what the register moved under its number, never more than was planned,  *)
(* and no other document moved anything, whatever requests are refused or  *)
(* die between their steps.                                                *)
THEOREM CardCorrect ==
  ASSUME NEW only, Requests = {only}
  PROVE  Spec => []CardMatchesRegister
<1>1. Init => CardInv
  BY CardInit
<1>2. CardInv /\ [Next]_vars => CardInv'
  BY CardStep
<1>3. CardInv => CardMatchesRegister
  BY DEF CardInv
<1>4. QED
  BY <1>1, <1>2, <1>3, PTL DEF Spec

-----------------------------------------------------------------------------
(* One request at a time, and no other document that takes from the stock: *)
(* the drafts reserve no more than there is.                               *)

(* The reserve as a function of statuses and plans.                        *)
ReserveOf(v, except, st, pl) ==
    SumFunction([t \in {u \in Tasks \ {except} : st[u] = "draft"} |-> pl[t][v]])

LEMMA ReserveIs ==
  ASSUME NEW v, NEW except
  PROVE  /\ Reserved(v, Drafts(except)) = ReserveOf(v, except, status, plan)
         /\ Reserved(v, Drafts(except))' = ReserveOf(v, except, status', plan')
BY Zenon DEF Reserved, Drafts, ReserveOf

(* What one task adds to it.                                               *)
LEMMA ReserveSplit ==
  ASSUME NEW st, NEW pl \in [Tasks -> Quantities], NEW t \in Tasks, NEW v \in Variants
  PROVE  /\ ReserveOf(v, t, st, pl) \in Nat
         /\ ReserveOf(v, NoTask, st, pl) =
                ReserveOf(v, t, st, pl) + (IF st[t] = "draft" THEN pl[t][v] ELSE 0)
<1> DEFINE all  == {u \in Tasks \ {NoTask} : st[u] = "draft"}
           rest == {u \in Tasks \ {t} : st[u] = "draft"}
           f(S) == [u \in S |-> pl[u][v]]
           Sum(S) == SumFunction(f(S))
           g == f(Tasks)
<1>1. \A u \in Tasks : g[u] \in Nat
  BY MaxQtyIsNat DEF Quantities
<1>2. ASSUME NEW S \in SUBSET Tasks
      PROVE  /\ IsFiniteSet(S)
             /\ Sum(S) = SumFunctionOnSet(g, S)
             /\ Sum(S) \in Nat
  <2>1. IsFiniteSet(S)
    BY TasksAreFinite, FS_Subset
  <2>2. \A u \in S : f(S)[u] = g[u]
    OBVIOUS
  <2>3. DOMAIN f(S) = S
    OBVIOUS
  <2> HIDE DEF f, g
  <2>4. SumFunctionOnSet(f(S), S) = SumFunctionOnSet(g, S)
    BY <2>1, <2>2, SumSame
  <2>5. SumFunctionOnSet(g, S) \in Nat
    BY <1>1, <2>1, SumNat
  <2>6. Sum(S) = SumFunctionOnSet(f(S), S)
    BY <2>3 DEF SumFunction
  <2>7. QED
    BY <2>1, <2>4, <2>5, <2>6
<1>3. rest \in SUBSET Tasks /\ all \in SUBSET Tasks
  OBVIOUS
<1>r. Sum(all) = ReserveOf(v, NoTask, st, pl) /\ Sum(rest) = ReserveOf(v, t, st, pl)
  BY Zenon DEF ReserveOf
<1>4. CASE st[t] = "draft"
  <2>1. all = rest \cup {t} /\ t \notin rest
    BY <1>4, NoTaskIsNone
  <2>2. g[t] = pl[t][v]
    OBVIOUS
  <2> HIDE DEF all, rest, g, Sum
  <2>3. SumFunctionOnSet(g, all) = g[t] + SumFunctionOnSet(g, rest)
    BY <1>1, <1>2, <1>3, <2>1, SumAdd
  <2>4. Sum(all) = Sum(rest) + pl[t][v]
    BY <1>1, <1>2, <1>3, <2>2, <2>3
  <2>5. QED
    BY <1>2, <1>3, <1>r, <1>4, <2>4
<1>5. CASE st[t] # "draft"
  <2>1. all = rest
    BY <1>5, NoTaskIsNone
  <2> HIDE DEF all, rest, Sum
  <2>2. Sum(all) = Sum(rest)
    BY <2>1, Zenon
  <2>3. Sum(rest) \in Nat
    BY <1>2, <1>3
  <2>4. QED
    BY <1>r, <1>5, <2>2, <2>3
<1>6. QED
  BY <1>4, <1>5

(* Tasks that stay as they are reserve what they did.                      *)
LEMMA OthersReserve ==
  ASSUME NEW st, NEW pl, NEW st2, NEW pl2, NEW t,
         \A u \in Tasks \ {t} : st2[u] = st[u] /\ pl2[u] = pl[u], NEW v
  PROVE  ReserveOf(v, t, st2, pl2) = ReserveOf(v, t, st, pl)
<1>1. [u \in {u \in Tasks \ {t} : st2[u] = "draft"} |-> pl2[u][v]]
        = [u \in {u \in Tasks \ {t} : st[u] = "draft"} |-> pl[u][v]]
  OBVIOUS
<1>2. QED
  BY <1>1, Zenon DEF ReserveOf

(* The reserve before and after a step that touches one task.              *)
LEMMA ReserveStep ==
  ASSUME TypeInv, TypeInv', NEW t \in Tasks, NEW v \in Variants,
         \A u \in Tasks \ {t} : status'[u] = status[u] /\ plan'[u] = plan[u]
  PROVE  /\ ReserveOf(v, t, status, plan) \in Nat
         /\ ReserveOf(v, t, status', plan') = ReserveOf(v, t, status, plan)
         /\ ReserveOf(v, NoTask, status, plan) = ReserveOf(v, t, status, plan)
                + (IF status[t] = "draft" THEN plan[t][v] ELSE 0)
         /\ ReserveOf(v, NoTask, status', plan') = ReserveOf(v, t, status, plan)
                + (IF status'[t] = "draft" THEN plan'[t][v] ELSE 0)
<1>1. plan \in [Tasks -> Quantities] /\ plan' \in [Tasks -> Quantities]
  BY DEF TypeInv, TypeOK
<1>2. ReserveOf(v, t, status', plan') = ReserveOf(v, t, status, plan)
  BY OthersReserve
<1>3. /\ ReserveOf(v, t, status, plan) \in Nat
      /\ ReserveOf(v, NoTask, status, plan) = ReserveOf(v, t, status, plan)
            + (IF status[t] = "draft" THEN plan[t][v] ELSE 0)
  BY <1>1, ReserveSplit
<1>4. ReserveOf(v, NoTask, status', plan') = ReserveOf(v, t, status', plan')
            + (IF status'[t] = "draft" THEN plan'[t][v] ELSE 0)
  BY <1>1, ReserveSplit
<1>5. QED
  BY <1>2, <1>3, <1>4

LEMMA ReserveTyped ==
  ASSUME NEW st, NEW pl \in [Tasks -> Quantities], NEW v \in Variants
  PROVE  \A t \in Tasks \cup {NoTask} :
            /\ ReserveOf(v, t, st, pl) \in Nat
            /\ ReserveOf(v, t, st, pl) <= ReserveOf(v, NoTask, st, pl)
<1>2. ASSUME NEW t \in Tasks
      PROVE  /\ ReserveOf(v, NoTask, st, pl) \in Nat
             /\ ReserveOf(v, t, st, pl) \in Nat
             /\ ReserveOf(v, t, st, pl) <= ReserveOf(v, NoTask, st, pl)
  <2>1. pl[t][v] \in Nat
    BY MaxQtyIsNat DEF Quantities
  <2>2. /\ ReserveOf(v, t, st, pl) \in Nat
        /\ ReserveOf(v, NoTask, st, pl) = ReserveOf(v, t, st, pl)
              + (IF st[t] = "draft" THEN pl[t][v] ELSE 0)
    BY ReserveSplit
  <2>3. QED
    BY <2>1, <2>2
<1>3. CASE Tasks = {}
  <2>1. [t \in {u \in Tasks \ {NoTask} : st[u] = "draft"} |-> pl[t][v]] = [t \in {} |-> 0]
    BY <1>3
  <2>2. DOMAIN [t \in {} |-> 0] = {}
    OBVIOUS
  <2>3. ReserveOf(v, NoTask, st, pl) = SumFunctionOnSet([t \in {} |-> 0], {})
    BY <2>1, <2>2, Zenon DEF ReserveOf, SumFunction
  <2>4. QED
    BY <1>3, <2>3, SumEmpty
<1>4. QED
  BY <1>2, <1>3

(* Statuses that reserve nothing yet, and requests that have no task yet.  *)
NotCreated == \A t \in Tasks : status[t] = "none" => plan[t] = Nothing
NoTaskYet ==
    \A r \in Requests :
        request[r].step \in {"idle", "newReserve", "newDoc"} => request[r].task = NoTask

(* The stock a request read is there when it checks against it.            *)
StockSeen ==
    \A r \in Requests : \A v \in Variants :
        request[r].step \in {"newReserve", "editReserve"} => request[r].free[v] <= stock[v]

(* A request that has passed the check and has not finished writing asks   *)
(* for no more than the other drafts leave.  Without this the lines it     *)
(* writes one request to the database after the other could be too many.   *)
WantFits ==
    \A r \in Requests : \A v \in Variants :
        request[r].step \in Checked =>
            request[r].want[v] + ReserveOf(v, request[r].task, status, plan) <= stock[v]

(* ReserveWithinStock in these terms.                                      *)
DraftsFit == \A v \in Variants : ReserveOf(v, NoTask, status, plan) <= stock[v]

ReserveInv == CardInv /\ DraftsFit /\ NotCreated /\ NoTaskYet /\ StockSeen /\ WantFits

LEMMA ReserveTypes ==
  ASSUME ReserveInv
  PROVE  /\ TypeInv
         /\ stock \in [Variants -> Nat]
         /\ status \in [Tasks -> Statuses]
         /\ plan \in [Tasks -> Quantities]
         /\ request \in [Requests -> Request]
BY DEF ReserveInv, CardInv, ShipInv, TypeInv, TypeOK

(* A step that leaves the documents alone and takes nothing from the       *)
(* stock, and after which no check has just been passed.                   *)
LEMMA ReserveQuiet ==
  ASSUME NEW only, Requests = {only}, ReserveInv, CardInv', UNCHANGED <<status, plan>>,
         \A v \in Variants : stock[v] <= stock'[v],
         NoTaskYet', StockSeen',
         request'[only].step \notin Checked \/ request'[only] = request[only]
  PROVE  ReserveInv'
<1>1. stock \in [Variants -> Nat] /\ stock' \in [Variants -> Nat]
  BY DEF ReserveInv, CardInv, ShipInv, TypeInv, TypeOK
<1>2. request[only] \in Request
  BY ReserveTypes
<1>3. ASSUME NEW v \in Variants, NEW t \in Tasks \cup {NoTask}
      PROVE  ReserveOf(v, t, status, plan) \in Nat
  BY ReserveTypes, ReserveTyped
<1>4. DraftsFit'
  <2> SUFFICES ASSUME NEW v \in Variants
               PROVE  ReserveOf(v, NoTask, status, plan) <= stock'[v]
    BY DEF DraftsFit
  <2>1. ReserveOf(v, NoTask, status, plan) <= stock[v] /\ stock[v] <= stock'[v]
    BY DEF ReserveInv, DraftsFit
  <2>2. QED
    BY <1>1, <1>3, <2>1
<1>5. WantFits'
  <2> SUFFICES ASSUME NEW v \in Variants, request'[only].step \in Checked
               PROVE  request'[only].want[v]
                        + ReserveOf(v, request'[only].task, status, plan) <= stock'[v]
    BY DEF WantFits
  <2>1. request'[only] = request[only]
    OBVIOUS
  <2> DEFINE t == request[only].task
             w == request[only].want[v]
  <2>2. w + ReserveOf(v, t, status, plan) <= stock[v]
    BY <2>1 DEF ReserveInv, WantFits
  <2>3. t \in Tasks \cup {NoTask} /\ w \in Nat
    BY <1>2, MaxQtyIsNat DEF Request, Quantities
  <2> HIDE DEF t, w
  <2>4. ReserveOf(v, t, status, plan) \in Nat
    BY <1>3, <2>3
  <2>5. stock[v] \in Int /\ stock'[v] \in Int /\ stock[v] <= stock'[v]
    BY <1>1
  <2>6. w + ReserveOf(v, t, status, plan) <= stock'[v]
    BY <2>2, <2>3, <2>4, <2>5
  <2>7. QED
    BY <2>1, <2>6 DEF t, w
<1>6. NotCreated'
  BY DEF ReserveInv, NotCreated
<1>7. QED
  BY <1>4, <1>5, <1>6 DEF ReserveInv

(* A step that writes the document of the only request: it plans no more   *)
(* of a size than before, or than was asked for, or the document is no     *)
(* draft.                                                                  *)
LEMMA ReserveWrite ==
  ASSUME NEW only, Requests = {only}, ReserveInv, CardInv', stock' = stock,
         NEW t \in Tasks, status[t] # "none", status'[t] # "none",
         \A u \in Tasks \ {t} : status'[u] = status[u] /\ plan'[u] = plan[u],
         \A v \in Variants :
             \/ status'[t] # "draft"
             \/ status[t] = "draft" /\ plan'[t][v] <= plan[t][v]
             \/ /\ request[only].step \in Checked /\ request[only].task = t
                /\ plan'[t][v] <= request[only].want[v],
         \/ request'[only] = Idle
         \/ request'[only].step = "newUndo"
         \/ /\ request[only].step \in Checked /\ request'[only].step = "editUpdate"
            /\ request[only].task = t /\ request'[only].task = t
            /\ request'[only].want = request[only].want
  PROVE  ReserveInv'
<1>1. TypeInv /\ TypeInv'
  BY DEF ReserveInv, CardInv, ShipInv
<1>2. /\ stock \in [Variants -> Nat] /\ request[only] \in Request
      /\ plan \in [Tasks -> Quantities] /\ plan' \in [Tasks -> Quantities]
  BY <1>1 DEF TypeInv, TypeOK
<1>3. ASSUME NEW v \in Variants
      PROVE  /\ ReserveOf(v, NoTask, status', plan') <= stock'[v]
             /\ request[only].step \in Checked /\ request[only].task = t =>
                    request[only].want[v] + ReserveOf(v, t, status', plan') <= stock'[v]
  <2> DEFINE rest == ReserveOf(v, t, status, plan)
             want == request[only].want[v]
             old == plan[t][v]
             new == plan'[t][v]
  <2>1. /\ rest \in Nat
        /\ ReserveOf(v, t, status', plan') = rest
        /\ ReserveOf(v, NoTask, status, plan) = rest + (IF status[t] = "draft" THEN old ELSE 0)
        /\ ReserveOf(v, NoTask, status', plan') = rest + (IF status'[t] = "draft" THEN new ELSE 0)
    BY <1>1, ReserveStep
  <2>2. /\ stock[v] \in Nat /\ stock'[v] = stock[v] /\ want \in Nat
        /\ old \in Nat /\ new \in Nat
    BY <1>2, MaxQtyIsNat DEF Request, Quantities
  <2>3. ReserveOf(v, NoTask, status, plan) <= stock[v]
    BY DEF ReserveInv, DraftsFit
  <2>4. request[only].step \in Checked /\ request[only].task = t => want + rest <= stock[v]
    BY DEF ReserveInv, WantFits
  <2>5. \/ status'[t] # "draft"
        \/ status[t] = "draft" /\ new <= old
        \/ request[only].step \in Checked /\ request[only].task = t /\ new <= want
    OBVIOUS
  <2> HIDE DEF rest, want, old, new
  <2>6. ReserveOf(v, NoTask, status', plan') <= stock'[v]
    BY <2>1, <2>2, <2>3, <2>4, <2>5
  <2>7. QED
    BY <2>1, <2>2, <2>4, <2>6 DEF want
<1>4. DraftsFit'
  BY <1>3 DEF DraftsFit
<1>5. WantFits'
  <2> SUFFICES ASSUME NEW v \in Variants, request'[only].step \in Checked
               PROVE  request'[only].want[v]
                        + ReserveOf(v, request'[only].task, status', plan') <= stock'[v]
    BY DEF WantFits
  <2>1. /\ request[only].step \in Checked
        /\ request[only].task = t /\ request'[only].task = t
        /\ request'[only].want = request[only].want
    BY DEF Checked, Idle
  <2>2. QED
    BY <1>3, <2>1
<1>6. NotCreated'
  BY DEF ReserveInv, NotCreated
<1>7. NoTaskYet' /\ StockSeen'
  BY DEF NoTaskYet, StockSeen, Idle
<1>8. QED
  BY <1>4, <1>5, <1>6, <1>7 DEF ReserveInv

(* Passing the check: what is asked for fits, also where nothing is asked  *)
(* for.                                                                    *)
LEMMA ReserveCheck ==
  ASSUME NEW only, Requests = {only}, ReserveInv, CardInv', UNCHANGED <<status, plan, stock>>,
         \/ request[only].step = "newReserve" /\ Check(only, "newDoc")
         \/ request[only].step = "editReserve" /\ Check(only, "editDelete")
  PROVE  ReserveInv'
<1>0. /\ TypeInv /\ stock \in [Variants -> Nat] /\ request \in [Requests -> Request]
  BY ReserveTypes
<1> DEFINE t == request[only].task
<1>1. PICK want \in Quantities :
        /\ \A v \in Variants : want[v] > 0 =>
               want[v] <= request[only].free[v] - Reserved(v, Competing(t))
        /\ request'[only].want = want /\ request'[only].task = t
    BY <1>0 DEF Check
<1>2. request'[only].step \in {"newDoc", "editDelete"}
      /\ (request'[only].step = "newDoc" => request[only].step = "newReserve")
  BY <1>0 DEF Check
<1>t. t \in Tasks \cup {NoTask} /\ request[only].free \in [Variants -> Int]
  BY <1>0 DEF Request
<1>p. plan \in [Tasks -> Quantities]
  BY ReserveTypes
<1>3. ASSUME NEW v \in Variants
      PROVE  want[v] + ReserveOf(v, t, status, plan) <= stock[v]
  <2> DEFINE rest == ReserveOf(v, t, status, plan)
             all == ReserveOf(v, NoTask, status, plan)
             free == request[only].free[v]
  <2>1. rest \in Nat /\ rest <= all /\ all \in Nat
    BY <1>0, <1>p, <1>t, ReserveTyped
  <2>2. all <= stock[v] /\ stock[v] \in Nat /\ free \in Int /\ want[v] \in Nat
    BY <1>0, <1>t, MaxQtyIsNat DEF ReserveInv, DraftsFit, Quantities
  <2>3. free <= stock[v]
    BY DEF ReserveInv, StockSeen
  <2>4. Reserved(v, Competing(t)) = rest
    BY ReserveIs, Zenon DEF Competing
  <2>5. want[v] > 0 => want[v] <= free - rest
    BY <1>1, <2>4
  <2> HIDE DEF rest, all, free
  <2>6. want[v] + rest <= stock[v]
    BY <2>1, <2>2, <2>3, <2>5
  <2>7. QED
    BY <2>6 DEF rest
<1>4. WantFits'
  <2> SUFFICES ASSUME NEW v \in Variants
               PROVE  request'[only].want[v]
                        + ReserveOf(v, request'[only].task, status, plan) <= stock[v]
    BY DEF WantFits
  <2> HIDE DEF t
  <2>1. QED
    BY <1>1, <1>3
<1>5. DraftsFit' /\ NotCreated'
  BY DEF ReserveInv, DraftsFit, NotCreated
<1>6. NoTaskYet' /\ StockSeen'
  BY <1>1, <1>2 DEF ReserveInv, NoTaskYet, StockSeen
<1>7. QED
  BY <1>4, <1>5, <1>6 DEF ReserveInv

(* A task that has just been created reserves nothing.                     *)
LEMMA ReserveCreated ==
  ASSUME NEW only, Requests = {only}, ReserveInv, CardInv',
         NEW t \in Tasks, CreateDoc(only, t)
  PROVE  ReserveInv'
<1>1. TypeInv /\ TypeInv' /\ request \in [Requests -> Request] /\ status \in [Tasks -> Statuses]
      /\ plan \in [Tasks -> Quantities]
  BY DEF ReserveInv, CardInv, ShipInv, TypeInv, TypeOK
<1>2. /\ request[only].step = "newDoc" /\ request[only].task = NoTask
      /\ request'[only].step = "newLines" /\ request'[only].task = t
      /\ request'[only].want = request[only].want
  BY <1>1 DEF CreateDoc, At, ReserveInv, NoTaskYet
<1>3. /\ status[t] = "none" /\ status'[t] = "draft" /\ UNCHANGED <<plan, stock>>
      /\ \A u \in Tasks \ {t} : status'[u] = status[u] /\ plan'[u] = plan[u]
  BY <1>1 DEF CreateDoc
<1>4. plan[t] = Nothing
  BY <1>3 DEF ReserveInv, NotCreated
<1>5. ASSUME NEW v \in Variants
      PROVE  /\ ReserveOf(v, t, status', plan') = ReserveOf(v, NoTask, status, plan)
             /\ ReserveOf(v, NoTask, status', plan') = ReserveOf(v, NoTask, status, plan)
  <2>1. plan'[t][v] = 0
    BY <1>3, <1>4 DEF Nothing
  <2>2. /\ ReserveOf(v, t, status, plan) \in Nat
        /\ ReserveOf(v, t, status', plan') = ReserveOf(v, t, status, plan)
        /\ ReserveOf(v, NoTask, status, plan) = ReserveOf(v, t, status, plan)
                + (IF status[t] = "draft" THEN plan[t][v] ELSE 0)
        /\ ReserveOf(v, NoTask, status', plan') = ReserveOf(v, t, status, plan)
                + (IF status'[t] = "draft" THEN plan'[t][v] ELSE 0)
    BY <1>1, <1>3, ReserveStep
  <2>3. QED
    BY <1>3, <2>1, <2>2
<1>6. DraftsFit'
  BY <1>3, <1>5 DEF ReserveInv, DraftsFit
<1>7. WantFits'
  <2>1. \A v \in Variants :
          request[only].want[v] + ReserveOf(v, NoTask, status, plan) <= stock[v]
    BY <1>2 DEF ReserveInv, WantFits, Checked
  <2>2. \A v \in Variants :
          request'[only].want[v] + ReserveOf(v, request'[only].task, status', plan') <= stock'[v]
    BY <1>2, <1>3, <1>5, <2>1
  <2>3. QED
    BY <2>2 DEF WantFits
<1>8. NotCreated'
  BY <1>3 DEF ReserveInv, NotCreated
<1>9. NoTaskYet' /\ StockSeen'
  BY <1>2 DEF NoTaskYet, StockSeen
<1>10. QED
  BY <1>6, <1>7, <1>8, <1>9 DEF ReserveInv

(* Shipping gives back the whole reserve of the task and takes from the    *)
(* stock no more than that.                                                *)
LEMMA ReserveShipped ==
  ASSUME NEW only, Requests = {only}, ReserveInv, CardInv', ShipPost(only)
  PROVE  ReserveInv'
<1> DEFINE t == request[only].task
           seen == request[only].seen
           asked == {v \in Variants : seen[v] > 0}
           Qty(over) == [v \in Variants |->
               IF v \in asked THEN Actual(seen[v], over[v]) ELSE 0]
<1>1. TypeInv /\ TypeInv' /\ request \in [Requests -> Request] /\ status \in [Tasks -> Statuses]
      /\ plan \in [Tasks -> Quantities] /\ stock \in [Variants -> Nat]
  BY DEF ReserveInv, CardInv, ShipInv, TypeInv, TypeOK
<1>2. t \in Tasks /\ seen = plan[t] /\ status[t] = "draft"
  BY <1>1 DEF ShipPost, At, TypeInv, Placed, ReserveInv, CardInv, ShipInv, SeesPlan, LockKeepsDraft
<1>3. /\ status'[t] = "posted" /\ plan' = plan
      /\ \A u \in Tasks \ {t} : status'[u] = status[u] /\ plan'[u] = plan[u]
      /\ request'[only] = Idle
  BY <1>1, <1>2 DEF ShipPost, Finish
<1>4. PICK over \in [Variants -> AsPlanned..MaxQty] :
        /\ \A v \in asked : WithinPlan(Qty(over)[v], seen[v])
        /\ stock' = [v \in Variants |-> stock[v] - Qty(over)[v]]
  BY DEF ShipPost
<1>5. ASSUME NEW v \in Variants
      PROVE  ReserveOf(v, NoTask, status', plan') <= stock'[v]
  <2> DEFINE rest == ReserveOf(v, t, status, plan)
             qty == Qty(over)[v]
             planned == plan[t][v]
  <2>1. planned \in Nat
    BY <1>1, <1>2, MaxQtyIsNat DEF Quantities
  <2>2. qty \in Int /\ qty <= planned
    <3>1. CASE v \in asked
      <4>1. qty = Actual(seen[v], over[v]) /\ over[v] \in Int /\ seen[v] \in Nat
        BY <1>2, <2>1, <3>1, MaxQtyIsNat DEF AsPlanned
      <4>2. qty <= seen[v]
        BY <1>4, <3>1 DEF WithinPlan
      <4> HIDE DEF qty
      <4>3. QED
        BY <1>2, <4>1, <4>2 DEF Actual
    <3>2. CASE v \notin asked
      <4>1. qty = 0
        BY <3>2
      <4> HIDE DEF qty
      <4>2. QED
        BY <2>1, <4>1
    <3>3. QED
      BY <3>1, <3>2
  <2>3. /\ rest \in Nat
        /\ ReserveOf(v, NoTask, status, plan) = rest + planned
        /\ ReserveOf(v, NoTask, status', plan') = rest
    <3> HIDE DEF t
    <3>1. /\ ReserveOf(v, t, status, plan) \in Nat
          /\ ReserveOf(v, NoTask, status, plan) = ReserveOf(v, t, status, plan)
                  + (IF status[t] = "draft" THEN plan[t][v] ELSE 0)
          /\ ReserveOf(v, NoTask, status', plan') = ReserveOf(v, t, status, plan)
                  + (IF status'[t] = "draft" THEN plan'[t][v] ELSE 0)
      BY <1>1, <1>2, <1>3, ReserveStep
    <3>2. QED
      BY <1>2, <1>3, <3>1
  <2>4. ReserveOf(v, NoTask, status, plan) <= stock[v]
    BY DEF ReserveInv, DraftsFit
  <2>5. stock'[v] = stock[v] - qty /\ stock[v] \in Nat
    BY <1>1, <1>4
  <2> HIDE DEF rest, qty, planned
  <2>6. QED
    BY <2>1, <2>2, <2>3, <2>4, <2>5
<1>6. DraftsFit'
  BY <1>5 DEF DraftsFit
<1>7. NotCreated'
  BY <1>2, <1>3 DEF ReserveInv, NotCreated
<1>8. NoTaskYet' /\ StockSeen' /\ WantFits'
  BY <1>3 DEF NoTaskYet, StockSeen, WantFits, Checked, Idle
<1>9. QED
  BY <1>6, <1>7, <1>8 DEF ReserveInv

(* With one request at a time every step keeps the drafts within the       *)
(* stock, as long as nothing but tasks takes from it.                      *)
LEMMA ReserveNext ==
  ASSUME NEW only, Requests = {only}, Others \subseteq {"in"}, ReserveInv, [Next]_vars
  PROVE  ReserveInv'
<1>0. CardInv /\ CardInv'
  BY CardStep DEF ReserveInv
<1>t. /\ TypeInv /\ stock \in [Variants -> Nat]
      /\ request \in [Requests -> Request] /\ status \in [Tasks -> Statuses]
      /\ plan \in [Tasks -> Quantities]
  BY ReserveTypes
<1>w. OwnDraft /\ NoTaskYet /\ StockSeen
  BY DEF ReserveInv, CardInv
<1>i. Idle.step = "idle" /\ Idle.task = NoTask
  BY DEF Idle
<1>s. stock' = stock => \A v \in Variants : stock[v] <= stock'[v]
  BY <1>t
<1>f. ASSUME UNCHANGED <<stock, status, plan>>, request'[only] = Idle PROVE ReserveInv'
  <2>1. NoTaskYet' /\ StockSeen' /\ request'[only].step \notin Checked
    BY <1>f, <1>i DEF NoTaskYet, StockSeen, Checked
  <2>2. QED
    BY <1>0, <1>s, <1>f, <2>1, ReserveQuiet
<1>q. ASSUME NEW step \in {"editLoad", "editStock", "cancel", "ship", "shipping"},
             UNCHANGED <<stock, status, plan>>, request'[only].step = step
      PROVE  ReserveInv'
  <2>1. NoTaskYet' /\ StockSeen' /\ request'[only].step \notin Checked
    BY <1>q DEF NoTaskYet, StockSeen, Checked
  <2>2. QED
    BY <1>0, <1>s, <1>q, <2>1, ReserveQuiet
<1> USE DEF docs
<1>1. ASSUME Create(only) PROVE ReserveInv'
  <2>1. CASE CreateStock(only)
    <3>1. /\ request'[only].step = "newReserve" /\ request'[only].task = request[only].task
          /\ request'[only].free = stock /\ UNCHANGED <<stock, status, plan>>
          /\ request[only].step = "idle"
      BY <2>1, <1>t DEF CreateStock, ReadStock, At
    <3>2. NoTaskYet'
      BY <3>1, <1>w DEF NoTaskYet
    <3>3. StockSeen' /\ request'[only].step \notin Checked
      BY <3>1, <1>t DEF StockSeen, Checked
    <3>4. QED
      BY <1>0, <1>s, <3>1, <3>2, <3>3, ReserveQuiet
  <2>2. CASE CreateCheck(only)
    BY <2>2, <1>0, ReserveCheck DEF CreateCheck, At
  <2>3. CASE CreateLines(only)
    <3> DEFINE t == request[only].task
    <3>1. t \in Tasks /\ status[t] = "draft" /\ request[only].step = "newLines"
      BY <2>3, <1>t, <1>w DEF CreateLines, At, TypeInv, Placed, OwnDraft
    <3>2. \A u \in Tasks \ {t} : plan'[u] = plan[u]
      BY <2>3, <1>t, InsertOthers DEF CreateLines, TypeInv
    <3>3. UNCHANGED <<stock, status>> /\ InsertLines(t, request[only].want)
      BY <2>3 DEF CreateLines
    <3>4. request'[only] = Idle \/ request'[only].step = "newUndo"
      BY <2>3, <1>t DEF CreateLines, Finish, Goto
    <3>5. ASSUME NEW v \in Variants
          PROVE  plan'[t][v] <= plan[t][v] \/ plan'[t][v] <= request[only].want[v]
      <4>1. plan'[t][v] = plan[t][v] \/ plan'[t][v] = request[only].want[v]
        BY <1>t, <3>1, <3>3 DEF InsertLines
      <4>2. plan[t][v] \in Nat /\ request[only].want[v] \in Nat
        BY <1>t, <3>1, MaxQtyIsNat DEF Quantities, Request
      <4>3. QED
        BY <4>1, <4>2
    <3> HIDE DEF t
    <3>6. QED
      BY <3>1, <3>2, <3>3, <3>4, <3>5, <1>0, ReserveWrite DEF Checked, t
  <2>4. CASE CreateUndo(only)
    <3> DEFINE t == request[only].task
    <3>1. t \in Tasks /\ status[t] = "draft"
      BY <2>4, <1>t, <1>w DEF CreateUndo, At, TypeInv, Placed, OwnDraft
    <3>2. /\ status'[t] = "gone" /\ stock' = stock
          /\ request'[only] = Idle
          /\ \A u \in Tasks \ {t} : status'[u] = status[u] /\ plan'[u] = plan[u]
      BY <2>4, <3>1, <1>t DEF CreateUndo, Finish
    <3> HIDE DEF t
    <3>3. QED
      BY <3>1, <3>2, <1>0, ReserveWrite
  <2>5. ASSUME NEW t \in Tasks, CreateDoc(only, t) PROVE ReserveInv'
    BY <2>5, <1>0, ReserveCreated
  <2>6. QED
    BY <1>1, <2>1, <2>2, <2>3, <2>4, <2>5 DEF Create
<1>2. ASSUME Edit(only) PROVE ReserveInv'
  <2>1. CASE EditLoad(only)
    BY <2>1, <1>t, <1>q DEF EditLoad
  <2>2. CASE EditStock(only)
    <3>1. /\ request'[only].step = "editReserve" /\ request'[only].free = stock
          /\ UNCHANGED <<stock, status, plan>>
      BY <2>2, <1>t DEF EditStock, ReadStock
    <3>2. NoTaskYet' /\ StockSeen' /\ request'[only].step \notin Checked
      BY <3>1, <1>t DEF NoTaskYet, StockSeen, Checked
    <3>3. QED
      BY <1>0, <1>s, <3>1, <3>2, ReserveQuiet
  <2>3. CASE EditCheck(only)
    BY <2>3, <1>0, ReserveCheck DEF EditCheck, At
  <2>4. CASE EditDelete(only)
    <3> DEFINE t == request[only].task
    <3>1. t \in Tasks /\ status[t] = "draft" /\ request[only].step = "editDelete"
      BY <2>4, <1>t, <1>w DEF EditDelete, At, TypeInv, Placed, OwnDraft
    <3>2. /\ UNCHANGED <<stock, status>>
          /\ request'[only].step = "editUpdate" /\ request'[only].task = t
          /\ request'[only].want = request[only].want
          /\ \A u \in Tasks \ {t} : plan'[u] = plan[u]
      BY <2>4, <3>1, <1>t DEF EditDelete, Goto
    <3>3. ASSUME NEW v \in Variants PROVE plan'[t][v] <= plan[t][v]
      <4>1. plan'[t][v] = plan[t][v] \/ plan'[t][v] = 0
        BY <1>t, <2>4, <3>1 DEF EditDelete
      <4>2. plan[t][v] \in Nat
        BY <1>t, <3>1, MaxQtyIsNat DEF Quantities
      <4>3. QED
        BY <4>1, <4>2
    <3> HIDE DEF t
    <3>4. QED
      BY <3>1, <3>2, <3>3, <1>0, ReserveWrite DEF Checked, t
  <2>5. CASE EditInsert(only)
    <3> DEFINE t == request[only].task
               new == [v \in Variants |-> IF request[only].seen[v] = 0
                                          THEN request[only].want[v] ELSE 0]
    <3>1. t \in Tasks /\ status[t] = "draft" /\ request[only].step = "editUpdate"
      BY <2>5, <1>t, <1>w DEF EditInsert, At, TypeInv, Placed, OwnDraft
    <3>2. \A u \in Tasks \ {t} : plan'[u] = plan[u]
      BY <2>5, <1>t, InsertOthers DEF EditInsert, TypeInv
    <3>3. UNCHANGED <<stock, status>> /\ request'[only] = Idle
      BY <2>5, <1>t DEF EditInsert, Finish
    <3>4. ASSUME NEW v \in Variants
          PROVE  plan'[t][v] <= plan[t][v] \/ plan'[t][v] <= request[only].want[v]
      <4>1. plan' = plan \/ InsertLines(t, new)
        BY <2>5 DEF EditInsert
      <4>2. plan[t][v] \in Nat /\ request[only].want[v] \in Nat
        BY <1>t, <3>1, MaxQtyIsNat DEF Quantities, Request
      <4>3. InsertLines(t, new) => plan'[t][v] = IF new[v] > 0 THEN new[v] ELSE plan[t][v]
        BY <1>t, <3>1 DEF InsertLines
      <4>4. new[v] = request[only].want[v] \/ new[v] = 0
        OBVIOUS
      <4> HIDE DEF new
      <4>5. QED
        BY <4>1, <4>2, <4>3, <4>4
    <3> HIDE DEF t
    <3>5. QED
      BY <3>1, <3>2, <3>3, <3>4, <1>0, ReserveWrite DEF Checked, t
  <2>6. ASSUME NEW v \in Variants, EditUpdate(only, v) PROVE ReserveInv'
    <3> DEFINE t == request[only].task
    <3>1. t \in Tasks /\ status[t] = "draft" /\ request[only].step = "editUpdate"
      BY <2>6, <1>t, <1>w DEF EditUpdate, At, TypeInv, Placed, OwnDraft
    <3>2. /\ UNCHANGED <<stock, status>>
          /\ request'[only].step = "editUpdate" /\ request'[only].task = t
          /\ request'[only].want = request[only].want
      BY <2>6, <1>t DEF EditUpdate
    <3>3. \A u \in Tasks \ {t} : plan'[u] = plan[u]
      BY <2>6, <3>1, <1>t DEF EditUpdate
    <3>4. ASSUME NEW w \in Variants
          PROVE  plan'[t][w] <= plan[t][w] \/ plan'[t][w] <= request[only].want[w]
      <4>1. plan'[t][w] = plan[t][w] \/ plan'[t][w] = request[only].want[w]
        BY <1>t, <2>6, <3>1 DEF EditUpdate
      <4>2. plan[t][w] \in Nat /\ request[only].want[w] \in Nat
        BY <1>t, <3>1, MaxQtyIsNat DEF Quantities, Request
      <4>3. QED
        BY <4>1, <4>2
    <3> HIDE DEF t
    <3>5. QED
      BY <3>1, <3>2, <3>3, <3>4, <1>0, ReserveWrite DEF Checked, t
  <2>7. ASSUME NEW t \in Tasks, EditClaim(only, t) PROVE ReserveInv'
    BY <2>7, <1>t, <1>q DEF EditClaim, Open
  <2>8. QED
    BY <1>2, <2>1, <2>2, <2>3, <2>4, <2>5, <2>6, <2>7 DEF Edit
<1>3. ASSUME Cancel(only) PROVE ReserveInv'
  <2>1. CASE CancelWrite(only)
    <3> DEFINE t == request[only].task
    <3>1. t \in Tasks /\ status[t] = "draft"
      BY <2>1, <1>t, <1>w DEF CancelWrite, At, TypeInv, Placed, OwnDraft
    <3>2. /\ status'[t] = "cancelled" /\ UNCHANGED <<plan, stock>>
          /\ request'[only] = Idle
          /\ \A u \in Tasks \ {t} : status'[u] = status[u]
      BY <2>1, <3>1, <1>t DEF CancelWrite, Finish
    <3> HIDE DEF t
    <3>3. QED
      BY <3>1, <3>2, <1>0, ReserveWrite
  <2>2. ASSUME NEW t \in Tasks, CancelRead(only, t) PROVE ReserveInv'
    BY <2>2, <1>t, <1>q DEF CancelRead, Open
  <2>3. QED
    BY <1>3, <2>1, <2>2 DEF Cancel
<1>4. ASSUME Ship(only) PROVE ReserveInv'
  <2>1. CASE ShipLock(only)
    BY <2>1, <1>t, <1>q DEF ShipLock
  <2>2. CASE ShipPost(only)
    BY <2>2, <1>0, ReserveShipped
  <2>3. ASSUME NEW t \in Tasks, ShipRead(only, t) PROVE ReserveInv'
    BY <2>3, <1>t, <1>q DEF ShipRead, Open
  <2>4. QED
    BY <1>4, <2>1, <2>2, <2>3 DEF Ship
<1>5. ASSUME GiveUp(only) PROVE ReserveInv'
  BY <1>5, <1>t, <1>f DEF GiveUp, Finish
<1>6. ASSUME NEW v \in Variants, OtherMove(v) PROVE ReserveInv'
  <2>1. UNCHANGED <<status, plan, request>>
    BY <1>6 DEF OtherMove
  <2>2. stock' = [stock EXCEPT ![v] = @ + 1]
    BY <1>6 DEF OtherMove
  <2>3. \A w \in Variants : stock[w] <= stock'[w] /\ stock[w] \in Int /\ stock'[w] \in Int
    BY <1>t, <2>2
  <2>4. \A w \in Variants : request[only].free[w] \in Int
    BY <1>t DEF Request
  <2>5. NoTaskYet' /\ StockSeen'
    BY <1>w, <2>1, <2>3, <2>4 DEF NoTaskYet, StockSeen
  <2>6. QED
    BY <1>0, <2>1, <2>3, <2>5, ReserveQuiet
<1>7. CASE UNCHANGED vars
  <2>1. UNCHANGED <<stock, status, plan, request>> /\ NoTaskYet' /\ StockSeen'
    BY <1>7, <1>w DEF vars, NoTaskYet, StockSeen
  <2>2. QED
    BY <1>0, <1>s, <2>1, ReserveQuiet
<1>8. QED
  BY <1>1, <1>2, <1>3, <1>4, <1>5, <1>6, <1>7 DEF Next

(* Two tasks for the same ten pieces cannot both be created: while         *)
(* requests do not overlap and nothing but tasks takes from the stock, the *)
(* drafts together never hold more of a size than the warehouse has.       *)
THEOREM ReserveCorrect ==
  ASSUME NEW only, Requests = {only}, Others \subseteq {"in"}
  PROVE  Spec => []ReserveWithinStock
<1>1. Init => ReserveInv
  <2> SUFFICES ASSUME Init PROVE ReserveInv
    OBVIOUS
  <2>1. CardInv
    BY CardInit
  <2>2. TypeInv
    BY <2>1 DEF CardInv, ShipInv
  <2>3. DraftsFit
    <3> SUFFICES ASSUME NEW v \in Variants PROVE ReserveOf(v, NoTask, status, plan) <= stock[v]
      BY DEF DraftsFit
    <3>1. {u \in Tasks \ {NoTask} : status[u] = "draft"} = {}
      BY DEF Init
    <3>2. [t \in {u \in Tasks \ {NoTask} : status[u] = "draft"} |-> plan[t][v]] = [t \in {} |-> 0]
      BY <3>1
    <3>3. DOMAIN [t \in {} |-> 0] = {}
      OBVIOUS
    <3>4. ReserveOf(v, NoTask, status, plan) = SumFunctionOnSet([t \in {} |-> 0], {})
      BY <3>2, <3>3, Zenon DEF ReserveOf, SumFunction
    <3>5. stock[v] \in Nat
      BY <2>2 DEF TypeInv, TypeOK
    <3>6. QED
      BY <3>4, <3>5, SumEmpty
  <2>4. NotCreated /\ NoTaskYet /\ StockSeen /\ WantFits
    BY DEF Init, NotCreated, NoTaskYet, StockSeen, WantFits, Checked, Idle
  <2>5. QED
    BY <2>1, <2>3, <2>4 DEF ReserveInv
<1>2. ReserveInv /\ [Next]_vars => ReserveInv'
  BY ReserveNext
<1>3. ReserveInv => ReserveWithinStock
  BY ReserveIs DEF ReserveInv, DraftsFit, ReserveWithinStock
<1>4. QED
  BY <1>1, <1>2, <1>3, PTL DEF Spec

-----------------------------------------------------------------------------
(* Requests that overlap, and other documents that take from the stock: a  *)
(* request oversubscribes the stock only when its numbers were made worse. *)

(* The reserve does not grow when no draft holds more than it did and the  *)
(* documents that became drafts hold nothing.                              *)
LEMMA ReserveFalls ==
  ASSUME NEW st, NEW pl \in [Tasks -> Quantities], NEW st2, NEW pl2 \in [Tasks -> Quantities],
         NEW e, NEW v \in Variants,
         \A u \in Tasks \ {e} : st2[u] = "draft" =>
             pl2[u][v] = 0 \/ (st[u] = "draft" /\ pl2[u][v] <= pl[u][v])
  PROVE  ReserveOf(v, e, st2, pl2) <= ReserveOf(v, e, st, pl)
<1> DEFINE S  == {u \in Tasks \ {e} : st[u] = "draft"}
           S2 == {u \in Tasks \ {e} : st2[u] = "draft"}
           g  == [u \in Tasks |-> pl[u][v]]
           g2 == [u \in Tasks |-> pl2[u][v]]
           f  == [u \in S |-> pl[u][v]]
           f2 == [u \in S2 |-> pl2[u][v]]
<1>1. \A u \in Tasks : g[u] \in Nat /\ g2[u] \in Nat
  BY MaxQtyIsNat DEF Quantities
<1>2. /\ IsFiniteSet(S) /\ IsFiniteSet(S2) /\ IsFiniteSet(S \cap S2)
      /\ IsFiniteSet(S \ S2) /\ IsFiniteSet(S2 \ S)
  BY TasksAreFinite, FS_Subset
<1>3. ReserveOf(v, e, st, pl) = SumFunctionOnSet(g, S)
  <2>1. DOMAIN f = S /\ \A u \in S : f[u] = g[u]
    OBVIOUS
  <2>2. ReserveOf(v, e, st, pl) = SumFunction(f)
    BY Zenon DEF ReserveOf
  <2> HIDE DEF f, g, S
  <2>3. QED
    BY <1>2, <2>1, <2>2, SumSame DEF SumFunction
<1>4. ReserveOf(v, e, st2, pl2) = SumFunctionOnSet(g2, S2)
  <2>1. DOMAIN f2 = S2 /\ \A u \in S2 : f2[u] = g2[u]
    OBVIOUS
  <2>2. ReserveOf(v, e, st2, pl2) = SumFunction(f2)
    BY Zenon DEF ReserveOf
  <2> HIDE DEF f2, g2, S2
  <2>3. QED
    BY <1>2, <2>1, <2>2, SumSame DEF SumFunction
<1>5. \A u \in S2 \ S : g2[u] = 0
  OBVIOUS
<1>6. \A u \in S \cap S2 : g2[u] <= g[u]
  <2>1. \A u \in S \cap S2 : pl2[u][v] = 0 \/ pl2[u][v] <= pl[u][v]
    OBVIOUS
  <2>2. QED
    BY <1>1, <2>1
<1>7. S \subseteq Tasks /\ S2 \subseteq Tasks
  OBVIOUS
<1> HIDE DEF S, S2, g, g2, f, f2
<1>8. /\ S = (S \cap S2) \cup (S \ S2) /\ (S \cap S2) \cap (S \ S2) = {}
      /\ S2 = (S \cap S2) \cup (S2 \ S) /\ (S \cap S2) \cap (S2 \ S) = {}
  OBVIOUS
<1>9. SumFunctionOnSet(g, S) = SumFunctionOnSet(g, S \cap S2) + SumFunctionOnSet(g, S \ S2)
  <2>1. \A x \in (S \cap S2) \cup (S \ S2) : g[x] \in Int
    BY <1>1, <1>7
  <2>2. SumFunctionOnSet(g, (S \cap S2) \cup (S \ S2))
          = SumFunctionOnSet(g, S \cap S2) + SumFunctionOnSet(g, S \ S2)
    BY <1>2, <1>8, <2>1, SumUnion
  <2>3. QED
    BY <1>8, <2>2
<1>10. SumFunctionOnSet(g2, S2) = SumFunctionOnSet(g2, S \cap S2) + SumFunctionOnSet(g2, S2 \ S)
  <2>1. \A x \in (S \cap S2) \cup (S2 \ S) : g2[x] \in Int
    BY <1>1, <1>7
  <2>2. SumFunctionOnSet(g2, (S \cap S2) \cup (S2 \ S))
          = SumFunctionOnSet(g2, S \cap S2) + SumFunctionOnSet(g2, S2 \ S)
    BY <1>2, <1>8, <2>1, SumUnion
  <2>3. QED
    BY <1>8, <2>2
<1>11. SumFunctionOnSet(g2, S2 \ S) = 0
  BY <1>2, <1>5, SumZero
<1>12. SumFunctionOnSet(g2, S \cap S2) <= SumFunctionOnSet(g, S \cap S2)
  <2>1. \A u \in S \cap S2 : g2[u] \in Int /\ g[u] \in Int /\ g2[u] <= g[u]
    BY <1>1, <1>6, <1>7
  <2>2. QED
    BY <1>2, <2>1, SumLeq
<1>13. /\ SumFunctionOnSet(g, S \ S2) \in Nat /\ SumFunctionOnSet(g, S \cap S2) \in Nat
       /\ SumFunctionOnSet(g2, S \cap S2) \in Nat
  BY <1>1, <1>2, <1>7, SumNat
<1>14. QED
  BY <1>3, <1>4, <1>9, <1>10, <1>11, <1>12, <1>13

(* A request knows its document, which exists; unless it was overtaken,    *)
(* the stock it read is there, and what it asks for is left by the other   *)
(* drafts.  Only the sizes it asks for: with several requests under way    *)
(* the drafts may hold too much of the others.                             *)
Stands(r) ==
    /\ request[r].step \in {"idle", "newReserve", "newDoc"} => request[r].task = NoTask
    /\ request[r].step \notin {"idle", "newReserve", "newDoc"} =>
           status[request[r].task] # "none"
    /\ r \notin overtaken => \A v \in Variants :
           /\ request[r].step \in {"newReserve", "editReserve"} =>
                  request[r].free[v] <= stock[v]
           /\ request[r].step \in Checked /\ request[r].want[v] > 0 =>
                  request[r].want[v] + ReserveOf(v, request[r].task, status, plan) <= stock[v]

StandsInv == TypeInv /\ NotCreated /\ \A r \in Requests : Stands(r)

(* What no step does to a request that is not taking it: spoil its numbers *)
(* without marking it, or make a draft of lines it has not seen.           *)
Orderly(actors) ==
    /\ \A q \in Requests \ actors : request'[q] = request[q]
    /\ (overtaken \cup Lowered \cup Raised) \ actors \subseteq overtaken'
    /\ \A t \in Tasks :
           /\ status[t] # "none" => status'[t] # "none"
           /\ status'[t] = "draft" => status[t] = "draft" \/ plan'[t] = Nothing

LEMMA BystanderStands ==
  ASSUME StandsInv, TypeInv', NEW actors, Orderly(actors), NEW q \in Requests \ actors
  PROVE  Stands(q)'
<1> DEFINE t == request[q].task
<1>1. /\ request \in [Requests -> Request] /\ plan \in [Tasks -> Quantities]
      /\ plan' \in [Tasks -> Quantities] /\ stock \in [Variants -> Nat]
      /\ stock' \in [Variants -> Nat]
  BY DEF StandsInv, TypeInv, TypeOK
<1>2. request'[q] = request[q]
  BY DEF Orderly
<1>3. /\ t \in Tasks \cup {NoTask}
      /\ request[q].step \notin {"idle", "newReserve", "newDoc"} => t \in Tasks
      /\ Stands(q)
  BY <1>1 DEF StandsInv, TypeInv, Placed, Request
<1>4. request[q].step \notin {"idle", "newReserve", "newDoc"} => status'[t] # "none"
  BY <1>3 DEF Orderly, Stands
<1>5. ASSUME q \notin overtaken', NEW v \in Variants, request[q].step \in Measured
      PROVE  q \notin overtaken /\ stock[v] <= stock'[v]
  <2>1. q \notin overtaken /\ q \notin Lowered
    BY <1>5 DEF Orderly
  <2>2. ~(stock'[v] < stock[v])
    BY <1>5, <2>1 DEF Lowered
  <2>3. stock[v] \in Nat /\ stock'[v] \in Nat
    BY <1>1
  <2>4. QED
    BY <2>1, <2>2, <2>3
<1>6. ASSUME q \notin overtaken', NEW v \in Variants,
             request[q].step \in {"newReserve", "editReserve"}
      PROVE  request[q].free[v] <= stock'[v]
  <2>1. request[q].free[v] <= stock[v] /\ stock[v] <= stock'[v]
    BY <1>3, <1>5, <1>6 DEF Stands, Measured
  <2>2. request[q].free[v] \in Int /\ stock[v] \in Int /\ stock'[v] \in Int
    BY <1>1 DEF Request
  <2>3. QED
    BY <2>1, <2>2
<1>7. ASSUME q \notin overtaken', NEW v \in Variants, request[q].step \in Checked,
             request[q].want[v] > 0
      PROVE  request[q].want[v] + ReserveOf(v, t, status', plan') <= stock'[v]
  <2>1. q \notin overtaken /\ stock[v] <= stock'[v]
    BY <1>5, <1>7 DEF Measured
  <2>2. q \notin Raised
    BY <1>7 DEF Orderly
  <2>3. ASSUME NEW u \in Tasks \ {t}, status'[u] = "draft"
        PROVE  plan'[u][v] = 0 \/ (status[u] = "draft" /\ plan'[u][v] <= plan[u][v])
    <3>1. CASE plan'[u] = Nothing
      BY <3>1 DEF Nothing
    <3>2. CASE status[u] = "draft"
      <4>1. u \in Drafts(t)
        BY <2>3, <3>2 DEF Drafts
      <4>2. ~(plan'[u][v] > plan[u][v])
        BY <1>7, <2>2, <4>1 DEF Raised
      <4>3. plan'[u][v] \in Nat /\ plan[u][v] \in Nat
        BY <1>1, MaxQtyIsNat DEF Quantities
      <4>4. QED
        BY <3>2, <4>2, <4>3
    <3>3. QED
      BY <2>3, <3>1, <3>2 DEF Orderly
  <2>4. ReserveOf(v, t, status', plan') <= ReserveOf(v, t, status, plan)
    <3> HIDE DEF t
    <3>1. QED
      BY <1>1, <2>3, ReserveFalls
  <2>5. request[q].want[v] + ReserveOf(v, t, status, plan) <= stock[v]
    BY <1>3, <1>7, <2>1 DEF Stands
  <2>6. /\ ReserveOf(v, t, status, plan) \in Nat /\ ReserveOf(v, t, status', plan') \in Nat
        /\ request[q].want[v] \in Nat /\ stock[v] \in Nat /\ stock'[v] \in Nat
    <3> HIDE DEF t
    <3>2. ReserveOf(v, t, status, plan) \in Nat
      BY <1>1, <1>3, ReserveTyped
    <3>3. ReserveOf(v, t, status', plan') \in Nat
      BY <1>1, <1>3, ReserveTyped
    <3>4. QED
      BY <1>1, <3>2, <3>3, MaxQtyIsNat DEF Request, Quantities
  <2> HIDE DEF t
  <2>7. QED
    BY <2>1, <2>4, <2>5, <2>6
<1>8. QED
  BY <1>2, <1>3, <1>4, <1>6, <1>7 DEF Stands

(* Only the request that takes a step moves on.                            *)
LEMMA OnlyActor ==
  ASSUME TypeInv, NEW r \in Requests,
         Create(r) \/ Edit(r) \/ Cancel(r) \/ Ship(r) \/ GiveUp(r)
  PROVE  \A q \in Requests \ {r} : request'[q] = request[q]
<1>1. request \in [Requests -> Request]
  BY DEF TypeInv, TypeOK
<1>2. CASE Create(r)
  BY <1>1, <1>2 DEF Create, CreateStock, CreateCheck, CreateLines, CreateUndo, CreateDoc,
                    ReadStock, Check, Finish, Goto
<1>3. CASE Edit(r)
  BY <1>1, <1>3 DEF Edit, EditLoad, EditStock, EditCheck, EditDelete, EditInsert, EditUpdate,
                    EditClaim, ReadStock, Check, Finish, Goto, Open
<1>4. CASE Cancel(r)
  BY <1>1, <1>4 DEF Cancel, CancelWrite, CancelRead, Finish, Open
<1>5. CASE Ship(r)
  BY <1>1, <1>5 DEF Ship, ShipLock, ShipPost, ShipRead, Finish, Open
<1>6. CASE GiveUp(r)
  BY <1>1, <1>6 DEF GiveUp, Finish
<1>7. QED
  BY <1>2, <1>3, <1>4, <1>5, <1>6

(* When the stock does not fall and no plan rises, no numbers get worse.   *)
LEMMA NothingWorse ==
  ASSUME TypeInv, TypeInv',
         \A v \in Variants : stock[v] <= stock'[v],
         \A t \in Tasks : \A v \in Variants : plan'[t][v] <= plan[t][v]
  PROVE  Lowered = {} /\ Raised = {}
<1>1. \A v \in Variants : stock[v] \in Int /\ stock'[v] \in Int
  BY DEF TypeInv, TypeOK
<1>2. \A t \in Tasks : \A v \in Variants : plan[t][v] \in Int /\ plan'[t][v] \in Int
  BY MaxQtyIsNat DEF TypeInv, TypeOK, Quantities
<1>3. \A v \in Variants : ~(stock'[v] < stock[v])
  BY <1>1
<1>4. \A t \in Tasks : \A v \in Variants : ~(plan'[t][v] > plan[t][v])
  BY <1>2
<1>5. QED
  BY <1>3, <1>4 DEF Lowered, Raised, Drafts

(* A step that touches no document and takes nothing from the stock.       *)
LEMMA QuietStands ==
  ASSUME StandsInv, TypeInv', NEW r \in Requests,
         UNCHANGED <<stock, status, plan>>, overtaken \ {r} \subseteq overtaken',
         \A q \in Requests \ {r} : request'[q] = request[q],
         Stands(r)'
  PROVE  StandsInv'
<1>1. /\ stock \in [Variants -> Nat] /\ plan \in [Tasks -> Quantities]
  BY DEF StandsInv, TypeInv, TypeOK
<1>2. Lowered = {} /\ Raised = {}
  <2>1. \A v \in Variants : stock[v] <= stock'[v]
    BY <1>1
  <2>2. \A t \in Tasks : \A v \in Variants : plan'[t][v] <= plan[t][v]
    BY <1>1, MaxQtyIsNat DEF Quantities
  <2>3. QED
    BY <2>1, <2>2, NothingWorse DEF StandsInv
<1>3. Orderly({r})
  BY <1>2 DEF Orderly
<1>4. NotCreated'
  BY DEF StandsInv, NotCreated
<1>5. QED
  BY <1>3, <1>4, BystanderStands DEF StandsInv

(* A step of a request that writes its own document: the request ends, or  *)
(* goes on with what it asked for and with the numbers it has.             *)
LEMMA WriteStands ==
  ASSUME StandsInv, TypeInv', NEW r \in Requests, NEW t \in Tasks,
         request[r].task = t, status[t] # "none", status'[t] # "none",
         status'[t] = "draft" => status[t] = "draft",
         \A u \in Tasks \ {t} : status'[u] = status[u] /\ plan'[u] = plan[u],
         \A q \in Requests \ {r} : request'[q] = request[q],
         (overtaken \cup Lowered \cup Raised) \ {r} \subseteq overtaken',
         \/ request'[r] = Idle
         \/ request'[r].step = "newUndo" /\ request'[r].task = t
         \/ /\ request[r].step \in Checked /\ request'[r].step = "editUpdate"
            /\ request'[r].task = t /\ request'[r].want = request[r].want
            /\ stock' = stock /\ (r \in overtaken => r \in overtaken')
  PROVE  StandsInv'
<1>1. NotCreated'
  BY DEF StandsInv, NotCreated
<1>2. Orderly({r})
  BY DEF Orderly
<1>3. CASE \/ request'[r] = Idle
           \/ request'[r].step = "newUndo" /\ request'[r].task = t
  <2>1. Stands(r)'
    BY <1>3 DEF Stands, Idle, Checked
  <2>2. QED
    BY <1>1, <1>2, <2>1, BystanderStands DEF StandsInv
<1>4. CASE /\ request[r].step \in Checked /\ request'[r].step = "editUpdate"
           /\ request'[r].task = t /\ request'[r].want = request[r].want
           /\ stock' = stock /\ (r \in overtaken => r \in overtaken')
  <2>1. ASSUME r \notin overtaken', NEW v \in Variants, request'[r].want[v] > 0
        PROVE  request'[r].want[v] + ReserveOf(v, t, status', plan') <= stock'[v]
    <3>1. request[r].want[v] + ReserveOf(v, t, status, plan) <= stock[v]
      BY <1>4, <2>1 DEF StandsInv, Stands
    <3>2. ReserveOf(v, t, status', plan') = ReserveOf(v, t, status, plan)
      BY OthersReserve
    <3>3. QED
      BY <1>4, <3>1, <3>2
  <2>2. Stands(r)'
    BY <1>4, <2>1 DEF Stands
  <2>3. QED
    BY <1>1, <1>2, <2>2, BystanderStands DEF StandsInv
<1>5. QED
  BY <1>3, <1>4

(* Passing the check: what is asked for is left by the other drafts.       *)
LEMMA CheckStands ==
  ASSUME StandsInv, TypeInv', NEW r \in Requests, UNCHANGED <<stock, status, plan, overtaken>>,
         \/ request[r].step = "newReserve" /\ Check(r, "newDoc")
         \/ request[r].step = "editReserve" /\ Check(r, "editDelete")
  PROVE  StandsInv'
<1>0. /\ TypeInv /\ stock \in [Variants -> Nat] /\ request \in [Requests -> Request]
      /\ plan \in [Tasks -> Quantities]
  BY DEF StandsInv, TypeInv, TypeOK
<1> DEFINE t == request[r].task
<1>1. PICK want \in Quantities :
        /\ \A v \in Variants : want[v] > 0 =>
               want[v] <= request[r].free[v] - Reserved(v, Competing(t))
        /\ request'[r].want = want /\ request'[r].task = t
    BY <1>0 DEF Check
<1>2. /\ request'[r].step \in {"newDoc", "editDelete"}
      /\ (request'[r].step = "newDoc" => request[r].step = "newReserve")
      /\ (request'[r].step = "editDelete" => request[r].step = "editReserve")
  BY <1>0 DEF Check
<1>3. \A q \in Requests \ {r} : request'[q] = request[q]
  BY <1>0 DEF Check
<1>4. t \in Tasks \cup {NoTask} /\ request[r].free \in [Variants -> Int]
  BY <1>0 DEF Request
<1>5. ASSUME r \notin overtaken, NEW v \in Variants, want[v] > 0
      PROVE  want[v] + ReserveOf(v, t, status, plan) <= stock[v]
  <2> DEFINE rest == ReserveOf(v, t, status, plan)
             free == request[r].free[v]
  <2>1. rest \in Nat
    <3> HIDE DEF t
    <3>1. QED
      BY <1>0, <1>4, ReserveTyped
  <2>2. stock[v] \in Nat /\ free \in Int /\ want[v] \in Nat
    BY <1>0, <1>4, MaxQtyIsNat DEF Quantities
  <2>3. free <= stock[v]
    BY <1>5 DEF StandsInv, Stands
  <2>4. Reserved(v, Competing(t)) = rest
    BY ReserveIs, Zenon DEF Competing
  <2>5. want[v] <= free - rest
    BY <1>1, <1>5, <2>4
  <2> HIDE DEF rest, free
  <2>6. want[v] + rest <= stock[v]
    BY <2>1, <2>2, <2>3, <2>5
  <2>7. QED
    BY <2>6 DEF rest
<1>6. Stands(r)'
  <2>1. /\ request'[r].step = "newDoc" => request'[r].task = NoTask
        /\ request'[r].step = "editDelete" => status'[request'[r].task] # "none"
    BY <1>1, <1>2 DEF StandsInv, Stands
  <2> HIDE DEF t
  <2>2. ASSUME r \notin overtaken', NEW v \in Variants, request'[r].want[v] > 0
        PROVE  request'[r].want[v] + ReserveOf(v, request'[r].task, status', plan') <= stock'[v]
    BY <1>1, <1>5, <2>2
  <2>3. QED
    BY <1>2, <2>1, <2>2 DEF Stands
<1>7. QED
  BY <1>3, <1>6, QuietStands

(* A task that has just been created holds nothing yet.                    *)
LEMMA CreatedStands ==
  ASSUME StandsInv, TypeInv', NEW r \in Requests, NEW t \in Tasks, CreateDoc(r, t)
  PROVE  StandsInv'
<1>0. /\ TypeInv /\ request \in [Requests -> Request] /\ status \in [Tasks -> Statuses]
      /\ plan \in [Tasks -> Quantities] /\ stock \in [Variants -> Nat]
  BY DEF StandsInv, TypeInv, TypeOK
<1>1. /\ request[r].step = "newDoc" /\ request[r].task = NoTask
      /\ request'[r].step = "newLines" /\ request'[r].task = t
      /\ request'[r].want = request[r].want
      /\ \A q \in Requests \ {r} : request'[q] = request[q]
  BY <1>0 DEF CreateDoc, At, StandsInv, Stands
<1>2. /\ status[t] = "none" /\ status'[t] = "draft" /\ UNCHANGED <<plan, stock, overtaken>>
      /\ \A u \in Tasks \ {t} : status'[u] = status[u] /\ plan'[u] = plan[u]
  BY <1>0 DEF CreateDoc
<1>3. plan[t] = Nothing /\ plan'[t] = Nothing
  BY <1>2 DEF StandsInv, NotCreated
<1>4. Lowered = {} /\ Raised = {}
  <2>1. \A v \in Variants : stock[v] <= stock'[v]
    BY <1>0, <1>2
  <2>2. \A u \in Tasks : \A v \in Variants : plan'[u][v] <= plan[u][v]
    BY <1>0, <1>2, MaxQtyIsNat DEF Quantities
  <2>3. QED
    BY <1>0, <2>1, <2>2, NothingWorse
<1>5. Orderly({r})
  BY <1>1, <1>2, <1>3, <1>4 DEF Orderly
<1>6. ASSUME r \notin overtaken', NEW v \in Variants, request'[r].want[v] > 0
      PROVE  request'[r].want[v] + ReserveOf(v, t, status', plan') <= stock'[v]
  <2>1. request[r].want[v] + ReserveOf(v, NoTask, status, plan) <= stock[v]
    BY <1>1, <1>2, <1>6 DEF StandsInv, Stands, Checked
  <2>2. /\ ReserveOf(v, t, status, plan) \in Nat
        /\ ReserveOf(v, t, status', plan') = ReserveOf(v, t, status, plan)
        /\ ReserveOf(v, NoTask, status, plan) = ReserveOf(v, t, status, plan)
                + (IF status[t] = "draft" THEN plan[t][v] ELSE 0)
    BY <1>0, <1>2, ReserveStep
  <2>3. QED
    BY <1>1, <1>2, <2>1, <2>2
<1>7. Stands(r)'
  BY <1>1, <1>2, <1>6 DEF Stands
<1>8. NotCreated'
  BY <1>2 DEF StandsInv, NotCreated
<1>9. QED
  BY <1>5, <1>7, <1>8, BystanderStands DEF StandsInv

(* Every step of every request keeps what the requests under way rely on.  *)
LEMMA StandsStep ==
  ASSUME StandsInv, [Next]_vars
  PROVE  StandsInv'
<1>0. TypeInv /\ TypeInv'
  BY TypeStep DEF StandsInv
<1>t. /\ request \in [Requests -> Request] /\ status \in [Tasks -> Statuses]
      /\ plan \in [Tasks -> Quantities] /\ stock \in [Variants -> Nat]
  BY <1>0 DEF TypeInv, TypeOK
<1>i. Idle.step = "idle" /\ Idle.task = NoTask
  BY DEF Idle
<1>p. ASSUME NEW r \in Requests, request[r].step \notin {"idle", "newReserve", "newDoc"}
      PROVE  request[r].task \in Tasks /\ status[request[r].task] # "none"
  BY <1>0, <1>p DEF TypeInv, Placed, StandsInv, Stands
<1>f. ASSUME NEW r \in Requests, UNCHANGED <<stock, status, plan>>,
             request' = [request EXCEPT ![r] = Idle], overtaken \ {r} \subseteq overtaken'
      PROVE  StandsInv'
  <2>1. request'[r] = Idle /\ \A q \in Requests \ {r} : request'[q] = request[q]
    BY <1>t, <1>f
  <2>2. Stands(r)'
    BY <1>i, <2>1 DEF Stands, Checked
  <2>3. QED
    BY <1>0, <1>f, <2>1, <2>2, QuietStands
<1>q. ASSUME NEW r \in Requests, NEW step \in {"editLoad", "editStock", "cancel", "ship", "shipping"},
             NEW t \in Tasks, status[t] # "none",
             UNCHANGED <<stock, status, plan, overtaken>>,
             request'[r].step = step, request'[r].task = t,
             \A q \in Requests \ {r} : request'[q] = request[q]
      PROVE  StandsInv'
  <2>1. Stands(r)'
    BY <1>q DEF Stands, Checked
  <2>2. QED
    BY <1>0, <1>q, <2>1, QuietStands
<1> USE DEF docs
<1>1. ASSUME NEW r \in Requests, Create(r) PROVE StandsInv'
  <2>0. \A q \in Requests \ {r} : request'[q] = request[q]
    BY <1>0, <1>1, OnlyActor
  <2>1. CASE CreateStock(r)
    <3>1. /\ request'[r].step = "newReserve" /\ request'[r].task = request[r].task
          /\ request'[r].free = stock /\ UNCHANGED <<stock, status, plan, overtaken>>
          /\ request[r].step = "idle"
      BY <2>1, <1>t DEF CreateStock, ReadStock, At
    <3>2. request'[r].task = NoTask
      BY <3>1 DEF StandsInv, Stands
    <3>3. Stands(r)'
      BY <3>1, <3>2, <1>t DEF Stands, Checked
    <3>4. QED
      BY <1>0, <2>0, <3>1, <3>3, QuietStands
  <2>2. CASE CreateCheck(r)
    BY <2>2, <1>0, CheckStands DEF CreateCheck, At
  <2>3. CASE CreateLines(r)
    <3> DEFINE t == request[r].task
    <3>1. t \in Tasks /\ status[t] # "none"
      BY <2>3, <1>p DEF CreateLines, At
    <3>2. \A u \in Tasks \ {t} : plan'[u] = plan[u]
      BY <2>3, <3>1, <1>0, InsertOthers DEF CreateLines, TypeInv
    <3>3. UNCHANGED <<stock, status>> /\ overtaken' = (overtaken \ {r}) \cup Raised
      BY <2>3 DEF CreateLines
    <3>4. request'[r] = Idle \/ (request'[r].step = "newUndo" /\ request'[r].task = t)
      BY <2>3, <1>t DEF CreateLines, Finish, Goto
    <3>5. Lowered = {}
      BY <3>3, <1>t DEF Lowered
    <3> HIDE DEF t
    <3>6. QED
      BY <1>0, <2>0, <3>1, <3>2, <3>3, <3>4, <3>5, WriteStands DEF t
  <2>4. CASE CreateUndo(r)
    <3> DEFINE t == request[r].task
    <3>1. t \in Tasks /\ status[t] # "none"
      BY <2>4, <1>p DEF CreateUndo, At
    <3>2. /\ status'[t] = "gone" /\ stock' = stock /\ overtaken' = overtaken \ {r}
          /\ request'[r] = Idle /\ plan'[t] = Nothing
          /\ \A u \in Tasks \ {t} : status'[u] = status[u] /\ plan'[u] = plan[u]
      BY <2>4, <3>1, <1>t DEF CreateUndo, Finish
    <3>3. \A u \in Tasks : \A v \in Variants : plan'[u][v] <= plan[u][v]
      BY <3>2, <1>t, MaxQtyIsNat DEF Quantities, Nothing
    <3>4. Lowered = {} /\ Raised = {}
      BY <3>2, <3>3, <1>0, <1>t, NothingWorse
    <3> HIDE DEF t
    <3>5. QED
      BY <1>0, <2>0, <3>1, <3>2, <3>4, WriteStands DEF t
  <2>5. ASSUME NEW t \in Tasks, CreateDoc(r, t) PROVE StandsInv'
    BY <2>5, <1>0, CreatedStands
  <2>6. QED
    BY <1>1, <2>1, <2>2, <2>3, <2>4, <2>5 DEF Create
<1>2. ASSUME NEW r \in Requests, Edit(r) PROVE StandsInv'
  <2>0. \A q \in Requests \ {r} : request'[q] = request[q]
    BY <1>0, <1>2, OnlyActor
  <2>1. CASE EditLoad(r)
    BY <2>0, <2>1, <1>t, <1>p, <1>q DEF EditLoad, At
  <2>2. CASE EditStock(r)
    <3>1. /\ request'[r].step = "editReserve" /\ request'[r].free = stock
          /\ request'[r].task = request[r].task
          /\ UNCHANGED <<stock, status, plan, overtaken>>
      BY <2>2, <1>t DEF EditStock, ReadStock
    <3>2. status[request[r].task] # "none"
      BY <2>2, <1>p DEF EditStock, At
    <3>3. Stands(r)'
      BY <3>1, <3>2, <1>t DEF Stands, Checked
    <3>4. QED
      BY <1>0, <2>0, <3>1, <3>3, QuietStands
  <2>3. CASE EditCheck(r)
    BY <2>3, <1>0, CheckStands DEF EditCheck, At
  <2>4. CASE EditDelete(r)
    <3> DEFINE t == request[r].task
    <3>1. t \in Tasks /\ status[t] # "none" /\ request[r].step = "editDelete"
      BY <2>4, <1>p DEF EditDelete, At
    <3>2. /\ UNCHANGED <<stock, status, overtaken>>
          /\ request'[r].step = "editUpdate" /\ request'[r].task = t
          /\ request'[r].want = request[r].want
          /\ \A u \in Tasks \ {t} : plan'[u] = plan[u]
      BY <2>4, <3>1, <1>t DEF EditDelete, Goto
    <3>3. \A u \in Tasks : \A v \in Variants : plan'[u][v] <= plan[u][v]
      <4>1. ASSUME NEW u \in Tasks, NEW v \in Variants PROVE plan'[u][v] <= plan[u][v]
        <5>1. plan'[u][v] = plan[u][v] \/ plan'[u][v] = 0
          BY <1>t, <2>4, <3>1, <3>2 DEF EditDelete
        <5>2. plan[u][v] \in Nat
          BY <1>t, MaxQtyIsNat DEF Quantities
        <5>3. QED
          BY <5>1, <5>2
      <4>2. QED
        BY <4>1
    <3>4. Lowered = {} /\ Raised = {}
      BY <3>2, <3>3, <1>0, <1>t, NothingWorse
    <3> HIDE DEF t
    <3>5. QED
      BY <1>0, <2>0, <3>1, <3>2, <3>4, WriteStands DEF Checked, t
  <2>5. CASE EditInsert(r)
    <3> DEFINE t == request[r].task
    <3>1. t \in Tasks /\ status[t] # "none"
      BY <2>5, <1>p DEF EditInsert, At
    <3>2. \A u \in Tasks \ {t} : plan'[u] = plan[u]
      BY <2>5, <3>1, <1>0, InsertOthers DEF EditInsert, TypeInv
    <3>3. /\ UNCHANGED <<stock, status>> /\ request'[r] = Idle
          /\ overtaken' = (overtaken \ {r}) \cup Raised
      BY <2>5, <1>t DEF EditInsert, Finish
    <3>4. Lowered = {}
      BY <3>3, <1>t DEF Lowered
    <3> HIDE DEF t
    <3>5. QED
      BY <1>0, <2>0, <3>1, <3>2, <3>3, <3>4, WriteStands DEF t
  <2>6. ASSUME NEW v \in Variants, EditUpdate(r, v) PROVE StandsInv'
    <3> DEFINE t == request[r].task
    <3>1. t \in Tasks /\ status[t] # "none" /\ request[r].step = "editUpdate"
      BY <2>6, <1>p DEF EditUpdate, At
    <3>2. /\ UNCHANGED <<stock, status>> /\ overtaken' = overtaken \cup Raised
          /\ request'[r].step = "editUpdate" /\ request'[r].task = t
          /\ request'[r].want = request[r].want
      BY <2>6, <1>t DEF EditUpdate
    <3>3. \A u \in Tasks \ {t} : plan'[u] = plan[u]
      BY <2>6, <3>1, <1>t DEF EditUpdate
    <3>4. Lowered = {}
      BY <3>2, <1>t DEF Lowered
    <3> HIDE DEF t
    <3>5. QED
      BY <1>0, <2>0, <3>1, <3>2, <3>3, <3>4, WriteStands DEF Checked, t
  <2>7. ASSUME NEW t \in Tasks, EditClaim(r, t) PROVE StandsInv'
    BY <2>0, <2>7, <1>t, <1>q DEF EditClaim, Open, StillDraft
  <2>8. QED
    BY <1>2, <2>1, <2>2, <2>3, <2>4, <2>5, <2>6, <2>7 DEF Edit
<1>3. ASSUME NEW r \in Requests, Cancel(r) PROVE StandsInv'
  <2>0. \A q \in Requests \ {r} : request'[q] = request[q]
    BY <1>0, <1>3, OnlyActor
  <2>1. CASE CancelWrite(r)
    <3> DEFINE t == request[r].task
    <3>1. t \in Tasks /\ status[t] # "none"
      BY <2>1, <1>p DEF CancelWrite, At
    <3>2. /\ status'[t] = "cancelled" /\ UNCHANGED <<plan, stock, overtaken>>
          /\ request'[r] = Idle
          /\ \A u \in Tasks \ {t} : status'[u] = status[u]
      BY <2>1, <3>1, <1>t DEF CancelWrite, Finish
    <3>3. \A u \in Tasks : \A v \in Variants : plan'[u][v] <= plan[u][v]
      BY <3>2, <1>t, MaxQtyIsNat DEF Quantities
    <3>4. Lowered = {} /\ Raised = {}
      BY <3>2, <3>3, <1>0, <1>t, NothingWorse
    <3> HIDE DEF t
    <3>5. QED
      BY <1>0, <2>0, <3>1, <3>2, <3>4, WriteStands DEF t
  <2>2. ASSUME NEW t \in Tasks, CancelRead(r, t) PROVE StandsInv'
    BY <2>0, <2>2, <1>t, <1>q DEF CancelRead, Open
  <2>3. QED
    BY <1>3, <2>1, <2>2 DEF Cancel
<1>4. ASSUME NEW r \in Requests, Ship(r) PROVE StandsInv'
  <2>0. \A q \in Requests \ {r} : request'[q] = request[q]
    BY <1>0, <1>4, OnlyActor
  <2>1. CASE ShipLock(r)
    BY <2>0, <2>1, <1>t, <1>p, <1>q DEF ShipLock, At
  <2>2. CASE ShipPost(r)
    <3> DEFINE t == request[r].task
    <3>1. t \in Tasks /\ status[t] # "none"
      BY <2>2, <1>p DEF ShipPost, At
    <3>2. /\ status'[t] = "posted" /\ plan' = plan /\ overtaken' = overtaken \cup Lowered
          /\ request'[r] = Idle
          /\ \A u \in Tasks \ {t} : status'[u] = status[u]
      BY <2>2, <3>1, <1>t DEF ShipPost, Finish
    <3>3. Raised = {}
      <4>1. \A u \in Tasks : \A v \in Variants : ~(plan'[u][v] > plan[u][v])
        BY <3>2, <1>t, MaxQtyIsNat DEF Quantities
      <4>2. QED
        BY <4>1 DEF Raised, Drafts
    <3> HIDE DEF t
    <3>4. QED
      BY <1>0, <2>0, <3>1, <3>2, <3>3, WriteStands DEF t
  <2>3. ASSUME NEW t \in Tasks, ShipRead(r, t) PROVE StandsInv'
    BY <2>0, <2>3, <1>t, <1>q DEF ShipRead, Open
  <2>4. QED
    BY <1>4, <2>1, <2>2, <2>3 DEF Ship
<1>5. ASSUME NEW r \in Requests, GiveUp(r) PROVE StandsInv'
  BY <1>5, <1>f DEF GiveUp, Finish
<1>6. ASSUME NEW v \in Variants, OtherMove(v) PROVE StandsInv'
  <2>1. UNCHANGED <<status, plan, request>> /\ overtaken' = overtaken \cup Lowered
    BY <1>6 DEF OtherMove
  <2>2. Raised = {}
    <3>1. \A u \in Tasks : \A w \in Variants : ~(plan'[u][w] > plan[u][w])
      BY <2>1, <1>t, MaxQtyIsNat DEF Quantities
    <3>2. QED
      BY <3>1 DEF Raised, Drafts
  <2>3. Orderly({})
    BY <2>1, <2>2 DEF Orderly
  <2>4. NotCreated'
    BY <2>1 DEF StandsInv, NotCreated
  <2>5. QED
    BY <1>0, <2>3, <2>4, BystanderStands DEF StandsInv
<1>7. CASE UNCHANGED vars
  <2>1. UNCHANGED <<stock, status, plan, request, overtaken>>
    BY <1>7 DEF vars
  <2>2. NotCreated' /\ \A r \in Requests : Stands(r)'
    BY <2>1 DEF StandsInv, NotCreated, Stands, ReserveOf
  <2>3. QED
    BY <1>0, <2>2 DEF StandsInv
<1>8. QED
  BY <1>1, <1>2, <1>3, <1>4, <1>5, <1>6, <1>7 DEF Next

(* A request that writes what its check let through writes no more than    *)
(* the other drafts leave.                                                 *)
LEMMA WrittenFits ==
  ASSUME StandsInv, TypeInv', NEW r \in Requests \ overtaken, NEW t \in Tasks, NEW v \in Variants,
         request[r].task = t, request[r].step \in Checked, stock' = stock,
         \A u \in Tasks \ {t} : status'[u] = status[u] /\ plan'[u] = plan[u],
         request[r].want[v] > 0, plan'[t][v] = request[r].want[v]
  PROVE  Reserved(v, Drafts(NoTask))' <= stock'[v]
<1>1. /\ TypeInv /\ stock \in [Variants -> Nat] /\ request[r] \in Request
  BY DEF StandsInv, TypeInv, TypeOK
<1> DEFINE rest == ReserveOf(v, t, status, plan)
           want == request[r].want[v]
<1>2. want + rest <= stock[v]
  BY DEF StandsInv, Stands
<1>3. /\ rest \in Nat
      /\ ReserveOf(v, NoTask, status', plan') = rest + (IF status'[t] = "draft" THEN want ELSE 0)
  BY <1>1, ReserveStep
<1>4. want \in Nat /\ stock[v] \in Nat /\ stock'[v] = stock[v]
  BY <1>1, MaxQtyIsNat DEF Request, Quantities
<1> HIDE DEF rest, want
<1>5. ReserveOf(v, NoTask, status', plan') <= stock'[v]
  BY <1>2, <1>3, <1>4
<1>6. QED
  BY <1>5, ReserveIs

(* Lines grow only when a checked request writes them, and then to what it *)
(* asked for.                                                              *)
LEMMA AddsFits ==
  ASSUME StandsInv, [Next]_vars, NEW r \in Requests \ overtaken, NEW v \in Variants, Adds(r, v)
  PROVE  Reserved(v, Drafts(NoTask))' <= stock'[v]
<1>0. TypeInv /\ TypeInv'
  BY TypeStep DEF StandsInv
<1>t. /\ request \in [Requests -> Request] /\ plan \in [Tasks -> Quantities]
      /\ plan' \in [Tasks -> Quantities]
  BY <1>0 DEF TypeInv, TypeOK
<1> DEFINE t == request[r].task
<1>1. /\ t \in Tasks /\ request'[r] # request[r] /\ plan'[t][v] > plan[t][v]
  BY <1>t DEF Adds, Request
<1>2. /\ plan[t][v] \in Nat /\ plan'[t][v] \in Nat /\ request[r].want[v] \in Nat
  BY <1>t, <1>1, MaxQtyIsNat DEF Quantities, Request
<1>3. plan'[t][v] # plan[t][v] /\ plan'[t][v] # 0 /\ plan' # plan
  <2>1. plan'[t][v] # plan[t][v] /\ plan'[t][v] # 0
    <3> DEFINE new == plan'[t][v]
               old == plan[t][v]
    <3>1. new \in Nat /\ old \in Nat /\ new > old
      BY <1>1, <1>2
    <3> HIDE DEF new, old
    <3>2. new # old /\ new # 0
      BY <3>1
    <3>3. QED
      BY <3>2 DEF new, old
  <2>2. QED
    BY <2>1
<1>4. Create(r) \/ Edit(r) \/ Cancel(r) \/ Ship(r) \/ GiveUp(r)
  <2>1. ASSUME NEW q \in Requests,
               Create(q) \/ Edit(q) \/ Cancel(q) \/ Ship(q) \/ GiveUp(q)
        PROVE  q = r
    BY <1>0, <1>1, <2>1, OnlyActor
  <2>2. ~ UNCHANGED vars /\ ~ \E w \in Variants : OtherMove(w)
    BY <1>1 DEF vars, OtherMove
  <2>3. QED
    BY <2>1, <2>2 DEF Next
<1>5. \/ CreateLines(r) \/ CreateUndo(r) \/ EditDelete(r) \/ EditInsert(r)
      \/ \E w \in Variants : EditUpdate(r, w)
  <2>1. ~CreateStock(r) /\ ~CreateCheck(r) /\ ~(\E u \in Tasks : CreateDoc(r, u))
    BY <1>3 DEF CreateStock, CreateCheck, CreateDoc, docs
  <2>2. ~EditLoad(r) /\ ~EditStock(r) /\ ~EditCheck(r) /\ ~(\E u \in Tasks : EditClaim(r, u))
    BY <1>3 DEF EditLoad, EditStock, EditCheck, EditClaim, docs
  <2>3. ~Cancel(r) /\ ~Ship(r) /\ ~GiveUp(r)
    BY <1>3 DEF Cancel, CancelWrite, CancelRead, Ship, ShipLock, ShipPost, ShipRead, GiveUp, docs
  <2>4. QED
    BY <1>4, <2>1, <2>2, <2>3 DEF Create, Edit
<1>6. /\ stock' = stock /\ status' = status
      /\ request[r].step \in Checked
      /\ \A u \in Tasks \ {t} : plan'[u] = plan[u]
      /\ plan'[t][v] = request[r].want[v]
  <2>1. CASE CreateLines(r)
    <3>1. InsertLines(t, request[r].want) /\ UNCHANGED <<stock, status>> /\ At(r, "newLines")
      BY <2>1 DEF CreateLines
    <3>2. plan'[t][v] = IF request[r].want[v] > 0 THEN request[r].want[v] ELSE plan[t][v]
      BY <3>1, <1>t, <1>1 DEF InsertLines
    <3>3. \A u \in Tasks \ {t} : plan'[u] = plan[u]
      BY <3>1, <1>0, <1>1, InsertOthers DEF TypeInv
    <3>4. QED
      BY <1>3, <3>1, <3>2, <3>3 DEF At, Checked
  <2>2. CASE CreateUndo(r)
    <3>1. plan'[t] = Nothing
      BY <2>2, <1>t, <1>1 DEF CreateUndo
    <3>2. QED
      BY <3>1, <1>3 DEF Nothing
  <2>3. CASE EditDelete(r)
    <3>1. plan'[t][v] = plan[t][v] \/ plan'[t][v] = 0
      BY <1>t, <1>1, <2>3 DEF EditDelete
    <3>2. QED
      BY <3>1, <1>3
  <2>4. CASE EditInsert(r)
    <3> DEFINE new == [w \in Variants |-> IF request[r].seen[w] = 0
                                          THEN request[r].want[w] ELSE 0]
    <3>1. InsertLines(t, new) /\ UNCHANGED <<stock, status>> /\ At(r, "editUpdate")
      BY <2>4, <1>3 DEF EditInsert
    <3>2. plan'[t][v] = IF new[v] > 0 THEN new[v] ELSE plan[t][v]
      BY <3>1, <1>t, <1>1 DEF InsertLines
    <3>3. \A u \in Tasks \ {t} : plan'[u] = plan[u]
      BY <3>1, <1>0, <1>1, InsertOthers DEF TypeInv
    <3>4. new[v] = request[r].want[v] \/ new[v] = 0
      OBVIOUS
    <3> HIDE DEF new
    <3>5. plan'[t][v] = request[r].want[v]
      BY <1>3, <3>2, <3>4
    <3>6. QED
      BY <3>1, <3>3, <3>5 DEF At, Checked
  <2>5. ASSUME NEW w \in Variants, EditUpdate(r, w)
        PROVE  /\ stock' = stock /\ status' = status
               /\ request[r].step \in Checked
               /\ \A u \in Tasks \ {t} : plan'[u] = plan[u]
               /\ plan'[t][v] = request[r].want[v]
    <3>1. UNCHANGED <<stock, status>> /\ request[r].step = "editUpdate"
      BY <2>5 DEF EditUpdate, At
    <3>2. plan' = [plan EXCEPT ![t] = [x \in Variants |-> IF x = w THEN request[r].want[w]
                                                          ELSE plan[t][x]]]
      BY <2>5, <1>3 DEF EditUpdate
    <3>3. /\ \A u \in Tasks \ {t} : plan'[u] = plan[u]
          /\ plan'[t][v] = IF v = w THEN request[r].want[w] ELSE plan[t][v]
      BY <3>2, <1>t, <1>1
    <3>4. QED
      BY <1>3, <3>1, <3>3 DEF Checked
  <2>6. QED
    BY <1>5, <2>1, <2>2, <2>3, <2>4, <2>5
<1>7. request[r].want[v] > 0
  BY <1>2, <1>3, <1>6
<1> HIDE DEF t
<1>8. QED
  BY <1>0, <1>1, <1>6, <1>7, WrittenFits DEF t

(* However many requests overlap and break off, and whatever other         *)
(* documents take from the warehouse, a request that creates or edits a    *)
(* task oversubscribes a size only when its numbers were made worse        *)
(* between its look at the stock and its writing: the check and the        *)
(* writing are separate requests to the database, but let nothing else     *)
(* through.                                                                *)
THEOREM ReservedByRaceCorrect == Spec => ReservedByRaceOnly
<1>1. Init => StandsInv
  <2> SUFFICES ASSUME Init PROVE StandsInv
    OBVIOUS
  <2>1. TypeInv
    BY InitTyped
  <2>2. NotCreated /\ \A r \in Requests : Stands(r)
    BY DEF Init, NotCreated, Stands, Checked, Idle
  <2>3. QED
    BY <2>1, <2>2 DEF StandsInv
<1>2. StandsInv /\ [Next]_vars => StandsInv'
  BY StandsStep
<1>3. StandsInv /\ [Next]_vars =>
          [\A r \in Requests \ overtaken : \A v \in Variants :
               Adds(r, v) => Reserved(v, Drafts(NoTask))' <= stock'[v]]_vars
  BY AddsFits
<1>4. QED
  BY <1>1, <1>2, <1>3, PTL DEF Spec, ReservedByRaceOnly
============================================================================
