--------------------------- MODULE ShipmentTasks ---------------------------
(***************************************************************************)
(* Shipment tasks: drafts that reserve stock, edited and cancelled by a    *)
(* manager while the fulfilment operator ships them.                       *)
(*                                                                         *)
(* Every action is one request to the database; an HTTP request is a       *)
(* sequence of them, and others run in between.  Only shipping is one      *)
(* transaction (post_shipment_task): it locks the task's document, reads   *)
(* its lines, and writes everything at once when it commits.               *)
(*                                                                         *)
(* One warehouse, one cabinet.  The key of a press is DocKeys; the inside  *)
(* of post_shipment, and two postings spending one stock, StockPosting.    *)
(* A line is named by its size: (document, size) is unique.  A line that   *)
(* was deleted and inserted again inside one shipment is taken for the     *)
(* same line.                                                              *)
(***************************************************************************)
EXTENDS Integers, FiniteSets, FiniteSetsExt

CONSTANTS
    Tasks,      \* documents that may be created
    Variants,   \* sizes
    Requests,   \* HTTP requests that may be under way at once
    NoTask,
    MaxQty,     \* bound: pieces of a size in a task and on hand
    Others      \* other documents that move stock: "in", "out"

ASSUME MaxQtyIsNat == MaxQty \in Nat \ {0}
ASSUME NoTaskIsNone == NoTask \notin Tasks
ASSUME TasksAreFinite == IsFiniteSet(Tasks)
ASSUME OthersKnown == Others \subseteq {"in", "out"}

VARIABLES
    stock,      \* pieces of a size in the warehouse
    status,     \* stock_docs.status; "none" not created, "gone" deleted
    plan,       \* stock_doc_lines.qty, 0 when there is no line
    shipped,    \* stock_doc_lines.shipped_qty
    moved,      \* pieces the register moved under the task's posting
    request,    \* where each HTTP request is
    overtaken   \* ghost: requests that check what is available against, or write
                \* after it, numbers that are worse by now

vars == <<stock, status, plan, shipped, moved, request, overtaken>>
docs == <<status, plan, shipped, moved>>

Quantities == [Variants -> 0..MaxQty]
Nothing == [v \in Variants |-> 0]
NotYet == -1                    \* SQL null in shipped_qty
Unshipped == [v \in Variants |-> NotYet]
AsPlanned == -1                 \* no override for this size

Statuses == {"none", "draft", "posted", "cancelled", "gone"}
Steps == {"idle", "newReserve", "newDoc", "newLines", "newUndo", "editLoad",
          "editStock", "editReserve", "editDelete", "editUpdate", "cancel",
          "ship", "shipping"}
Request == [step : Steps, task : Tasks \cup {NoTask}, want : Quantities,
            seen : Quantities, free : [Variants -> Int]]
Idle == [step |-> "idle", task |-> NoTask, want |-> Nothing,
         seen |-> Nothing, free |-> Nothing]

Init ==
    /\ stock \in Quantities
    /\ status = [t \in Tasks |-> "none"]
    /\ plan = [t \in Tasks |-> Nothing]
    /\ shipped = [t \in Tasks |-> Unshipped]
    /\ moved = [t \in Tasks |-> Nothing]
    /\ request = [r \in Requests |-> Idle]
    /\ overtaken = {}

At(r, step) == request[r].step = step
Finish(r) == request' = [request EXCEPT ![r] = Idle]
Goto(r, step) ==
    request' = [request EXCEPT ![r] =
        [step |-> step, task |-> @.task, want |-> @.want, seen |-> @.seen,
         free |-> @.free]]
Open(r, step, t) ==
    /\ At(r, "idle")
    /\ request' = [request EXCEPT ![r] =
           [step |-> step, task |-> t, want |-> Nothing, seen |-> Nothing,
            free |-> Nothing]]

(* The row lock of a task's document is held by the shipment under way.    *)
(* Updates, deletes and line inserts (their foreign key) wait for it.      *)
Unlocked(t) ==
    \A r \in Requests : ~(At(r, "shipping") /\ request[r].task = t)

Lines(t) == {v \in Variants : plan[t][v] > 0}

-----------------------------------------------------------------------------
(* What a task may ask for: the stock, then - a later request - minus the  *)
(* lines of the other drafts.                                              *)

ReadStock(r, step) ==
    request' = [request EXCEPT ![r] =
        [step |-> step, task |-> @.task, want |-> @.want, seen |-> @.seen,
         free |-> stock]]

Drafts(except) == {t \in Tasks \ {except} : status[t] = "draft"}

Reserved(v, tasks) == SumFunction([t \in tasks |-> plan[t][v]])

(* Who has read the stock, who has checked the reserve too, and whose      *)
(* numbers a step makes worse: it takes from the stock, or adds to what    *)
(* other drafts hold.                                                      *)
Checked == {"newDoc", "newLines", "editDelete", "editUpdate"}
Measured == Checked \cup {"newReserve", "editReserve"}

Lowered ==
    {q \in Requests : /\ request[q].step \in Measured
                      /\ \E v \in Variants : stock'[v] < stock[v]}
Raised ==
    {q \in Requests : /\ request[q].step \in Checked
                      /\ \E t \in Drafts(request[q].task) : \E v \in Variants :
                             plan'[t][v] > plan[t][v]}

(* Mutant: the reserve of the other drafts forgotten.                      *)
NoReserve(except) == {}

Competing(except) == Drafts(except)

Check(r, step) ==
    \E want \in Quantities \ {Nothing} :
        /\ \A v \in Variants : want[v] > 0 =>
               want[v] <= request[r].free[v]
                            - Reserved(v, Competing(request[r].task))
        /\ request' = [request EXCEPT ![r] =
               [step |-> step, task |-> @.task, want |-> want,
                seen |-> @.seen, free |-> Nothing]]

-----------------------------------------------------------------------------
(* POST /warehouse/tasks.                                                  *)

CreateStock(r) ==
    /\ At(r, "idle")
    /\ ReadStock(r, "newReserve")
    /\ UNCHANGED <<stock, docs, overtaken>>

CreateCheck(r) ==
    /\ At(r, "newReserve")
    /\ Check(r, "newDoc")
    /\ UNCHANGED <<stock, docs, overtaken>>

CreateDoc(r, t) ==
    /\ At(r, "newDoc")
    /\ status[t] = "none"
    /\ status' = [status EXCEPT ![t] = "draft"]
    /\ request' = [request EXCEPT ![r] =
           [step |-> "newLines", task |-> t, want |-> @.want,
            seen |-> @.seen, free |-> @.free]]
    /\ UNCHANGED <<stock, plan, shipped, moved, overtaken>>

(* The document is visible to everybody before its lines are.              *)
InsertLines(t, new) ==
    /\ status[t] # "gone" /\ Unlocked(t)
    /\ \A v \in Variants : new[v] > 0 => plan[t][v] = 0
    /\ plan' = [plan EXCEPT ![t] =
           [v \in Variants |-> IF new[v] > 0 THEN new[v] ELSE plan[t][v]]]

(* The answer to the INSERT may be lost, and read as an error.             *)
CreateLines(r) ==
    /\ At(r, "newLines")
    /\ InsertLines(request[r].task, request[r].want)
    /\ Finish(r) \/ Goto(r, "newUndo")
    /\ overtaken' = (overtaken \ {r}) \cup Raised
    /\ UNCHANGED <<stock, status, shipped, moved>>

(* An error: the document is deleted, whatever became of it meanwhile.     *)
CreateUndo(r) ==
    LET t == request[r].task IN
    /\ At(r, "newLines") \/ At(r, "newUndo")
    /\ Unlocked(t)
    /\ status' = [status EXCEPT ![t] = "gone"]
    /\ plan' = [plan EXCEPT ![t] = Nothing]
    /\ shipped' = [shipped EXCEPT ![t] = Unshipped]
    /\ Finish(r)
    /\ overtaken' = overtaken \ {r}
    /\ UNCHANGED <<stock, moved>>

-----------------------------------------------------------------------------
(* PATCH /warehouse/tasks/[id].                                            *)

(* Mutant: an UPDATE without its `status = draft'.                         *)
AnyStatus(t) == status[t] # "gone"

(* UPDATE ... WHERE id = ... AND status = 'draft', and a look at whether   *)
(* it found the row.                                                       *)
StillDraft(t) == status[t] = "draft"

(* The draft is marked, so that a task already shipped is not edited; the  *)
(* mark does not outlive its statement.                                    *)
EditClaim(r, t) ==
    /\ Unlocked(t) /\ StillDraft(t)
    /\ Open(r, "editLoad", t)
    /\ UNCHANGED <<stock, docs, overtaken>>

EditLoad(r) ==
    /\ At(r, "editLoad")
    /\ request' = [request EXCEPT ![r] =
           [step |-> "editStock", task |-> @.task, want |-> @.want,
            seen |-> plan[@.task], free |-> @.free]]
    /\ UNCHANGED <<stock, docs, overtaken>>

EditStock(r) ==
    /\ At(r, "editStock")
    /\ ReadStock(r, "editReserve")
    /\ UNCHANGED <<stock, docs, overtaken>>

EditCheck(r) ==
    /\ At(r, "editReserve")
    /\ Check(r, "editDelete")
    /\ UNCHANGED <<stock, docs, overtaken>>

(* Lines no longer wanted, in one DELETE.                                  *)
EditDelete(r) ==
    LET t == request[r].task
        out == {v \in Variants : request[r].seen[v] > 0 /\ request[r].want[v] = 0}
    IN
    /\ At(r, "editDelete")
    /\ plan' = [plan EXCEPT ![t] =
           [v \in Variants |-> IF v \in out THEN 0 ELSE plan[t][v]]]
    /\ shipped' = [shipped EXCEPT ![t] =
           [v \in Variants |-> IF v \in out THEN NotYet ELSE shipped[t][v]]]
    /\ Goto(r, "editUpdate")
    /\ UNCHANGED <<stock, status, moved, overtaken>>

(* Lines whose quantity changes, one UPDATE by id each.                    *)
Changed(r) ==
    {v \in Variants : /\ request[r].seen[v] > 0
                      /\ request[r].want[v] \notin {0, request[r].seen[v]}}

EditUpdate(r, v) ==
    LET t == request[r].task IN
    /\ At(r, "editUpdate")
    /\ v \in Changed(r)
    /\ plan' = IF plan[t][v] = 0 THEN plan
               ELSE [plan EXCEPT ![t] =
                   [w \in Variants |-> IF w = v THEN request[r].want[v]
                                       ELSE plan[t][w]]]
    /\ request' = [request EXCEPT ![r] =
           [step |-> "editUpdate", task |-> @.task, want |-> @.want,
            seen |-> [w \in Variants |-> IF w = v THEN @.want[v] ELSE @.seen[w]],
            free |-> @.free]]
    /\ overtaken' = overtaken \cup Raised
    /\ UNCHANGED <<stock, status, shipped, moved>>

(* New lines, in one INSERT, and the end of the request.                   *)
EditInsert(r) ==
    LET new == [v \in Variants |-> IF request[r].seen[v] = 0
                                   THEN request[r].want[v] ELSE 0]
    IN
    /\ At(r, "editUpdate")
    /\ Changed(r) = {}
    /\ IF new = Nothing THEN UNCHANGED plan
                        ELSE InsertLines(request[r].task, new)
    /\ Finish(r)
    /\ overtaken' = (overtaken \ {r}) \cup Raised
    /\ UNCHANGED <<stock, status, shipped, moved>>

-----------------------------------------------------------------------------
(* POST /warehouse/tasks/[id]/cancel.                                      *)

CancelRead(r, t) ==
    /\ status[t] = "draft"
    /\ Open(r, "cancel", t)
    /\ UNCHANGED <<stock, docs, overtaken>>

CancelWrite(r) ==
    LET t == request[r].task IN
    /\ At(r, "cancel")
    /\ Unlocked(t) /\ StillDraft(t)
    /\ status' = [status EXCEPT ![t] = "cancelled"]
    /\ Finish(r)
    /\ UNCHANGED <<stock, plan, shipped, moved, overtaken>>

-----------------------------------------------------------------------------
(* POST /warehouse/tasks/[id]/ship.                                        *)

ShipRead(r, t) ==
    /\ status[t] = "draft"
    /\ Open(r, "ship", t)
    /\ UNCHANGED <<stock, docs, overtaken>>

(* Mutant: the status the handler read is trusted.                         *)
AlreadyChecked(t) == status[t] \in {"draft", "posted"}

(* post_shipment_task looks at the status again, under the row lock.       *)
IsDraft(t) == status[t] = "draft"

ShipLock(r) ==
    LET t == request[r].task IN
    /\ At(r, "ship")
    /\ Unlocked(t) /\ IsDraft(t)
    /\ request' = [request EXCEPT ![r] =
           [step |-> "shipping", task |-> t, want |-> @.want,
            seen |-> plan[t], free |-> @.free]]
    /\ UNCHANGED <<stock, docs, overtaken>>

(* What is shipped of a line: the operator's number, or the plan.          *)
Actual(planned, over) == IF over = AsPlanned THEN planned ELSE over

(* Mutant: the card is told the plan, not what was shipped.                *)
TellPlan(planned, over) == planned
Told(planned, over) == Actual(planned, over)

(* Mutant: the override is taken as it came.                               *)
AnyQuantity(qty, planned) == TRUE

(* The plan is the ceiling.                                                *)
WithinPlan(qty, planned) == qty <= planned

InStock(v, qty) == qty <= stock[v]

(* The lines were read when the loop began; each is written by its id, so  *)
(* a line deleted meanwhile is still shipped, but told nothing.            *)
ShipPost(r) ==
    LET t == request[r].task
        seen == request[r].seen
        asked == {v \in Variants : seen[v] > 0}
    IN
    /\ At(r, "shipping")
    /\ \E over \in [Variants -> AsPlanned..MaxQty] :
         LET qty == [v \in Variants |->
                        IF v \in asked THEN Actual(seen[v], over[v]) ELSE 0]
         IN
         /\ \A v \in asked : WithinPlan(qty[v], seen[v]) /\ InStock(v, qty[v])
         /\ qty # Nothing
         /\ stock' = [v \in Variants |-> stock[v] - qty[v]]
         /\ moved' = [moved EXCEPT ![t] =
                [v \in Variants |-> moved[t][v] + qty[v]]]
         /\ shipped' = [shipped EXCEPT ![t] =
                [v \in Variants |-> IF v \in asked /\ plan[t][v] > 0
                                    THEN Told(seen[v], over[v])
                                    ELSE shipped[t][v]]]
    /\ status' = [status EXCEPT ![t] = "posted"]
    /\ Finish(r)
    /\ overtaken' = overtaken \cup Lowered
    /\ UNCHANGED plan

-----------------------------------------------------------------------------
(* A refusal, an error, or the death of the handler: what it has committed *)
(* stays, a shipment under way is rolled back.                             *)
GiveUp(r) ==
    /\ ~At(r, "idle")
    /\ Finish(r)
    /\ overtaken' = overtaken \ {r}
    /\ UNCHANGED <<stock, docs>>

(* Receipts, shipments and returns that are not tasks.  They do not look   *)
(* at the reserve.                                                         *)
OtherMove(v) ==
    /\ \/ "in" \in Others /\ stock[v] < MaxQty
          /\ stock' = [stock EXCEPT ![v] = @ + 1]
       \/ "out" \in Others /\ stock[v] > 0
          /\ stock' = [stock EXCEPT ![v] = @ - 1]
    /\ overtaken' = overtaken \cup Lowered
    /\ UNCHANGED <<docs, request>>

Create(r) ==
    \/ CreateStock(r) \/ CreateCheck(r) \/ CreateLines(r) \/ CreateUndo(r)
    \/ \E t \in Tasks : CreateDoc(r, t)

Edit(r) ==
    \/ EditLoad(r) \/ EditStock(r) \/ EditCheck(r) \/ EditDelete(r)
    \/ EditInsert(r)
    \/ \E v \in Variants : EditUpdate(r, v)
    \/ \E t \in Tasks : EditClaim(r, t)

Cancel(r) == CancelWrite(r) \/ \E t \in Tasks : CancelRead(r, t)

Ship(r) == ShipLock(r) \/ ShipPost(r) \/ \E t \in Tasks : ShipRead(r, t)

Next ==
    \/ \E r \in Requests :
           Create(r) \/ Edit(r) \/ Cancel(r) \/ Ship(r) \/ GiveUp(r)
    \/ \E v \in Variants : OtherMove(v)

Spec == Init /\ [][Next]_vars

-----------------------------------------------------------------------------
TypeOK ==
    /\ stock \in [Variants -> Nat]
    /\ status \in [Tasks -> Statuses]
    /\ plan \in [Tasks -> Quantities]
    /\ shipped \in [Tasks -> [Variants -> NotYet..MaxQty]]
    /\ moved \in [Tasks -> [Variants -> Nat]]
    /\ request \in [Requests -> Request]
    /\ overtaken \subseteq Requests

(* Drafts never hold more of a size than the warehouse has: two tasks for  *)
(* the same ten pieces cannot both be created.  Holds while requests do    *)
(* not overlap and only tasks take from the stock.                         *)
ReserveWithinStock ==
    \A v \in Variants : Reserved(v, Drafts(NoTask)) <= stock[v]

(* The check of what is available and the writing of lines are separate    *)
(* requests, and the stock is read before the drafts.  However requests    *)
(* interleave and break off, a request makes the drafts hold more of a     *)
(* size than there is only when its numbers were made worse since it read  *)
(* them: stock went out, or another draft got more.                        *)
Adds(r, v) ==
    LET t == request[r].task IN
    /\ t # NoTask
    /\ request'[r] # request[r]
    /\ plan'[t][v] > plan[t][v]

ReservedByRaceOnly ==
    [][\A r \in Requests \ overtaken : \A v \in Variants :
           Adds(r, v) => Reserved(v, Drafts(NoTask))' <= stock'[v]]_vars

(* The document of a posted task tells exactly what the register moved     *)
(* under its number, line by line, and never more than was planned; no     *)
(* other document moved anything.  Holds while requests do not overlap.    *)
CardMatchesRegister ==
    \A t \in Tasks :
        IF status[t] = "posted"
        THEN \A v \in Variants :
                /\ moved[t][v] = (IF v \in Lines(t) THEN shipped[t][v] ELSE 0)
                /\ moved[t][v] <= plan[t][v]
        ELSE moved[t] = Nothing

(* However requests interleave, a task is shipped once.                    *)
ShippedOnce ==
    [][\A t \in Tasks : moved[t] # Nothing => moved'[t] = moved[t]]_vars

(* However requests interleave, a cancelled task has shipped nothing, and  *)
(* what has shipped is not a draft any more that still reserves stock.     *)
CancelledShipsNothing ==
    \A t \in Tasks :
        status[t] \in {"draft", "cancelled"} => moved[t] = Nothing

(* However requests interleave, a number a card shows as shipped is what   *)
(* the register moved.                                                     *)
ShownIsMoved ==
    \A t \in Tasks : \A v \in Variants :
        shipped[t][v] # NotYet => shipped[t][v] = moved[t][v]
=============================================================================
