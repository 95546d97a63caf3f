------------------------------ MODULE PostOnce ------------------------------
(***************************************************************************)
(* What the idempotency layer promises of a press of a button, with no     *)
(* keys, rows or handlers: its posting is made at most once, and success   *)
(* is reported only after it was made.                                     *)
(*                                                                         *)
(* The promise is the header of migration 202608240018 and of              *)
(* lib/warehouse/idempotency.ts; DocKeys is shown to implement it.         *)
(***************************************************************************)
EXTENDS Naturals

CONSTANTS Keys, Requests

VARIABLES
    times,   \* how many postings each press has made
    told     \* pairs <<press, request>>: the request was told of success

Init == times = [k \in Keys |-> 0] /\ told = {}

Do(k) ==
    /\ times[k] = 0
    /\ times' = [times EXCEPT ![k] = 1]
    /\ UNCHANGED told

Tell(k, r) ==
    /\ times[k] = 1
    /\ told' = told \cup {<<k, r>>}
    /\ UNCHANGED times

Next == \E k \in Keys : Do(k) \/ \E r \in Requests : Tell(k, r)

Spec == Init /\ [][Next]_<<times, told>>
=============================================================================
