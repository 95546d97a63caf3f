------------------------------ MODULE DocKeys ------------------------------
(***************************************************************************)
(* The idempotency layer around every warehouse posting.                   *)
(*                                                                         *)
(* A press of a button carries a key.  The route that serves it claims the *)
(* key, calls the posting function, and then either releases the key (the  *)
(* posting raised) or settles it with the answer.  A browser or network    *)
(* retry of the same press is another request with the same key.           *)
(*                                                                         *)
(* Code: claim/settle/release_stock_doc_key (migration 202608240018),      *)
(* claimDocKey/settleDocKey/releaseDocKey (lib/warehouse/idempotency.ts)   *)
(* and the POST handlers that call them in this order (shipments, returns, *)
(* transfers, writeoffs, opening-balance, tasks/[id]/ship).                *)
(*                                                                         *)
(* Time is abstracted to one bit per key row: `old' says the row's         *)
(* created_at is more than two minutes back.                               *)
(***************************************************************************)
EXTENDS Naturals, FiniteSets

CONSTANTS
    Keys,       \* presses of a button
    Requests,   \* HTTP requests serving them; a press may have several
    NoResult,   \* the SQL null of stock_doc_keys.result
    Failures    \* which failures the environment may produce

(* "crash": a serverless function dies between two of its steps.           *)
(* "slow" : a request is still running two minutes after it claimed.       *)
(* "lost" : an RPC's answer is lost, or the RPC fails before it runs.      *)
FailureKinds == {"crash", "slow", "lost"}

ASSUME RequestsFinite == IsFiniteSet(Requests)
ASSUME NoResultIsNoRequest == NoResult \notin Requests
ASSUME FailuresKnown == Failures \subseteq FailureKinds

VARIABLES
    keyRow,    \* stock_doc_keys: the row of each key
    request,   \* where each request's handler is
    posted,    \* requests whose posting function committed
    mishaps    \* per key: claims and postings the protocol did not foresee

vars == <<keyRow, request, posted, mishaps>>

-----------------------------------------------------------------------------
(* The rows.  A row with result = NoResult is a claim; `old' claims may be *)
(* taken over.                                                             *)

Row == [there : BOOLEAN, old : BOOLEAN, result : Requests \cup {NoResult}]

NoRow    == [there |-> FALSE, old |-> FALSE, result |-> NoResult]
FreshRow == [there |-> TRUE,  old |-> FALSE, result |-> NoResult]

Pending(k) == keyRow[k].there /\ keyRow[k].result = NoResult

(* A request: the key it carries, the step its handler is at, the verdict  *)
(* the claim's SELECT gave it, and the answer it was served.               *)
Steps == {"idle", "claim", "decide", "posting", "failed", "posted",
          "done", "refused", "busy", "answered", "crashed"}
Verdicts == {"none", "absent", "settled", "busy", "stale"}
Request == [step : Steps, key : Keys, saw : Verdicts,
            answer : Requests \cup {NoResult}]

(* Requests that passed the claim and can still post, or have posted.  A   *)
(* `failed' handler is counted until it has released the key.              *)
Holders(k) == {r \in Requests : /\ request[r].key = k
                                /\ request[r].step \in {"posting", "failed"}}
Postings(k) == {r \in posted : request[r].key = k}

(* The steps a live handler can be at.                                     *)
Live == {"claim", "decide", "posting", "failed", "posted"}

Init ==
    /\ keyRow = [k \in Keys |-> NoRow]
    /\ request \in [Requests -> [step : {"idle"}, key : Keys, saw : {"none"},
                                 answer : {NoResult}]]
    /\ posted = {}
    /\ mishaps = [k \in Keys |-> 0]

Goto(r, step) == request' = [request EXCEPT ![r].step = step]

(* The handler returns its own posting's answer.                           *)
AnswerOwn(r) ==
    request' = [request EXCEPT ![r] =
        [step |-> "done", key |-> @.key, saw |-> @.saw, answer |-> r]]

Mishap(k) == mishaps' = [mishaps EXCEPT ![k] = @ + 1]

-----------------------------------------------------------------------------
(* The handler reaches claimDocKey.  The key "is repeated when the same    *)
(* press is retried" (docKey.ts): after a 409 too.                         *)
Arrive(r) ==
    /\ request[r].step \in {"idle", "busy"}
    /\ Goto(r, "claim")
    /\ UNCHANGED <<keyRow, posted, mishaps>>

(* Mutant: a claim is busy however old it is.                              *)
AnyAgeBusy(row) ==
    IF ~row.there THEN "absent"
    ELSE IF row.result # NoResult THEN "settled" ELSE "busy"

(* claim_stock_doc_key reads the row and judges it.  The verdict is only   *)
(* acted on later: the SELECT takes no lock.                               *)
Verdict(row) ==
    IF ~row.there THEN "absent"
    ELSE IF row.result # NoResult THEN "settled"
    ELSE IF row.old THEN "stale" ELSE "busy"

ClaimRead(r) ==
    /\ request[r].step = "claim"
    /\ LET row == keyRow[request[r].key] IN
       request' = [request EXCEPT ![r] =
           [step |-> "decide", key |-> @.key, saw |-> Verdict(row),
            answer |-> row.result]]
    /\ UNCHANGED <<keyRow, posted, mishaps>>

(* The row already holds the answer of the first attempt: serve it.        *)
ClaimAnswered(r) ==
    /\ request[r].step = "decide"
    /\ request[r].saw = "settled"
    /\ Goto(r, "answered")
    /\ UNCHANGED <<keyRow, posted, mishaps>>

(* Another request is posting under this key right now: 409.               *)
ClaimBusy(r) ==
    /\ request[r].step = "decide"
    /\ request[r].saw = "busy"
    /\ Goto(r, "busy")
    /\ UNCHANGED <<keyRow, posted, mishaps>>

(* Mutant: the INSERT made an upsert, so both racing requests claim.       *)
ClaimUpsert(r) ==
    LET k == request[r].key IN
    /\ request[r].step = "decide"
    /\ request[r].saw = "absent"
    /\ Goto(r, "posting")
    /\ keyRow' = [keyRow EXCEPT ![k] = FreshRow]
    /\ UNCHANGED <<posted, mishaps>>

(* No row was seen: INSERT.  The primary key decides between two of them;  *)
(* the loser catches unique_violation and reports busy.                    *)
ClaimInsert(r) ==
    LET k == request[r].key IN
    /\ request[r].step = "decide"
    /\ request[r].saw = "absent"
    /\ IF keyRow[k].there
          THEN Goto(r, "busy") /\ UNCHANGED keyRow
          ELSE Goto(r, "posting") /\ keyRow' = [keyRow EXCEPT ![k] = FreshRow]
    /\ UNCHANGED <<posted, mishaps>>

(* A stale claim was seen: UPDATE created_at by key, and go on.  The       *)
(* UPDATE does not look again at result or created_at, nor at whether it   *)
(* matched a row.                                                          *)
TouchRow(k) == keyRow' = [keyRow EXCEPT ![k].old = FALSE]

(* A takeover is clean when the row is still there and nobody else holds   *)
(* or has used the key.                                                    *)
CleanTakeover(k) == keyRow[k].there /\ Holders(k) = {} /\ Postings(k) = {}

ClaimTakeover(r) ==
    LET k == request[r].key IN
    /\ request[r].step = "decide"
    /\ request[r].saw = "stale"
    /\ Goto(r, "posting")
    /\ TouchRow(k)
    /\ IF CleanTakeover(k) THEN UNCHANGED mishaps ELSE Mishap(k)
    /\ UNCHANGED posted

(* The claim RPC failed, or its answer was lost: claimDocKey reports "off" *)
(* and the handler posts without protection.                               *)
ClaimError(r) ==
    /\ "lost" \in Failures
    /\ request[r].step \in {"claim", "decide"}
    /\ Goto(r, "posting")
    /\ Mishap(request[r].key)
    /\ UNCHANGED <<keyRow, posted>>

-----------------------------------------------------------------------------
(* The posting function, one database transaction.                         *)
Post(r) ==
    /\ request[r].step = "posting"
    /\ posted' = posted \cup {r}
    /\ Goto(r, "posted")
    /\ UNCHANGED <<keyRow, mishaps>>

(* It raised: nothing was written.                                         *)
PostRaised(r) ==
    /\ request[r].step = "posting"
    /\ Goto(r, "failed")
    /\ UNCHANGED <<keyRow, posted, mishaps>>

(* It committed, but the handler got an error instead of the answer.       *)
PostAnswerLost(r) ==
    /\ "lost" \in Failures
    /\ request[r].step = "posting"
    /\ posted' = posted \cup {r}
    /\ Goto(r, "failed")
    /\ Mishap(request[r].key)
    /\ UNCHANGED keyRow

(* Mutant: the DELETE without its `result is null'.                        *)
DropRow(k) == keyRow' = [keyRow EXCEPT ![k] = NoRow]

(* DELETE ... WHERE key = p_key AND result IS NULL: no check that the      *)
(* claim deleted is the caller's own.                                      *)
DropClaim(k) ==
    keyRow' = IF Pending(k) THEN [keyRow EXCEPT ![k] = NoRow] ELSE keyRow

Release(r) ==
    /\ request[r].step = "failed"
    /\ DropClaim(request[r].key)
    /\ Goto(r, "refused")
    /\ UNCHANGED <<posted, mishaps>>

(* UPDATE ... SET result WHERE key = p_key: overwrites an earlier answer,  *)
(* and matches nothing when the row was released meanwhile.                *)
StoreAnswer(k, r) ==
    keyRow' = IF keyRow[k].there THEN [keyRow EXCEPT ![k].result = r]
                                 ELSE keyRow

(* Mutant: the key is settled before the posting is made.                  *)
SettleEarly(r) ==
    /\ request[r].step = "posting"
    /\ StoreAnswer(request[r].key, r)
    /\ AnswerOwn(r)
    /\ UNCHANGED <<posted, mishaps>>

Settle(r) ==
    /\ request[r].step = "posted"
    /\ StoreAnswer(request[r].key, r)
    /\ AnswerOwn(r)
    /\ UNCHANGED <<posted, mishaps>>

(* settleDocKey ignores its error: the answer goes out, the claim stays.   *)
SettleLost(r) ==
    /\ "lost" \in Failures
    /\ request[r].step = "posted"
    /\ AnswerOwn(r)
    /\ UNCHANGED <<keyRow, posted, mishaps>>

-----------------------------------------------------------------------------
(* Environment.                                                            *)

(* The handler dies.  A posting function it had already called may still   *)
(* commit in the database.                                                 *)
Crash(r) ==
    /\ "crash" \in Failures
    /\ request[r].step \in Live
    /\ Goto(r, "crashed")
    /\ \/ UNCHANGED posted
       \/ request[r].step = "posting" /\ posted' = posted \cup {r}
    /\ UNCHANGED <<keyRow, mishaps>>

(* Two minutes pass since the row's created_at.  Unless a request may be   *)
(* slow, by then every handler that held the key has finished.             *)
Age(k) ==
    /\ Pending(k) /\ ~keyRow[k].old
    /\ \/ "slow" \in Failures
       \/ \A r \in Requests : request[r].key = k =>
              request[r].step \notin {"posting", "failed", "posted"}
    /\ keyRow' = [keyRow EXCEPT ![k].old = TRUE]
    /\ UNCHANGED <<request, posted, mishaps>>

-----------------------------------------------------------------------------
Handler(r) ==
    \/ ClaimRead(r) \/ ClaimAnswered(r) \/ ClaimBusy(r)
    \/ ClaimInsert(r) \/ ClaimTakeover(r)
    \/ Post(r) \/ PostRaised(r) \/ Release(r) \/ Settle(r)

Failure(r) ==
    \/ ClaimError(r) \/ PostAnswerLost(r) \/ SettleLost(r) \/ Crash(r)

Next ==
    \/ \E r \in Requests : Arrive(r) \/ Handler(r) \/ Failure(r)
    \/ \E k \in Keys : Age(k)

Spec == Init /\ [][Next]_vars

(* A handler that was not killed keeps running, and time passes.  Nothing  *)
(* forces a user to press, a posting to succeed, or a failure to happen.   *)
Fairness ==
    /\ \A r \in Requests : WF_vars(Handler(r))
    /\ \A k \in Keys : WF_vars(Age(k))

FairSpec == Spec /\ Fairness

-----------------------------------------------------------------------------
TypeOK ==
    /\ keyRow \in [Keys -> Row]
    /\ request \in [Requests -> Request]
    /\ posted \in SUBSET Requests
    /\ mishaps \in [Keys -> Nat]

(* However requests interleave, a press posts at most once more than the   *)
(* number of mishaps on its key: unprotected claims, lost answers and      *)
(* takeovers of a claim whose holder was alive, had posted, or was gone.   *)
PostingBudget ==
    \A k \in Keys : Cardinality(Postings(k)) <= 1 + mishaps[k]

(* An answer stored under a key, and an answer a duplicate request is      *)
(* served, is the answer of a posting made for that same press.            *)
AnswersAreReal ==
    /\ \A k \in Keys : keyRow[k].result # NoResult =>
           keyRow[k].result \in Postings(k)
    /\ \A r \in Requests : request[r].step \in {"answered", "done"} =>
           request[r].answer \in Postings(request[r].key)

(* Once settled, a key never accepts a new claim: neither a late release   *)
(* of a request that lost it nor a takeover reopens it.                    *)
SettledStays ==
    [][\A k \in Keys : keyRow[k].result # NoResult =>
           keyRow'[k].there /\ keyRow'[k].result # NoResult]_vars

(* "A key left hanging (the process died between the claim and the answer) *)
(* must not lock the operation for ever" (migration 202608240018): as long *)
(* as the press is retried, a claim nobody works under is in the end taken *)
(* over, settled or released, unless every retry dies before it gets there.*)
Working(k) == \E r \in Requests : /\ request[r].key = k
                                 /\ request[r].step \in {"posting", "failed", "posted"}
Hanging(k) == Pending(k) /\ ~Working(k)
Asking(r) == request[r].step \in {"claim", "decide", "busy"}

Repeat(r) == request[r].step = "busy" /\ Arrive(r)
Repeated == \A r \in Requests : WF_vars(Repeat(r))

NoPermanentLock ==
    Repeated => \A r \in Requests :
        Asking(r) /\ Hanging(request[r].key)
            ~> ~Hanging(request[r].key) \/ request[r].step = "crashed"

(* The mapping to PostOnce: postings are counted, and a request is told of *)
(* success when its handler answered from its own posting or from the row. *)
Times == [k \in Keys |-> Cardinality(Postings(k))]
Told == {<<request[r].key, r>> : r \in
            {q \in Requests : request[q].step \in {"answered", "done"}}}

Promise == INSTANCE PostOnce WITH times <- Times, told <- Told

(* With no crash, no slow request and no lost answer the layer keeps the   *)
(* promise of its header: one posting per press, success told after it.    *)
KeepsPromise == Promise!Spec
=============================================================================
