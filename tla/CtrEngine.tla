------------------------------ MODULE CtrEngine -----------------------------
(***************************************************************************)
(* The step engine of CTR tests.  A test borrows two things from their     *)
(* owner: an advert campaign, which it starts and pauses, and the cover of *)
(* a product card, which it replaces by its variants.  A cron pass moves   *)
(* the running step through its phases                                     *)
(*   swap, starting, warmup, collecting, settling                          *)
(* while people start, pause, resume, finish and cancel the test.          *)
(*                                                                         *)
(* Every action is one request to Wildberries or to the database, with the *)
(* reads of the same function that precede it.  One cron pass and one      *)
(* person's request run at once and interleave at every such step.         *)
(* Numbers are abstracted to what they were measured on: the covers shown  *)
(* by a running campaign since the step's baseline.                        *)
(***************************************************************************)
EXTENDS Integers, Sequences, FiniteSets

CONSTANTS
    Variants,
    Original,       \* the owner's cover
    NoVariant,
    Orders,         \* variant_orders: a sequence of rounds
    StableReads,    \* settle_stable_reads
    MaxFail,        \* MAX_FAIL_STREAK
    Faults          \* "refuse": a call is refused; "lose": it is carried out
                    \* but its answer or its mark is lost; "die": a function
                    \* is killed between two calls

ASSUME VariantsApart == Original \notin Variants /\ NoVariant \notin Variants
                        /\ NoVariant # Original
ASSUME OrdersAreRounds ==
    /\ Orders \in Seq(Seq(Variants)) /\ Orders # <<>>
    /\ \A i \in DOMAIN Orders : Len(Orders[i]) = Len(Orders[1])
    /\ Len(Orders[1]) > 0
ASSUME ReadsAreEnough == StableReads \in Nat /\ StableReads >= 2
ASSUME FailIsPositive == MaxFail \in Nat \ {0}
ASSUME FaultsKnown == Faults \subseteq {"refuse", "lose", "die"}

VARIABLES
    status,     \* ctr_tests.status
    live,       \* ctr_tests.live_swap_enabled
    before,     \* ctr_tests.campaign_status_before
    pending,    \* ctr_tests.campaign_restore_pending
    pinned,     \* ctr_tests.original_cover_url, as the cover it is a copy of
    swapped,    \* ctr_tests.cover_swapped_at is set
    restored,   \* ctr_tests.cover_restored_at is set
    step,       \* the active row of ctr_test_rounds
    closed,     \* its closed rows
    campaign,   \* the campaign at Wildberries
    cover,      \* the cover of the card at Wildberries
    at,         \* where the cron pass and the person's request are
    tick        \* what the cron pass remembers of the step

(* History, for the properties only.                                       *)
VARIABLES
    owed,       \* the test changed the campaign away from `before'
    lapse,      \* a mark of that change was lost or may be erased
    coverLapse, \* the same of the cover
    shown       \* covers a running campaign showed since the baseline

row == <<before, pending, pinned, swapped, restored>>
steps == <<step, closed, tick>>
outside == <<campaign, cover>>
ghosts == <<owed, lapse, coverLapse>>
vars == <<status, live, row, steps, outside, at, ghosts, shown>>

Procs == {"cron", "person"}
Covers == Variants \cup {Original}
Campaign == {"active", "paused"}        \* 11 and 9; "other" is the rest
Closed == {"done", "cancelled"}
Stopped == Closed \cup {"paused"}
Phases == {"swap", "starting", "warmup", "collecting", "settling"}
Labels == Phases \cup
    {"idle", "swapMark", "swapPatch", "startMark", "startPatch", "stopMark",
     "stopPatch", "close", "giveBack", "clear", "pauseBack", "pauseClear",
     "coverBack", "coverMark", "pin", "begin", "flag", "label", "resume"}
Clearing == {"clear", "pauseClear"}

NoStep == [id |-> 0, variant |-> NoVariant, phase |-> "swap", streak |-> 0,
           reads |-> 0]
NoTick == [id |-> 0, variant |-> NoVariant, streak |-> 0, reads |-> 0,
           own |-> FALSE]

TotalSteps == Len(Orders) * Len(Orders[1])

Init ==
    /\ status = "draft" /\ live = FALSE
    /\ before = "none" /\ pending = FALSE
    /\ pinned = NoVariant /\ swapped = FALSE /\ restored = FALSE
    /\ step = NoStep /\ closed = <<>> /\ tick = NoTick
    /\ campaign \in Campaign /\ cover = Original
    /\ at = [p \in Procs |-> "idle"]
    /\ owed = FALSE /\ lapse = FALSE /\ coverLapse = FALSE /\ shown = {}

Goto(p, label) == at' = [at EXCEPT ![p] = label]
Finish(p) == Goto(p, "idle")

-----------------------------------------------------------------------------
(* The plan (stepPlan.ts): the variant after `n' closed steps.             *)

PlanStep(n) ==
    LET perPass == Len(Orders[1])
    IN IF n >= TotalSteps THEN NoVariant
       ELSE Orders[(n \div perPass) + 1][(n % perPass) + 1]

(* Mutant: the cover of a new step taken for granted.                      *)
OpenedShown(id, variant) ==
    [id |-> id, variant |-> variant, phase |-> "starting", streak |-> 0,
     reads |-> 0]

(* A new row has no phase, which is read as "swap".                        *)
Opened(id, variant) ==
    [id |-> id, variant |-> variant, phase |-> "swap", streak |-> 0,
     reads |-> 0]

(* An update of the step by its id: a row closed meanwhile is not seen     *)
(* again by anyone.                                                        *)
Patch(phase, streak, reads) ==
    step' = IF step.id # tick.id THEN step
            ELSE [id |-> step.id, variant |-> step.variant, phase |-> phase,
                  streak |-> streak, reads |-> reads]

-----------------------------------------------------------------------------
(* What the test does to what is not its own.                              *)

(* The campaign becomes `target'.  Whoever is about to clear the mark will *)
(* clear the mark of this change too.                                      *)
ChangeCampaign(p, target, unmarked) ==
    /\ campaign' = target
    /\ owed' = (target # before)
    /\ lapse' = /\ target # before
                /\ \/ lapse \/ unmarked
                   \/ \E q \in Procs \ {p} : at[q] \in Clearing

(* The cover becomes a variant.  It is not given back again if it was once *)
(* or if whoever gave it back has yet to say so.                           *)
Returning == restored \/ at["person"] = "coverMark"

ChangeCover(unmarked) ==
    /\ cover' = tick.variant
    /\ coverLapse' = (coverLapse \/ Returning \/ (unmarked /\ ~swapped))

-----------------------------------------------------------------------------
(* fail(): the step keeps its phase, and repeated failures pause the test. *)

IfRunning(new) == IF status = "running" THEN new ELSE status

Fail(fatal) ==
    LET streak == tick.streak + 1
        pause == fatal \/ streak >= MaxFail
    IN
    /\ Patch(step.phase, IF streak > MaxFail THEN MaxFail ELSE streak,
             tick.reads)                             \* bound: MaxFail
    /\ status' = IF pause THEN IfRunning("paused") ELSE status
    /\ Goto("cron", IF pause THEN "giveBack" ELSE "idle")
    /\ tick' = NoTick

(* A write of the step after a success, on to the next phase.              *)
Move(phase, reads) ==
    /\ Patch(phase, 0, reads)
    /\ tick' = [id |-> tick.id, variant |-> tick.variant, streak |-> 0,
                reads |-> reads, own |-> FALSE]

(* A pass over the running test.                                           *)
Begin ==
    /\ at["cron"] = "idle" /\ status = "running" /\ live /\ step # NoStep
    /\ tick' = [id |-> step.id, variant |-> step.variant,
                streak |-> step.streak, reads |-> step.reads, own |-> FALSE]
    /\ Goto("cron", step.phase)
    /\ UNCHANGED <<status, live, row, step, closed, outside, ghosts>>

(* Nothing to do yet: warming up, rate limited, or too few impressions,    *)
(* which still is a successful reading.                                    *)
Wait ==
    /\ at["cron"] \in {"warmup", "collecting", "settling"}
    /\ \/ UNCHANGED step
       \/ at["cron"] = "collecting" /\ Patch(step.phase, 0, tick.reads)
    /\ Finish("cron") /\ tick' = NoTick
    /\ UNCHANGED <<status, live, row, closed, outside, ghosts>>

(* The call failed: cover, campaign, statistics or the database.  Closing  *)
(* a step raises also when the test was stopped meanwhile, or cannot be    *)
(* finished with the numbers it has.                                       *)
Refused ==
    /\ \/ "refuse" \in Faults /\ at["cron"] \in Phases
       \/ at["cron"] = "close"
       \/ at["cron"] \in {"starting", "collecting"} /\ campaign = "other"
    /\ \E fatal \in {FALSE, at["cron"] = "swap"} : Fail(fatal)
    /\ UNCHANGED <<live, row, closed, outside, ghosts>>

Swap ==
    /\ at["cron"] = "swap"
    /\ ChangeCover(FALSE)
    /\ Goto("cron", "swapMark")
    /\ UNCHANGED <<status, live, row, steps, campaign, owed, lapse>>

SwapLost ==
    /\ "lose" \in Faults /\ at["cron"] = "swap"
    /\ ChangeCover(TRUE)
    /\ Fail(FALSE)
    /\ UNCHANGED <<live, row, closed, campaign, owed, lapse>>

SwapMark ==
    /\ at["cron"] = "swapMark"
    /\ swapped' = TRUE
    /\ coverLapse' = (coverLapse /\ Returning)
    /\ Goto("cron", "swapPatch")
    /\ UNCHANGED <<status, live, before, pending, pinned, restored, steps,
                   outside, owed, lapse>>

SwapPatch ==
    /\ at["cron"] = "swapPatch"
    /\ Move("starting", tick.reads)
    /\ Goto("cron", "starting")
    /\ UNCHANGED <<status, live, row, closed, outside, ghosts>>

(* setStatus(): nothing to do when the campaign is there already.          *)
Hold(target, mark, next) ==
    /\ \/ /\ campaign = target
          /\ Goto("cron", next)
          /\ UNCHANGED <<campaign, owed, lapse>>
       \/ /\ campaign \in Campaign \ {target}
          /\ ChangeCampaign("cron", target, FALSE)
          /\ Goto("cron", mark)
    /\ UNCHANGED <<status, live, row, steps, cover, coverLapse>>

HoldLost(target) ==
    /\ "lose" \in Faults /\ campaign \in Campaign \ {target}
    /\ ChangeCampaign("cron", target, TRUE)
    /\ Fail(FALSE)
    /\ UNCHANGED <<live, row, closed, cover, coverLapse>>

(* The mark is written after the change, and its error is not looked at.   *)
Marked(here, next) ==
    /\ at["cron"] = here
    /\ \/ pending' = TRUE /\ UNCHANGED lapse
       \/ "lose" \in Faults /\ lapse' = (lapse \/ owed) /\ UNCHANGED pending
    /\ Goto("cron", next)
    /\ UNCHANGED <<status, live, before, pinned, swapped, restored, steps,
                   outside, owed, coverLapse>>

Start == at["cron"] = "starting" /\ Hold("active", "startMark", "startPatch")
StartLost == at["cron"] = "starting" /\ HoldLost("active")
StartMark == Marked("startMark", "startPatch")

StartPatch ==
    /\ at["cron"] = "startPatch"
    /\ Move("warmup", tick.reads)
    /\ Goto("cron", "warmup")
    /\ UNCHANGED <<status, live, row, closed, outside, ghosts>>

(* The warmup is over: the baseline is read.                               *)
Baseline ==
    /\ at["cron"] = "warmup"
    /\ Patch("collecting", 0, tick.reads)
    /\ Finish("cron") /\ tick' = NoTick
    /\ UNCHANGED <<status, live, row, closed, outside, ghosts>>

(* Enough impressions, or enough time.                                     *)
Stop == at["cron"] = "collecting" /\ Hold("paused", "stopMark", "stopPatch")
StopLost == at["cron"] = "collecting" /\ HoldLost("paused")
StopMark == Marked("stopMark", "stopPatch")

StopPatch ==
    /\ at["cron"] = "stopPatch"
    /\ Patch("settling", 0, 0)
    /\ Finish("cron") /\ tick' = NoTick
    /\ UNCHANGED <<status, live, row, closed, outside, ghosts>>

(* Mutant: the journal of readings is not cut.                             *)
AllReadings(same) == IF same THEN tick.reads + 1 ELSE 1

(* How many of the last readings are equal.  Of the journal only the last  *)
(* `settle_stable_reads' are looked at.                                    *)
Readings(same) ==
    IF ~same THEN 1
    ELSE IF tick.reads >= StableReads THEN StableReads
    ELSE tick.reads + 1

(* settling: the reading equals the one before it, or starts a new row.    *)
Read ==
    \E same \in BOOLEAN :
        LET reads == Readings(same) IN
        /\ at["cron"] = "settling"
        /\ tick.reads = 0 => ~same
        /\ \/ /\ reads < StableReads                \* waiting
              /\ Patch(step.phase, 0, reads)
              /\ tick' = NoTick /\ Finish("cron")
              /\ UNCHANGED status
           \/ /\ reads < StableReads                \* timeout
              /\ Patch(step.phase, tick.streak, reads)
              /\ status' = IfRunning("paused")
              /\ tick' = NoTick /\ Goto("cron", "giveBack")
           \/ /\ reads >= StableReads               \* stable
              /\ Patch(step.phase, 0, reads)
              /\ tick' = [id |-> tick.id, variant |-> tick.variant,
                          streak |-> 0, reads |-> reads,
                          own |-> shown \subseteq {tick.variant}]
              /\ Goto("cron", "close")
              /\ UNCHANGED status
        /\ UNCHANGED <<live, row, closed, outside, ghosts>>

-----------------------------------------------------------------------------
(* transition_ctr_test.  It locks the row of the test.                     *)

Credited(by, own) ==
    Append(closed, [variant |-> step.variant, by |-> by, own |-> own])

(* A winner is announced among at least two variants that were shown; that *)
(* each has enough impressions is left to chance.                          *)
Comparable(rounds) ==
    Cardinality({rounds[i].variant : i \in DOMAIN rounds}) >= 2

CloseWith(next) ==
    LET rounds == Credited("cron", tick.own) IN
    \/ /\ status = "running"                        \* advance
       /\ next # NoVariant
       /\ closed' = rounds
       /\ \/ /\ step' = Opened(step.id + 1, next)
             /\ Finish("cron")
             /\ UNCHANGED status
          \/ /\ status' = "paused"                  \* spend cap
             /\ step' = NoStep /\ Goto("cron", "giveBack")
          \/ /\ status' = "done" /\ Comparable(rounds)
             /\ step' = NoStep /\ Goto("cron", "giveBack")
    \/ /\ status = "running"                        \* finish
       /\ next = NoVariant /\ Comparable(rounds)
       /\ closed' = rounds /\ step' = NoStep
       /\ status' = "done" /\ Goto("cron", "giveBack")
    \/ /\ status = "paused"                         \* finish behind a pause
       /\ next = NoVariant /\ Comparable(closed)
       /\ status' = "done" /\ Goto("cron", "giveBack")
       /\ UNCHANGED <<step, closed>>

(* Mutant: the closed step itself forgotten when the next one is chosen.   *)
SameAgain == PlanStep(Len(closed))

Following == PlanStep(Len(closed) + 1)

Close ==
    /\ at["cron"] = "close"
    /\ CloseWith(Following)
    /\ tick' = NoTick
    /\ UNCHANGED <<live, row, outside, ghosts>>


-----------------------------------------------------------------------------
(* Giving back what was borrowed: the end of a pass and of a request, and  *)
(* the queue of the cron.                                                  *)

(* Mutants: a queue without the paused tests, and one without the covers.  *)
ClosedOnly == status \in Closed /\ (pending \/ (swapped /\ ~restored))
CampaignOnly == status \in Stopped /\ pending

(* The queue: tests out of work whose campaign or cover is not back.       *)
InQueue ==
    \/ status \in Stopped /\ pending
    \/ status \in Closed /\ swapped /\ ~restored

Queue ==
    /\ at["cron"] = "idle" /\ InQueue
    /\ Goto("cron", "giveBack")
    /\ UNCHANGED <<status, live, row, steps, outside, ghosts>>

Home == IF before = "paused" THEN "paused" ELSE "active"

(* A pause leaves the cover where it is.                                   *)
After(p) == IF at[p] \in {"pauseBack", "pauseClear"} THEN "idle"
            ELSE "coverBack"

ToClear(p) == IF at[p] = "pauseBack" THEN "pauseClear" ELSE "clear"

(* Mutant: the mark cleared although the campaign was not given back.      *)
ClearAnyway(p) == ToClear(p)

AfterRefusal(p) == After(p)

(* restoreCampaignState(): the mark is read, then the campaign.            *)
GiveBack(p) ==
    /\ at[p] \in {"giveBack", "pauseBack"}
    /\ \/ /\ pending /\ campaign = Home
          /\ Goto(p, ToClear(p))
          /\ UNCHANGED <<campaign, owed, lapse>>
       \/ /\ pending /\ campaign \in Campaign \ {Home}
          /\ ChangeCampaign(p, Home, FALSE)
          /\ \/ Goto(p, ToClear(p))
             \/ "lose" \in Faults /\ Goto(p, After(p))
       \/ /\ ~pending
          /\ Goto(p, After(p))
          /\ UNCHANGED <<campaign, owed, lapse>>
    /\ UNCHANGED <<status, live, row, steps, cover, coverLapse>>

GiveBackRefused(p) ==
    /\ at[p] \in {"giveBack", "pauseBack"} /\ pending
    /\ campaign = "other" \/ "refuse" \in Faults
    /\ Goto(p, AfterRefusal(p))
    /\ UNCHANGED <<status, live, row, steps, outside, ghosts>>

Clear(p) ==
    /\ at[p] \in Clearing
    /\ pending' = FALSE
    /\ Goto(p, After(p))
    /\ UNCHANGED <<status, live, before, pinned, swapped, restored, steps,
                   outside, ghosts>>

(* restoreOriginalCover(), for a test that is over.                        *)
CoverBack(p) ==
    /\ at[p] = "coverBack"
    /\ \/ /\ status \in Closed /\ swapped /\ ~restored
          /\ cover' = pinned /\ coverLapse' = FALSE
          /\ \/ Goto(p, "coverMark")
             \/ "lose" \in Faults /\ Finish(p)
       \/ /\ ~(status \in Closed /\ swapped /\ ~restored)
          /\ Finish(p)
          /\ UNCHANGED <<cover, coverLapse>>
    /\ UNCHANGED <<status, live, row, steps, campaign, owed, lapse>>

(* Mutant: the cover marked as returned whatever Wildberries answered.     *)
MarkAnyway == "coverMark"

AfterCoverRefusal == "idle"

CoverRefused(p) ==
    /\ at[p] = "coverBack" /\ "refuse" \in Faults
    /\ status \in Closed /\ swapped /\ ~restored
    /\ Goto(p, AfterCoverRefusal)
    /\ UNCHANGED <<status, live, row, steps, outside, ghosts>>

CoverMark(p) ==
    /\ at[p] = "coverMark"
    /\ restored' = TRUE
    /\ Finish(p)
    /\ UNCHANGED <<status, live, before, pending, pinned, swapped, steps,
                   outside, ghosts>>

-----------------------------------------------------------------------------
(* POST /ctrtest/[id]/action.                                              *)

Ask == at["person"] = "idle"

(* The first start: the state of the campaign, a copy of the cover, the    *)
(* first step, the switch that lets the cron in, the label of the step.    *)
StartPrepare ==
    /\ Ask /\ status = "draft"
    /\ campaign \in Campaign
    /\ before' = campaign /\ pending' = FALSE
    /\ Goto("person", "pin")
    /\ UNCHANGED <<status, live, pinned, swapped, restored, steps, outside,
                   ghosts>>

StartPin ==
    /\ at["person"] = "pin"
    /\ pinned' = cover /\ swapped' = FALSE /\ restored' = FALSE
    /\ Goto("person", "begin")
    /\ UNCHANGED <<status, live, before, pending, steps, outside, ghosts>>

StartBegin ==
    /\ at["person"] = "begin"
    /\ status' = "running"
    /\ step' = Opened(1, PlanStep(0))
    /\ Goto("person", "flag")
    /\ UNCHANGED <<live, row, closed, tick, outside, ghosts>>

StartFlag ==
    /\ at["person"] = "flag"
    /\ live' = TRUE
    /\ Goto("person", "label")
    /\ UNCHANGED <<status, row, steps, outside, ghosts>>

StartLabel ==
    /\ at["person"] = "label"
    /\ step' = IF step = NoStep THEN NoStep ELSE Opened(step.id, step.variant)
    /\ Finish("person")
    /\ UNCHANGED <<status, live, row, closed, tick, outside, ghosts>>

(* Resuming starts the step anew; a test stopped by its spend cap has none *)
(* and stays where it is.                                                  *)
ResumeStep ==
    /\ Ask /\ status = "paused" /\ step # NoStep
    /\ step' = Opened(step.id, step.variant)
    /\ Goto("person", "resume")
    /\ UNCHANGED <<status, live, row, closed, tick, outside, ghosts>>

ResumeRun ==
    /\ at["person"] = "resume"
    /\ status' = IF status = "paused" THEN "running" ELSE status
    /\ Finish("person")
    /\ UNCHANGED <<live, row, steps, outside, ghosts>>

Pause ==
    /\ Ask /\ status = "running"
    /\ status' = "paused"
    /\ Goto("person", "pauseBack")
    /\ UNCHANGED <<live, row, steps, outside, ghosts>>

FinishTest ==
    /\ Ask
    /\ \/ /\ status = "running" /\ step # NoStep
          /\ closed' = Credited("person", TRUE) /\ step' = NoStep
       \/ status \in {"draft", "paused"} /\ UNCHANGED <<closed, step>>
    /\ Comparable(closed')
    /\ status' = "done"
    /\ Goto("person", "giveBack")
    /\ UNCHANGED <<live, row, tick, outside, ghosts>>

(* A cancelled row is not among the closed ones.                           *)
Cancel ==
    /\ Ask
    /\ status' = "cancelled"
    /\ step' = IF status = "running" THEN NoStep ELSE step
    /\ Goto("person", "giveBack")
    /\ UNCHANGED <<live, row, closed, tick, outside, ghosts>>

Winner ==
    /\ Ask /\ status # "running"
    /\ status' = "done"
    /\ Goto("person", "giveBack")
    /\ UNCHANGED <<live, row, steps, outside, ghosts>>

-----------------------------------------------------------------------------
(* What else happens.                                                      *)

(* The panel refuses to touch the campaign of a running test; Wildberries  *)
(* may end it at any time.                                                 *)
Owner ==
    /\ campaign \in Campaign
    /\ \/ campaign' = "other"
       \/ status # "running" /\ campaign' \in Campaign \ {campaign}
    /\ owed' = FALSE /\ lapse' = FALSE
    /\ UNCHANGED <<status, live, row, steps, cover, at, coverLapse>>

Die(p) ==
    /\ "die" \in Faults /\ at[p] # "idle"
    /\ Finish(p)
    /\ tick' = IF p = "cron" THEN NoTick ELSE tick
    /\ lapse' = (lapse \/ (owed /\ at[p] \in {"startMark", "stopMark"}))
    /\ coverLapse' = (coverLapse \/ (~swapped /\ at[p] = "swapMark"))
    /\ UNCHANGED <<status, live, row, step, closed, outside, owed>>

(* A running campaign shows the cover of the moment.                       *)
Observe(since) ==
    shown' = IF step'.phase \notin {"collecting", "settling"} THEN {}
             ELSE since \cup (IF campaign' = "active" THEN {cover'} ELSE {})

Tick ==
    \/ Begin \/ Wait \/ Refused
    \/ Swap \/ SwapLost \/ SwapMark \/ SwapPatch
    \/ Start \/ StartLost \/ StartMark \/ StartPatch
    \/ Stop \/ StopLost \/ StopMark \/ StopPatch
    \/ Read \/ Close

Returns(p) ==
    GiveBack(p) \/ GiveBackRefused(p) \/ Clear(p)
    \/ CoverBack(p) \/ CoverRefused(p) \/ CoverMark(p)

Person ==
    \/ StartPrepare \/ StartPin \/ StartBegin \/ StartFlag \/ StartLabel
    \/ ResumeStep \/ ResumeRun \/ Pause \/ FinishTest \/ Cancel \/ Winner

Cron == Tick \/ Baseline \/ Queue \/ Returns("cron")

Next ==
    \/ /\ \/ Tick \/ Queue \/ Person \/ Owner
          \/ \E p \in Procs : Returns(p) \/ Die(p)
       /\ Observe(shown)
    \/ Baseline /\ Observe({})

Spec == Init /\ [][Next]_vars

(* The cron runs every five minutes and its calls end; no call is killed   *)
(* for ever, and Wildberries does not refuse for ever.  Nobody has to      *)
(* press anything.                                                         *)
FairSpec ==
    /\ Spec
    /\ WF_vars(Cron /\ Observe(IF at["cron"] = "warmup" THEN {} ELSE shown))
    /\ SF_vars(/\ \/ GiveBack("cron")
                  \/ campaign = "other" /\ GiveBackRefused("cron")
               /\ Observe(shown))
    /\ SF_vars(Clear("cron") /\ Observe(shown))
    /\ SF_vars(CoverBack("cron") /\ Observe(shown))

-----------------------------------------------------------------------------
(* Where the cron works on the step it remembers.                          *)
Working == Phases \cup {"swapMark", "swapPatch", "startMark", "startPatch",
                        "stopMark", "stopPatch", "close"}

(* Every column, row and local copy keeps its range; counters stay below   *)
(* their limits, and a pass that works on a step remembers one.            *)
TypeOK ==
    /\ status \in {"draft", "running"} \cup Stopped
    /\ live \in BOOLEAN
    /\ before \in Campaign \cup {"none"}
    /\ pending \in BOOLEAN
    /\ pinned \in Covers \cup {NoVariant}
    /\ swapped \in BOOLEAN
    /\ restored \in BOOLEAN
    /\ step \in {NoStep} \cup
           [id : Nat \ {0}, variant : Variants, phase : Phases,
            streak : 0..MaxFail, reads : 0..StableReads]
    /\ tick \in {NoTick} \cup
           [id : Nat \ {0}, variant : Variants, streak : 0..MaxFail,
            reads : 0..StableReads, own : BOOLEAN]
    /\ closed \in Seq([variant : Variants, by : Procs, own : BOOLEAN])
    /\ campaign \in Campaign \cup {"other"}
    /\ cover \in Covers
    /\ at \in [Procs -> Labels]
    /\ at["cron"] \in Working <=> tick # NoTick
    /\ owed \in BOOLEAN
    /\ lapse \in BOOLEAN
    /\ coverLapse \in BOOLEAN
    /\ shown \subseteq Covers

(* campaign_restore_pending: a campaign the test left changed is marked    *)
(* for restoring.  What the code cannot promise is named: a mark that was  *)
(* never written, and a change made while an earlier one is being cleared. *)
MarkStands ==
    owed => pending \/ at["cron"] \in {"startMark", "stopMark"} \/ lapse

(* cover_swapped_at, cover_restored_at: a card that shows a variant will   *)
(* be found by the queue, with the same two exceptions.                    *)
CoverQueued ==
    cover # pinned /\ pinned # NoVariant =>
        \/ swapped /\ ~restored
        \/ at["cron"] = "swapMark"
        \/ coverLapse

(* A step credited by the cron was measured, from its baseline to its last *)
(* reading, under the cover of its own variant only.                       *)
CountedUnderOwnCover ==
    \A i \in DOMAIN closed : closed[i].by = "cron" => closed[i].own

(* The steps credited by the cron are those of the plan, in its order:     *)
(* none is skipped or done twice, whatever failed in between.              *)
PlanFollowed ==
    \A i \in DOMAIN closed : closed[i].variant = PlanStep(i - 1)

(* stepControl.ts: a paused test stands together with its step, until a    *)
(* person does something about it.                                         *)
PauseHolds ==
    [][status = "paused" /\ status' = "done" => at["person"]' # at["person"]]_vars

(* A stopped test gives the campaign back.                                 *)
GivenBack ==
    (status \in Stopped /\ owed) ~> (~owed \/ status = "running" \/ lapse)

(* A finished or cancelled test gives the cover back.                      *)
CoverReturned ==
    (status \in Closed /\ cover # pinned /\ pinned # NoVariant)
        ~> (cover = pinned \/ coverLapse)
=============================================================================
