------------------------- MODULE CtrEngineProofs -------------------------
(***************************************************************************)
(* The invariants of CtrEngine hold for every plan, failure limit and set  *)
(* of faults.  They are not inductive alone: IInv adds in what order a     *)
(* test borrows, who may be about to forget what it owes, and that between *)
(* the swap and the end of a step the card shows the step's variant.  Each *)
(* group of its conjuncts is kept by every step of the cron pass, of a     *)
(* person's request and of the owner, one lemma a group, one case a step.  *)
(***************************************************************************)
EXTENDS CtrEngine, TLAPS

(* A test is in play while its step may still be credited.                 *)
InPlay == status \in {"running", "paused"}
HasStep == step # NoStep

(* A draft has borrowed nothing, and only a draft is being prepared.       *)
DraftQuiet ==
    /\ status = "draft" =>
         /\ at["cron"] = "idle" /\ at["person"] \in {"idle", "pin", "begin"}
         /\ step = NoStep /\ closed = <<>>
         /\ ~pending /\ ~owed /\ ~swapped /\ ~restored
    /\ at["person"] \in {"pin", "begin"} => status = "draft"

(* Nothing is borrowed before the cover was pinned, nor is the cover       *)
(* pinned before the state of the campaign is known.                       *)
Prepared ==
    /\ pinned = NoVariant =>
         /\ status \in {"draft"} \cup Closed
         /\ step = NoStep /\ ~pending /\ ~owed /\ ~swapped /\ ~restored
         /\ at["cron"] = "idle"
         /\ at["person"] \in {"idle", "pin", "giveBack", "coverBack"}
    /\ before = "none" => pinned = NoVariant /\ at["person"] # "pin"

(* A running test has a step, and one being resumed keeps it.              *)
StepThere ==
    /\ status = "running" => HasStep
    /\ at["person"] = "resume" =>
         status # "running" /\ (status = "paused" => HasStep)

(* What is owed, and who may be about to forget it.                        *)
OwedIsAway == owed => campaign \in Campaign \ {before}
ClearingSafe == \A p \in Procs : at[p] \in Clearing => ~owed \/ lapse

(* A cover that was or is being returned is on the card.                   *)
ReturnedSafe ==
    (restored \/ \E p \in Procs : at[p] = "coverMark")
        => cover = pinned \/ coverLapse

(* The step is the plan's next one, and the cron's copy is of that step.   *)
StepIsPlanned == InPlay /\ HasStep => step.variant = PlanStep(Len(closed))
TickIsStep ==
    InPlay /\ tick # NoTick =>
        HasStep /\ tick.id = step.id /\ tick.variant = step.variant

(* From the swap to the end of the step the card shows its variant.        *)
PastSwap == Working \ {"swap"}
CoverIsStep ==
    InPlay =>
        /\ HasStep /\ step.phase # "swap" => cover = step.variant
        /\ at["cron"] \in PastSwap => cover = tick.variant
        /\ HasStep => shown \subseteq {step.variant}
ReadUnderOwn == InPlay /\ at["cron"] = "close" => tick.own

IInv ==
    /\ TypeOK /\ MarkStands /\ CoverQueued
    /\ CountedUnderOwnCover /\ PlanFollowed
    /\ DraftQuiet /\ Prepared /\ StepThere
    /\ OwedIsAway /\ ClearingSafe /\ ReturnedSafe
    /\ StepIsPlanned /\ TickIsStep /\ CoverIsStep /\ ReadUnderOwn

AnyStep ==
    \/ Tick \/ Baseline \/ Queue \/ Person \/ Owner
    \/ \E p \in Procs : Returns(p) \/ Die(p)

LEMMA DivMod ==
    ASSUME NEW n \in Nat, NEW p \in Nat \ {0}
    PROVE  /\ n % p \in 0..(p - 1) /\ n \div p \in Nat
           /\ n = p * (n \div p) + (n % p)
<1>1. n % p \in 0..(p - 1)
  OBVIOUS
<1>2. n \div p \in Nat
  OBVIOUS
<1>3. n = p * (n \div p) + (n % p)
  OBVIOUS
<1> QED BY <1>1, <1>2, <1>3

LEMMA QuotientBelow ==
    ASSUME NEW p \in Nat \ {0}, NEW l \in Nat, NEW q \in Nat,
           NEW r \in 0..(p - 1), p * q + r < l * p
    PROVE  q < l
<1>1. ASSUME q >= l PROVE FALSE
  <2>1. PICK d \in Nat : q = l + d
    BY <1>1
  <2>2. p * q = p * l + p * d
    BY <2>1
  <2>3. p * d >= 0 /\ p * l = l * p
    OBVIOUS
  <2> QED BY <2>1, <2>2, <2>3
<1> QED BY <1>1

LEMMA TotalStepsType == TotalSteps \in Nat \ {0}
<1>1. Len(Orders) \in Nat \ {0} /\ Len(Orders[1]) \in Nat \ {0}
  BY OrdersAreRounds
<1> QED BY <1>1 DEF TotalSteps

LEMMA PlanStepType ==
    ASSUME NEW n \in Nat, n < TotalSteps
    PROVE  PlanStep(n) \in Variants
<1> DEFINE p == Len(Orders[1])
           l == Len(Orders)
           q == n \div p
           r == n % p
<1>1. l \in Nat /\ p \in Nat \ {0}
  BY OrdersAreRounds
<1>2. r \in 0..(p - 1) /\ q \in Nat /\ n = p * q + r
  BY <1>1, DivMod
<1>3. TotalSteps = l * p
  BY DEF TotalSteps
<1>4. PlanStep(n) = Orders[q + 1][r + 1]
  <2>1. ~(n >= TotalSteps)
    BY TotalStepsType
  <2> QED BY <2>1, Zenon DEF PlanStep
<1> HIDE DEF q, r
<1>5. q < l
  BY <1>1, <1>2, <1>3, QuotientBelow
<1>6. q + 1 \in DOMAIN Orders
  BY <1>1, <1>2, <1>5, OrdersAreRounds
<1>7. Orders[q + 1] \in Seq(Variants) /\ Len(Orders[q + 1]) = p
  BY <1>6, OrdersAreRounds
<1>8. r + 1 \in 1..Len(Orders[q + 1])
  BY <1>1, <1>2, <1>7
<1> QED BY <1>4, <1>7, <1>8

StepRows == [id : Nat \ {0}, variant : Variants, phase : Phases,
             streak : 0..MaxFail, reads : 0..StableReads]
TickRows == [id : Nat \ {0}, variant : Variants, streak : 0..MaxFail,
             reads : 0..StableReads, own : BOOLEAN]

(* The three parts of TypeOK, which different facts keep.                  *)
ColumnsOK ==
    /\ status \in {"draft", "running"} \cup Stopped
    /\ live \in BOOLEAN
    /\ before \in Campaign \cup {"none"}
    /\ pending \in BOOLEAN
    /\ pinned \in Covers \cup {NoVariant}
    /\ swapped \in BOOLEAN
    /\ restored \in BOOLEAN
    /\ campaign \in Campaign \cup {"other"}
    /\ cover \in Covers
    /\ owed \in BOOLEAN
    /\ lapse \in BOOLEAN
    /\ coverLapse \in BOOLEAN
    /\ shown \subseteq Covers
StepsOK ==
    /\ step \in {NoStep} \cup StepRows
    /\ tick \in {NoTick} \cup TickRows
    /\ closed \in Seq([variant : Variants, by : Procs, own : BOOLEAN])
PlacesOK ==
    /\ at \in [Procs -> Labels]
    /\ at["cron"] \in Working <=> tick # NoTick

LEMMA TypeParts == TypeOK <=> ColumnsOK /\ StepsOK /\ PlacesOK
  BY DEF TypeOK, ColumnsOK, StepsOK, PlacesOK, StepRows, TickRows

LEMMA TypePartsAfter ==
    ASSUME ColumnsOK', StepsOK', PlacesOK'
    PROVE  TypeOK'
  BY DEF TypeOK, ColumnsOK, StepsOK, PlacesOK, StepRows, TickRows

LEMMA RowsApart ==
    /\ NoStep \notin StepRows /\ NoStep.id = 0 /\ NoTick.id = 0
    /\ NoTick \notin TickRows
  BY DEF NoStep, NoTick, StepRows, TickRows

LEMMA PatchTyped ==
    ASSUME StepsOK, tick # NoTick,
           NEW phase \in Phases \cup {step.phase}, NEW streak \in 0..MaxFail,
           NEW reads \in 0..StableReads, Patch(phase, streak, reads)
    PROVE  step' \in {NoStep} \cup StepRows
<1>1. CASE step.id # tick.id
  BY <1>1 DEF Patch, StepsOK
<1>2. CASE step.id = tick.id
  <2>1. step \in StepRows
    BY <1>2, RowsApart DEF StepsOK, TickRows
  <2> QED BY <1>2, <2>1 DEF Patch, StepRows
<1> QED BY <1>1, <1>2

LEMMA GotoTyped ==
    ASSUME at \in [Procs -> Labels], NEW p \in Procs, NEW label \in Labels,
           Goto(p, label)
    PROVE  /\ at' \in [Procs -> Labels] /\ at'[p] = label
           /\ \A q \in Procs \ {p} : at'[q] = at[q]
  BY DEF Goto

LEMMA ShownTyped ==
    ASSUME shown \subseteq Covers, cover' \in Covers,
           NEW since \in SUBSET shown, Observe(since)
    PROVE  shown' \subseteq Covers
  BY DEF Observe

LEMMA ChangeTyped ==
    ASSUME ColumnsOK, NEW p \in Procs, NEW target \in Campaign,
           NEW unmarked \in BOOLEAN, ChangeCampaign(p, target, unmarked)
    PROVE  campaign' \in Campaign /\ owed' \in BOOLEAN /\ lapse' \in BOOLEAN
<1>1. campaign' \in Campaign /\ owed' \in BOOLEAN
  BY DEF ChangeCampaign
<1>2. lapse' \in BOOLEAN
  BY Zenon DEF ChangeCampaign
<1> QED BY <1>1, <1>2

LEMMA FailTyped ==
    ASSUME StepsOK, tick # NoTick, NEW fatal \in BOOLEAN, Fail(fatal)
    PROVE  step' \in {NoStep} \cup StepRows /\ tick' = NoTick
<1> DEFINE streak == IF tick.streak + 1 > MaxFail THEN MaxFail
                     ELSE tick.streak + 1
<1>1. tick.streak \in 0..MaxFail /\ tick.reads \in 0..StableReads
  BY DEF StepsOK, TickRows
<1>2. streak \in 0..MaxFail
  BY <1>1, FailIsPositive
<1>3. Patch(step.phase, streak, tick.reads) /\ tick' = NoTick
  BY DEF Fail
<1> QED BY <1>1, <1>2, <1>3, PatchTyped

LEMMA MoveTyped ==
    ASSUME StepsOK, tick # NoTick, NEW phase \in Phases,
           NEW reads \in 0..StableReads, Move(phase, reads)
    PROVE  /\ step' \in {NoStep} \cup StepRows
           /\ tick' \in TickRows /\ tick' # NoTick
<1>1. tick' \in TickRows
  BY FailIsPositive DEF Move, StepsOK, TickRows
<1>2. step' \in {NoStep} \cup StepRows
  BY PatchTyped, FailIsPositive DEF Move
<1> QED BY <1>1, <1>2, RowsApart

LEMMA OpenedTyped ==
    ASSUME NEW id \in Nat \ {0}, NEW variant \in Variants
    PROVE  Opened(id, variant) \in StepRows
  BY FailIsPositive, ReadsAreEnough DEF Opened, StepRows, Phases

LEMMA StepFound ==
    ASSUME StepsOK, step # NoStep
    PROVE  /\ step \in StepRows /\ step.id \in Nat \ {0}
           /\ step.variant \in Variants
  BY DEF StepsOK, StepRows

LEMMA CreditedTyped ==
    ASSUME StepsOK, step # NoStep, NEW by \in Procs, NEW own \in BOOLEAN
    PROVE  Credited(by, own)
             \in Seq([variant : Variants, by : Procs, own : BOOLEAN])
<1>1. [variant |-> step.variant, by |-> by, own |-> own]
        \in [variant : Variants, by : Procs, own : BOOLEAN]
  BY StepFound
<1> QED BY <1>1 DEF Credited, StepsOK

LEMMA FollowingTyped ==
    ASSUME StepsOK, Following # NoVariant
    PROVE  Following \in Variants
<1>1. Len(closed) + 1 \in Nat
  BY DEF StepsOK
<1>2. Len(closed) + 1 < TotalSteps
  <2>1. ~(Len(closed) + 1 >= TotalSteps)
    BY Zenon DEF Following, PlanStep
  <2> QED BY <1>1, <2>1, TotalStepsType
<1> QED BY <1>1, <1>2, PlanStepType DEF Following

(* A marked campaign has a home: the state it was borrowed in.             *)
LEMMA HomeIsBefore ==
    ASSUME ColumnsOK, Prepared, pending
    PROVE  Home = before /\ before \in Campaign
  BY VariantsApart DEF ColumnsOK, Prepared, Home, Campaign

(* Only `p' moves, from one of `here' to one of `there'.                   *)
Moves(p, here, there) ==
    \/ /\ p = "cron" /\ at'["person"] = at["person"]
       /\ at["cron"] \in here /\ at'["cron"] \in there
    \/ /\ p = "person" /\ at'["cron"] = at["cron"]
       /\ at["person"] \in here /\ at'["person"] \in there

LEMMA GotoMoves ==
    ASSUME PlacesOK, NEW p \in Procs, NEW label \in Labels, Goto(p, label)
    PROVE  Moves(p, {at[p]}, {label})
<1>1. CASE p = "cron"
  BY <1>1, GotoTyped DEF PlacesOK, Moves, Procs
<1>2. CASE p = "person"
  BY <1>2, GotoTyped DEF PlacesOK, Moves, Procs
<1> QED BY <1>1, <1>2 DEF Procs

LEMMA GiveBackMoves ==
    ASSUME ColumnsOK, PlacesOK, Prepared, OwedIsAway,
           NEW p \in Procs, GiveBack(p)
    PROVE  /\ Moves(p, {"giveBack", "pauseBack"},
                    {"clear", "pauseClear", "coverBack", "idle"})
           /\ \/ pending /\ ~owed'
              \/ /\ ~pending /\ at'[p] \notin Clearing
                 /\ UNCHANGED <<campaign, owed, lapse>>
           /\ UNCHANGED <<status, live, row, steps, cover, coverLapse>>
<1>1. PICK l \in {"clear", "pauseClear", "coverBack", "idle"} :
        /\ Goto(p, l)
        /\ \/ /\ pending /\ campaign = Home
              /\ UNCHANGED <<campaign, owed, lapse>>
           \/ pending /\ ChangeCampaign(p, Home, FALSE)
           \/ /\ ~pending /\ l \notin Clearing
              /\ UNCHANGED <<campaign, owed, lapse>>
  BY DEF GiveBack, ToClear, After, Clearing
<1>2. at'[p] = l /\ Moves(p, {at[p]}, {l})
  BY <1>1, GotoTyped, GotoMoves DEF PlacesOK, Labels
<1>3. Moves(p, {"giveBack", "pauseBack"},
            {"clear", "pauseClear", "coverBack", "idle"})
  BY <1>2 DEF Moves, GiveBack
<1>4. CASE pending
  <2>1. Home = before
    BY <1>4, HomeIsBefore
  <2>2. CASE campaign = Home /\ UNCHANGED <<campaign, owed, lapse>>
    <3>1. ~owed
      BY <2>1, <2>2 DEF OwedIsAway
    <3> QED BY <2>2, <3>1, <1>3, <1>4 DEF GiveBack
  <2>3. CASE ChangeCampaign(p, Home, FALSE)
    <3>1. ~owed'
      BY <2>1, <2>3 DEF ChangeCampaign
    <3> QED BY <3>1, <1>3, <1>4 DEF GiveBack
  <2> QED BY <1>1, <1>4, <2>2, <2>3
<1>5. CASE ~pending
  BY <1>1, <1>2, <1>3, <1>5 DEF GiveBack
<1> QED BY <1>4, <1>5

LEMMA ClearMoves ==
    ASSUME PlacesOK, NEW p \in Procs, Clear(p)
    PROVE  Moves(p, Clearing, {"coverBack", "idle"})
<1>1. PICK l \in {"coverBack", "idle"} : Goto(p, l)
  BY DEF Clear, After
<1>2. Moves(p, {at[p]}, {l})
  BY <1>1, GotoMoves DEF Labels
<1> QED BY <1>1, <1>2 DEF Moves, Clear

LEMMA CoverMarkMoves ==
    ASSUME PlacesOK, NEW p \in Procs, CoverMark(p)
    PROVE  Moves(p, {"coverMark"}, {"idle"})
<1>1. Moves(p, {at[p]}, {"idle"})
  BY GotoMoves DEF CoverMark, Finish, Labels
<1> QED BY <1>1 DEF Moves, CoverMark

LEMMA AppendKeeps ==
    ASSUME NEW S, NEW s \in Seq(S), NEW x \in S
    PROVE  /\ DOMAIN Append(s, x) = 1..(Len(s) + 1)
           /\ Len(Append(s, x)) = Len(s) + 1
           /\ \A i \in 1..Len(s) : Append(s, x)[i] = s[i]
           /\ Append(s, x)[Len(s) + 1] = x
  OBVIOUS

LEMMA CreditedRow ==
    ASSUME StepsOK, step # NoStep, NEW by \in Procs, NEW own \in BOOLEAN,
           closed' = Credited(by, own)
    PROVE  /\ Len(closed) \in Nat /\ DOMAIN closed = 1..Len(closed)
           /\ DOMAIN closed' = 1..(Len(closed) + 1)
           /\ Len(closed') = Len(closed) + 1
           /\ \A i \in 1..Len(closed) : closed'[i] = closed[i]
           /\ closed'[Len(closed) + 1] =
                [variant |-> step.variant, by |-> by, own |-> own]
<1>1. [variant |-> step.variant, by |-> by, own |-> own]
        \in [variant : Variants, by : Procs, own : BOOLEAN]
  BY StepFound
<1> QED BY <1>1, AppendKeeps DEF Credited, StepsOK

LEMMA CreditedOwn ==
    ASSUME StepsOK, step # NoStep, CountedUnderOwnCover,
           NEW by \in Procs, NEW own \in BOOLEAN, own = TRUE,
           closed' = Credited(by, own)
    PROVE  CountedUnderOwnCover'
<1>0. /\ Len(closed) \in Nat /\ DOMAIN closed = 1..Len(closed)
      /\ DOMAIN closed' = 1..(Len(closed) + 1)
      /\ Len(closed') = Len(closed) + 1
      /\ \A i \in 1..Len(closed) : closed'[i] = closed[i]
      /\ closed'[Len(closed) + 1] =
           [variant |-> step.variant, by |-> by, own |-> own]
  BY CreditedRow
<1>1. ASSUME NEW i \in DOMAIN closed', closed'[i].by = "cron"
      PROVE  closed'[i].own
  <2>1. CASE i \in 1..Len(closed)
    <3>1. closed'[i] = closed[i] /\ i \in DOMAIN closed
      BY <2>1, <1>0
    <3> QED BY <1>1, <3>1, Zenon DEF CountedUnderOwnCover
  <2>2. CASE i = Len(closed) + 1
    <3>1. closed'[i] = [variant |-> step.variant, by |-> by, own |-> own]
      BY <2>2, <1>0
    <3>2. closed'[i].own = TRUE
      BY <3>1
    <3> QED BY <3>2
  <2>3. i \in 1..Len(closed) \/ i = Len(closed) + 1
    BY <1>0
  <2> QED BY <2>1, <2>2, <2>3, Zenon
<1> QED BY <1>1 DEF CountedUnderOwnCover

LEMMA CreditedInOrder ==
    ASSUME StepsOK, step # NoStep, PlanFollowed,
           step.variant = PlanStep(Len(closed)),
           NEW by \in Procs, NEW own \in BOOLEAN,
           closed' = Credited(by, own)
    PROVE  PlanFollowed' /\ Len(closed') = Len(closed) + 1
<1>0. /\ Len(closed) \in Nat /\ DOMAIN closed = 1..Len(closed)
      /\ DOMAIN closed' = 1..(Len(closed) + 1)
      /\ Len(closed') = Len(closed) + 1
      /\ \A i \in 1..Len(closed) : closed'[i] = closed[i]
      /\ closed'[Len(closed) + 1] =
           [variant |-> step.variant, by |-> by, own |-> own]
  BY CreditedRow
<1>1. ASSUME NEW i \in DOMAIN closed'
      PROVE  closed'[i].variant = PlanStep(i - 1)
  <2>1. CASE i \in 1..Len(closed)
    BY <2>1, <1>0 DEF PlanFollowed
  <2>2. CASE i = Len(closed) + 1
    <3>1. i - 1 = Len(closed)
      BY <2>2, <1>0
    <3> QED BY <2>2, <3>1, <1>0
  <2> QED BY <1>1, <2>1, <2>2, <1>0
<1> QED BY <1>1, <1>0 DEF PlanFollowed

LEMMA ColumnsKept ==
    ASSUME IInv, ColumnsOK, StepsOK, PlacesOK, NEW since \in SUBSET shown,
        AnyStep, Observe(since)
    PROVE  (ColumnsOK)'
<1> USE DEF IInv, ColumnsOK, DraftQuiet, Prepared, StepThere, HasStep,
     StepsOK, PlacesOK, row, steps, outside, ghosts, Observe, Covers,
     NoStep, NoTick, Working, Phases, Procs, Campaign, Closed, Stopped,
     Clearing, Home, TickRows
<1>1. CASE Begin
  BY <1>1 DEF Begin
<1>2. CASE Wait
  BY <1>2 DEF Wait, Patch
<1>3. CASE Refused
  BY <1>3 DEF Refused, Fail, IfRunning, Patch
<1>4. CASE Swap
  BY <1>4 DEF Swap, ChangeCover, Returning
<1>5. CASE SwapLost
  BY <1>5 DEF SwapLost, ChangeCover, Returning, Fail, IfRunning, Patch
<1>6. CASE SwapMark
  BY <1>6 DEF SwapMark, Returning
<1>7. CASE SwapPatch
  BY <1>7 DEF SwapPatch, Move, Patch
<1>8. CASE Start
  <2>1. shown' \subseteq Covers
    BY <1>8, ShownTyped DEF Start, Hold
  <2>2. CASE campaign' = campaign /\ owed' = owed /\ lapse' = lapse
    BY <1>8, <2>1, <2>2 DEF Start, Hold
  <2>3. CASE ChangeCampaign("cron", "active", FALSE)
    <3>1. campaign' \in Campaign /\ owed' \in BOOLEAN /\ lapse' \in BOOLEAN
      BY <2>3, ChangeTyped
    <3> QED BY <1>8, <2>1, <3>1 DEF Start, Hold
  <2> QED BY <1>8, <2>2, <2>3 DEF Start, Hold
<1>9. CASE StartLost
  BY <1>9 DEF StartLost, HoldLost, ChangeCampaign, Fail, IfRunning, Patch
<1>10. CASE StartMark
  <2> HIDE DEF Observe
  <2>1. shown' \subseteq Covers
    BY <1>10, ShownTyped DEF StartMark, Marked
  <2>2. lapse' \in BOOLEAN /\ pending' \in BOOLEAN
    BY <1>10 DEF StartMark, Marked
  <2> QED BY <1>10, <2>1, <2>2 DEF StartMark, Marked
<1>11. CASE StartPatch
  BY <1>11 DEF StartPatch, Move, Patch
<1>12. CASE Baseline
  BY <1>12 DEF Baseline, Patch
<1>13. CASE Stop
  <2>1. shown' \subseteq Covers
    BY <1>13, ShownTyped DEF Stop, Hold
  <2>2. CASE campaign' = campaign /\ owed' = owed /\ lapse' = lapse
    BY <1>13, <2>1, <2>2 DEF Stop, Hold
  <2>3. CASE ChangeCampaign("cron", "paused", FALSE)
    <3>1. campaign' \in Campaign /\ owed' \in BOOLEAN /\ lapse' \in BOOLEAN
      BY <2>3, ChangeTyped
    <3> QED BY <1>13, <2>1, <3>1 DEF Stop, Hold
  <2> QED BY <1>13, <2>2, <2>3 DEF Stop, Hold
<1>14. CASE StopLost
  BY <1>14 DEF StopLost, HoldLost, ChangeCampaign, Fail, IfRunning, Patch
<1>15. CASE StopMark
  <2> HIDE DEF Observe
  <2>1. shown' \subseteq Covers
    BY <1>15, ShownTyped DEF StopMark, Marked
  <2>2. lapse' \in BOOLEAN /\ pending' \in BOOLEAN
    BY <1>15 DEF StopMark, Marked
  <2> QED BY <1>15, <2>1, <2>2 DEF StopMark, Marked
<1>16. CASE StopPatch
  BY <1>16 DEF StopPatch, Patch
<1>17. CASE Read
  BY <1>17 DEF Read, Readings, IfRunning, Patch
<1>18. CASE Close
  BY <1>18 DEF Close, CloseWith, Credited, Opened, Following
<1>19. CASE Queue
  BY <1>19 DEF Queue, InQueue
<1>20. CASE StartPrepare
  BY <1>20 DEF StartPrepare, Ask
<1>21. CASE StartPin
  BY <1>21 DEF StartPin
<1>22. CASE StartBegin
  BY <1>22 DEF StartBegin, Opened
<1>23. CASE StartFlag
  BY <1>23 DEF StartFlag
<1>24. CASE StartLabel
  BY <1>24 DEF StartLabel, Opened
<1>25. CASE ResumeStep
  BY <1>25 DEF ResumeStep, Ask, Opened
<1>26. CASE ResumeRun
  BY <1>26 DEF ResumeRun
<1>27. CASE Pause
  BY <1>27 DEF Pause, Ask
<1>28. CASE FinishTest
  BY <1>28 DEF FinishTest, Ask, Credited
<1>29. CASE Cancel
  BY <1>29 DEF Cancel, Ask
<1>30. CASE Winner
  BY <1>30 DEF Winner, Ask
<1>31. CASE Owner
  <2>1. owed' \in BOOLEAN /\ lapse' \in BOOLEAN
    BY <1>31 DEF Owner
  <2>2. campaign' \in Campaign \cup {"other"} /\ cover' = cover
    BY <1>31 DEF Owner
  <2>3. shown' \subseteq Covers
    BY <2>2
  <2> QED BY <1>31, <2>1, <2>2, <2>3 DEF Owner
<1>32. ASSUME NEW p \in Procs, Returns(p) \/ Die(p)
      PROVE  (ColumnsOK)'
  <2>1. CASE GiveBack(p)
    <3>1. shown' \subseteq Covers
      BY <2>1, ShownTyped DEF GiveBack
    <3>2. CASE campaign' = campaign /\ owed' = owed /\ lapse' = lapse
      BY <2>1, <3>1, <3>2 DEF GiveBack
    <3>3. CASE ChangeCampaign(p, Home, FALSE)
      <4>1. Home \in Campaign
        BY DEF Home
      <4>2. campaign' \in Campaign /\ owed' \in BOOLEAN /\ lapse' \in BOOLEAN
        BY <3>3, <4>1, ChangeTyped
      <4> QED BY <2>1, <3>1, <4>2 DEF GiveBack
    <3> QED BY <2>1, <3>2, <3>3 DEF GiveBack
  <2>2. CASE GiveBackRefused(p)
    BY <2>2 DEF GiveBackRefused, AfterRefusal, After
  <2>3. CASE Clear(p)
    <3> HIDE DEF Observe
    <3>1. shown' \subseteq Covers
      BY <2>3, ShownTyped DEF Clear
    <3>2. pending' \in BOOLEAN
      BY <2>3 DEF Clear
    <3> QED BY <2>3, <3>1, <3>2 DEF Clear
  <2>4. CASE CoverBack(p)
    <3>1. cover' \in Covers
      BY <2>4 DEF CoverBack
    <3> HIDE DEF Observe
    <3>2. shown' \subseteq Covers
      BY <3>1, ShownTyped
    <3>3. coverLapse' \in BOOLEAN
      BY <2>4 DEF CoverBack
    <3> QED BY <2>4, <3>1, <3>2, <3>3 DEF CoverBack
  <2>5. CASE CoverRefused(p)
    BY <2>5 DEF CoverRefused, AfterCoverRefusal
  <2>6. CASE CoverMark(p)
    BY <2>6 DEF CoverMark
  <2>7. CASE Die(p)
    BY <2>7 DEF Die
  <2> QED BY <1>32, <2>1, <2>2, <2>3, <2>4, <2>5, <2>6, <2>7 DEF Returns
<1> QED BY <1>1, <1>2, <1>3, <1>4, <1>5, <1>6, <1>7, <1>8, <1>9, <1>10,
     <1>11, <1>12, <1>13, <1>14, <1>15, <1>16, <1>17, <1>18, <1>19, <1>20,
          <1>21, <1>22, <1>23, <1>24, <1>25, <1>26, <1>27, <1>28, <1>29,
               <1>30, <1>31, <1>32 DEF AnyStep, Tick, Person

LEMMA StepsKept ==
    ASSUME IInv, ColumnsOK, StepsOK, PlacesOK, NEW since \in SUBSET shown,
        AnyStep, Observe(since)
    PROVE  (StepsOK)'
<1> USE DEF IInv, StepsOK, PlacesOK, ColumnsOK, DraftQuiet, Prepared,
     StepThere, HasStep, row, steps, outside, ghosts, NoStep, NoTick,
     Working, Phases, Procs, TickRows, StepRows, Closed, Stopped
<1>1. CASE Begin
  BY <1>1 DEF Begin
<1>2. CASE Wait
  <2>1. tick # NoTick /\ tick.reads \in 0..StableReads
    BY <1>2 DEF Wait
  <2>2. CASE UNCHANGED step
    BY <1>2, <2>2 DEF Wait
  <2>3. CASE Patch(step.phase, 0, tick.reads)
    <3>1. step' \in {NoStep} \cup StepRows
      BY <2>1, <2>3, FailIsPositive, PatchTyped
    <3> QED BY <1>2, <3>1 DEF Wait
  <2> QED BY <1>2, <2>2, <2>3 DEF Wait
<1>3. CASE Refused
  <2>1. tick # NoTick
    BY <1>3 DEF Refused
  <2>2. PICK fatal \in BOOLEAN : Fail(fatal)
    BY <1>3 DEF Refused
  <2>3. step' \in {NoStep} \cup StepRows /\ tick' = NoTick
    BY <2>1, <2>2, FailTyped
  <2> QED BY <1>3, <2>3 DEF Refused
<1>4. CASE Swap
  BY <1>4 DEF Swap, ChangeCover, Returning
<1>5. CASE SwapLost
  <2>1. tick # NoTick
    BY <1>5 DEF SwapLost
  <2>2. step' \in {NoStep} \cup StepRows /\ tick' = NoTick
    BY <1>5, <2>1, FailTyped DEF SwapLost
  <2> QED BY <1>5, <2>2 DEF SwapLost
<1>6. CASE SwapMark
  BY <1>6 DEF SwapMark, Returning
<1>7. CASE SwapPatch
  <2>1. tick # NoTick /\ tick.reads \in 0..StableReads
    BY <1>7 DEF SwapPatch
  <2>2. step' \in {NoStep} \cup StepRows /\ tick' \in TickRows
    BY <1>7, <2>1, MoveTyped DEF SwapPatch
  <2> QED BY <1>7, <2>2 DEF SwapPatch
<1>8. CASE Start
  BY <1>8 DEF Start, Hold, ChangeCampaign
<1>9. CASE StartLost
  <2>1. tick # NoTick
    BY <1>9 DEF StartLost
  <2>2. step' \in {NoStep} \cup StepRows /\ tick' = NoTick
    BY <1>9, <2>1, FailTyped DEF StartLost, HoldLost
  <2> QED BY <1>9, <2>2 DEF StartLost, HoldLost
<1>10. CASE StartMark
  BY <1>10 DEF StartMark, Marked
<1>11. CASE StartPatch
  <2>1. tick # NoTick /\ tick.reads \in 0..StableReads
    BY <1>11 DEF StartPatch
  <2>2. step' \in {NoStep} \cup StepRows /\ tick' \in TickRows
    BY <1>11, <2>1, MoveTyped DEF StartPatch
  <2> QED BY <1>11, <2>2 DEF StartPatch
<1>12. CASE Baseline
  <2>1. tick # NoTick /\ tick.reads \in 0..StableReads
    BY <1>12 DEF Baseline
  <2>2. step' \in {NoStep} \cup StepRows
    BY <1>12, <2>1, FailIsPositive, ReadsAreEnough, PatchTyped DEF Baseline
  <2> QED BY <1>12, <2>2 DEF Baseline
<1>13. CASE Stop
  BY <1>13 DEF Stop, Hold, ChangeCampaign
<1>14. CASE StopLost
  <2>1. tick # NoTick
    BY <1>14 DEF StopLost
  <2>2. step' \in {NoStep} \cup StepRows /\ tick' = NoTick
    BY <1>14, <2>1, FailTyped DEF StopLost, HoldLost
  <2> QED BY <1>14, <2>2 DEF StopLost, HoldLost
<1>15. CASE StopMark
  BY <1>15 DEF StopMark, Marked
<1>16. CASE StopPatch
  <2>1. tick # NoTick /\ tick.reads \in 0..StableReads
    BY <1>16 DEF StopPatch
  <2>2. step' \in {NoStep} \cup StepRows
    BY <1>16, <2>1, FailIsPositive, ReadsAreEnough, PatchTyped DEF StopPatch
  <2> QED BY <1>16, <2>2 DEF StopPatch
<1>17. CASE Read
  <2>1. /\ tick # NoTick /\ tick.reads \in 0..StableReads
        /\ tick.streak \in 0..MaxFail
    BY <1>17 DEF Read
  <2>2. PICK same \in BOOLEAN :
          \/ Patch(step.phase, 0, Readings(same)) /\ tick' = NoTick
          \/ Patch(step.phase, tick.streak, Readings(same)) /\ tick' = NoTick
          \/ /\ Patch(step.phase, 0, Readings(same))
             /\ tick' = [id |-> tick.id, variant |-> tick.variant,
                         streak |-> 0, reads |-> Readings(same),
                         own |-> shown \subseteq {tick.variant}]
    BY <1>17 DEF Read
  <2>3. Readings(same) \in 0..StableReads
    BY <2>1, ReadsAreEnough DEF Readings
  <2>4. step' \in {NoStep} \cup StepRows
    BY <2>1, <2>2, <2>3, FailIsPositive, PatchTyped
  <2>5. tick' \in {NoTick} \cup TickRows
    <3>1. tick.id \in Nat \ {0} /\ tick.variant \in Variants
      BY <2>1
    <3>2. (shown \subseteq {tick.variant}) \in BOOLEAN
      OBVIOUS
    <3>3. 0 \in 0..MaxFail
      BY FailIsPositive
    <3>4. [id |-> tick.id, variant |-> tick.variant, streak |-> 0,
           reads |-> Readings(same), own |-> shown \subseteq {tick.variant}]
            \in TickRows
      BY <2>3, <3>1, <3>2, <3>3
    <3> QED BY <2>2, <3>4
  <2> QED BY <1>17, <2>4, <2>5 DEF Read
<1>18. CASE Close
  <2>1. tick # NoTick /\ tick.own \in BOOLEAN
    BY <1>18 DEF Close
  <2>2. CASE step' = step /\ closed' = closed
    BY <1>18, <2>2 DEF Close
  <2>3. CASE status = "running" /\ closed' = Credited("cron", tick.own)
    <3>1. step # NoStep
      BY <2>3
    <3>2. closed' \in Seq([variant : Variants, by : Procs, own : BOOLEAN])
      BY <2>1, <2>3, <3>1, CreditedTyped
    <3>3. step' = NoStep \/ (/\ step' = Opened(step.id + 1, Following)
                            /\ Following # NoVariant)
      BY <1>18, <2>3 DEF Close, CloseWith
    <3>4. step.id + 1 \in Nat \ {0}
      BY <3>1, StepFound
    <3>5. step' \in {NoStep} \cup StepRows
      BY <3>3, <3>4, FollowingTyped, OpenedTyped
    <3> QED BY <1>18, <3>2, <3>5 DEF Close
  <2> QED BY <1>18, <2>2, <2>3 DEF Close, CloseWith
<1>19. CASE Queue
  BY <1>19 DEF Queue, InQueue
<1>20. CASE StartPrepare
  BY <1>20 DEF StartPrepare, Ask
<1>21. CASE StartPin
  BY <1>21 DEF StartPin
<1>22. CASE StartBegin
  <2>1. step' \in StepRows
    BY <1>22, TotalStepsType, PlanStepType, OpenedTyped DEF StartBegin
  <2> QED BY <1>22, <2>1 DEF StartBegin
<1>23. CASE StartFlag
  BY <1>23 DEF StartFlag
<1>24. CASE StartLabel
  <2>1. step' \in {NoStep} \cup StepRows
    BY <1>24, StepFound, OpenedTyped DEF StartLabel
  <2> QED BY <1>24, <2>1 DEF StartLabel
<1>25. CASE ResumeStep
  <2>1. step' \in StepRows
    BY <1>25, StepFound, OpenedTyped DEF ResumeStep
  <2> QED BY <1>25, <2>1 DEF ResumeStep
<1>26. CASE ResumeRun
  BY <1>26 DEF ResumeRun
<1>27. CASE Pause
  BY <1>27 DEF Pause, Ask
<1>28. CASE FinishTest
  <2>1. CASE step # NoStep /\ closed' = Credited("person", TRUE)
    <3>1. closed' \in Seq([variant : Variants, by : Procs, own : BOOLEAN])
      BY <2>1, CreditedTyped
    <3> QED BY <1>28, <2>1, <3>1 DEF FinishTest
  <2> QED BY <1>28, <2>1 DEF FinishTest
<1>29. CASE Cancel
  BY <1>29 DEF Cancel, Ask
<1>30. CASE Winner
  BY <1>30 DEF Winner, Ask
<1>31. CASE Owner
  BY <1>31 DEF Owner
<1>32. ASSUME NEW p \in Procs, Returns(p) \/ Die(p)
      PROVE  (StepsOK)'
  <2>1. CASE GiveBack(p)
    BY <2>1 DEF GiveBack, Home, ToClear, After, ChangeCampaign
  <2>2. CASE GiveBackRefused(p)
    BY <2>2 DEF GiveBackRefused, AfterRefusal, After
  <2>3. CASE Clear(p)
    BY <2>3 DEF Clear, After
  <2>4. CASE CoverBack(p)
    BY <2>4 DEF CoverBack
  <2>5. CASE CoverRefused(p)
    BY <2>5 DEF CoverRefused, AfterCoverRefusal
  <2>6. CASE CoverMark(p)
    BY <2>6 DEF CoverMark
  <2>7. CASE Die(p)
    BY <2>7 DEF Die
  <2> QED BY <1>32, <2>1, <2>2, <2>3, <2>4, <2>5, <2>6, <2>7 DEF Returns
<1> QED BY <1>1, <1>2, <1>3, <1>4, <1>5, <1>6, <1>7, <1>8, <1>9, <1>10,
     <1>11, <1>12, <1>13, <1>14, <1>15, <1>16, <1>17, <1>18, <1>19, <1>20,
          <1>21, <1>22, <1>23, <1>24, <1>25, <1>26, <1>27, <1>28, <1>29,
               <1>30, <1>31, <1>32 DEF AnyStep, Tick, Person

LEMMA PlacesKept ==
    ASSUME IInv, ColumnsOK, StepsOK, PlacesOK, NEW since \in SUBSET shown,
        AnyStep, Observe(since)
    PROVE  (PlacesOK)'
<1> USE DEF IInv, PlacesOK, StepsOK, Goto, Finish, row, steps, outside,
     ghosts, NoTick, TickRows, Working, Phases, Procs, Labels, Clearing
<1>1. CASE Begin
  <2>1. step \in StepRows /\ tick'.id = step.id
    BY <1>1, StepFound DEF Begin
  <2>2. tick' # NoTick
    BY <2>1, RowsApart DEF StepRows
  <2>3. Goto("cron", step.phase) /\ step.phase \in Phases
    BY <1>1, <2>1 DEF Begin, StepRows
  <2>4. at' \in [Procs -> Labels] /\ at'["cron"] = step.phase
    BY <2>3, GotoTyped
  <2> QED BY <2>2, <2>3, <2>4
<1>2. CASE Wait
  BY <1>2 DEF Wait, Patch
<1>3. CASE Refused
  BY <1>3 DEF Refused, Fail, IfRunning, Patch
<1>4. CASE Swap
  BY <1>4 DEF Swap, ChangeCover, Returning
<1>5. CASE SwapLost
  BY <1>5 DEF SwapLost, ChangeCover, Returning, Fail, IfRunning, Patch
<1>6. CASE SwapMark
  BY <1>6 DEF SwapMark, Returning
<1>7. CASE SwapPatch
  BY <1>7 DEF SwapPatch, Move, Patch
<1>8. CASE Start
  <2>1. PICK l \in {"startMark", "startPatch"} : Goto("cron", l)
    BY <1>8 DEF Start, Hold
  <2>2. at' \in [Procs -> Labels] /\ at'["cron"] = l
    BY <2>1, GotoTyped
  <2> QED BY <1>8, <2>2 DEF Start, Hold
<1>9. CASE StartLost
  BY <1>9 DEF StartLost, HoldLost, ChangeCampaign, Fail, IfRunning, Patch
<1>10. CASE StartMark
  BY <1>10 DEF StartMark, Marked
<1>11. CASE StartPatch
  BY <1>11 DEF StartPatch, Move, Patch
<1>12. CASE Baseline
  BY <1>12 DEF Baseline, Patch
<1>13. CASE Stop
  <2>1. PICK l \in {"stopMark", "stopPatch"} : Goto("cron", l)
    BY <1>13 DEF Stop, Hold
  <2>2. at' \in [Procs -> Labels] /\ at'["cron"] = l
    BY <2>1, GotoTyped
  <2> QED BY <1>13, <2>2 DEF Stop, Hold
<1>14. CASE StopLost
  BY <1>14 DEF StopLost, HoldLost, ChangeCampaign, Fail, IfRunning, Patch
<1>15. CASE StopMark
  BY <1>15 DEF StopMark, Marked
<1>16. CASE StopPatch
  BY <1>16 DEF StopPatch, Patch
<1>17. CASE Read
  BY <1>17 DEF Read, Readings, IfRunning, Patch
<1>18. CASE Close
  BY <1>18 DEF Close, CloseWith, Credited, Opened, Following
<1>19. CASE Queue
  BY <1>19 DEF Queue, InQueue
<1>20. CASE StartPrepare
  BY <1>20 DEF StartPrepare, Ask
<1>21. CASE StartPin
  BY <1>21 DEF StartPin
<1>22. CASE StartBegin
  BY <1>22 DEF StartBegin, Opened
<1>23. CASE StartFlag
  BY <1>23 DEF StartFlag
<1>24. CASE StartLabel
  BY <1>24 DEF StartLabel, Opened
<1>25. CASE ResumeStep
  BY <1>25 DEF ResumeStep, Ask, Opened
<1>26. CASE ResumeRun
  BY <1>26 DEF ResumeRun
<1>27. CASE Pause
  BY <1>27 DEF Pause, Ask
<1>28. CASE FinishTest
  BY <1>28 DEF FinishTest, Ask, Credited
<1>29. CASE Cancel
  BY <1>29 DEF Cancel, Ask
<1>30. CASE Winner
  BY <1>30 DEF Winner, Ask
<1>31. CASE Owner
  BY <1>31 DEF Owner
<1>32. ASSUME NEW p \in Procs, Returns(p) \/ Die(p)
      PROVE  (PlacesOK)'
  <2>1. CASE GiveBack(p)
    <3>1. PICK l \in {"clear", "pauseClear", "coverBack", "idle"} : Goto(p, l)
      BY <2>1 DEF GiveBack, ToClear, After
    <3>2. /\ at' \in [Procs -> Labels] /\ at'[p] = l
          /\ \A q \in Procs \ {p} : at'[q] = at[q]
      BY <3>1, GotoTyped
    <3> QED BY <2>1, <3>2 DEF GiveBack
  <2>2. CASE GiveBackRefused(p)
    BY <2>2 DEF GiveBackRefused, AfterRefusal, After
  <2>3. CASE Clear(p)
    BY <2>3 DEF Clear, After
  <2>4. CASE CoverBack(p)
    BY <2>4 DEF CoverBack
  <2>5. CASE CoverRefused(p)
    BY <2>5 DEF CoverRefused, AfterCoverRefusal
  <2>6. CASE CoverMark(p)
    BY <2>6 DEF CoverMark
  <2>7. CASE Die(p)
    BY <2>7 DEF Die
  <2> QED BY <1>32, <2>1, <2>2, <2>3, <2>4, <2>5, <2>6, <2>7 DEF Returns
<1> QED BY <1>1, <1>2, <1>3, <1>4, <1>5, <1>6, <1>7, <1>8, <1>9, <1>10,
     <1>11, <1>12, <1>13, <1>14, <1>15, <1>16, <1>17, <1>18, <1>19, <1>20,
          <1>21, <1>22, <1>23, <1>24, <1>25, <1>26, <1>27, <1>28, <1>29,
               <1>30, <1>31, <1>32 DEF AnyStep, Tick, Person

LEMMA BorrowedKept ==
    ASSUME IInv, ColumnsOK, StepsOK, PlacesOK, NEW since \in SUBSET shown,
        AnyStep, Observe(since)
    PROVE  (MarkStands /\ CoverQueued /\ OwedIsAway /\ ClearingSafe
        /\ ReturnedSafe)'
<1> USE DEF IInv, StepsOK, PlacesOK, MarkStands, CoverQueued, OwedIsAway,
     ClearingSafe, ReturnedSafe, DraftQuiet, Prepared, Goto, Finish, row,
     steps, outside, ghosts, Working, Phases, Procs, Clearing, Campaign,
     Closed, Stopped, NoTick
<1>1. CASE Begin
  <2>1. step.phase \in Phases /\ at'["cron"] = step.phase
        /\ at'["person"] = at["person"]
    BY <1>1, StepFound, GotoTyped DEF Begin, StepRows, Labels
  <2> QED BY <1>1, <2>1 DEF Begin
<1>2. CASE Wait
  BY <1>2 DEF Wait, Patch
<1>3. CASE Refused
  BY <1>3 DEF Refused, Fail, IfRunning, Patch
<1>4. CASE Swap
  BY <1>4 DEF Swap, ChangeCover, Returning
<1>5. CASE SwapLost
  BY <1>5 DEF SwapLost, ChangeCover, Returning, Fail, IfRunning, Patch
<1>6. CASE SwapMark
  BY <1>6 DEF SwapMark, Returning
<1>7. CASE SwapPatch
  BY <1>7 DEF SwapPatch, Move, Patch
<1>8. CASE Start
  <2>1. MarkStands'
    BY <1>8 DEF Start, Hold, ChangeCampaign
  <2>2. CoverQueued'
    BY <1>8 DEF Start, Hold, ChangeCampaign
  <2>3. OwedIsAway'
    BY <1>8 DEF Start, Hold, ChangeCampaign
  <2>4. ClearingSafe'
    BY <1>8 DEF Start, Hold, ChangeCampaign
  <2>5. ReturnedSafe'
    BY <1>8 DEF Start, Hold, ChangeCampaign
  <2> QED BY <2>1, <2>2, <2>3, <2>4, <2>5
<1>9. CASE StartLost
  BY <1>9 DEF StartLost, HoldLost, ChangeCampaign, Fail, IfRunning, Patch
<1>10. CASE StartMark
  BY <1>10 DEF StartMark, Marked
<1>11. CASE StartPatch
  BY <1>11 DEF StartPatch, Move, Patch
<1>12. CASE Baseline
  BY <1>12 DEF Baseline, Patch
<1>13. CASE Stop
  <2>1. MarkStands'
    BY <1>13 DEF Stop, Hold, ChangeCampaign
  <2>2. CoverQueued'
    BY <1>13 DEF Stop, Hold, ChangeCampaign
  <2>3. OwedIsAway'
    BY <1>13 DEF Stop, Hold, ChangeCampaign
  <2>4. ClearingSafe'
    BY <1>13 DEF Stop, Hold, ChangeCampaign
  <2>5. ReturnedSafe'
    BY <1>13 DEF Stop, Hold, ChangeCampaign
  <2> QED BY <2>1, <2>2, <2>3, <2>4, <2>5
<1>14. CASE StopLost
  BY <1>14 DEF StopLost, HoldLost, ChangeCampaign, Fail, IfRunning, Patch
<1>15. CASE StopMark
  BY <1>15 DEF StopMark, Marked
<1>16. CASE StopPatch
  BY <1>16 DEF StopPatch, Patch
<1>17. CASE Read
  BY <1>17 DEF Read, Readings, IfRunning, Patch
<1>18. CASE Close
  BY <1>18 DEF Close, CloseWith, Credited, Opened, Following
<1>19. CASE Queue
  BY <1>19 DEF Queue, InQueue
<1>20. CASE StartPrepare
  BY <1>20 DEF StartPrepare, Ask
<1>21. CASE StartPin
  BY <1>21 DEF StartPin
<1>22. CASE StartBegin
  BY <1>22 DEF StartBegin, Opened
<1>23. CASE StartFlag
  BY <1>23 DEF StartFlag
<1>24. CASE StartLabel
  BY <1>24 DEF StartLabel, Opened
<1>25. CASE ResumeStep
  BY <1>25 DEF ResumeStep, Ask, Opened
<1>26. CASE ResumeRun
  BY <1>26 DEF ResumeRun
<1>27. CASE Pause
  BY <1>27 DEF Pause, Ask
<1>28. CASE FinishTest
  BY <1>28 DEF FinishTest, Ask, Credited
<1>29. CASE Cancel
  BY <1>29 DEF Cancel, Ask
<1>30. CASE Winner
  BY <1>30 DEF Winner, Ask
<1>31. CASE Owner
  BY <1>31 DEF Owner
<1>32. ASSUME NEW p \in Procs, Returns(p) \/ Die(p)
      PROVE  (MarkStands /\ CoverQueued /\ OwedIsAway /\ ClearingSafe
          /\ ReturnedSafe)'
  <2>1. CASE GiveBack(p)
    <3> HIDE DEF Goto, Finish
    <3>1. /\ Moves(p, {"giveBack", "pauseBack"},
                   {"clear", "pauseClear", "coverBack", "idle"})
          /\ \/ pending /\ ~owed'
             \/ /\ ~pending /\ at'[p] \notin Clearing
                /\ UNCHANGED <<campaign, owed, lapse>>
          /\ UNCHANGED <<status, live, row, steps, cover, coverLapse>>
      BY <2>1, GiveBackMoves
    <3>2. MarkStands'
      <4>1. CASE ~owed'
        BY <4>1
      <4>2. CASE ~pending /\ owed' = owed /\ lapse' = lapse
        <5>1. owed => at["cron"] \in {"startMark", "stopMark"} \/ lapse
          BY <4>2
        <5>2. at["cron"] \in {"startMark",
             "stopMark"} => at'["cron"] = at["cron"]
          BY <3>1 DEF Moves
        <5> QED BY <4>2, <5>1, <5>2
      <4> QED BY <3>1, <4>1, <4>2
    <3>3. CoverQueued'
      BY <3>1 DEF Moves, ColumnsOK
    <3>4. OwedIsAway'
      BY <2>1, <3>1 DEF GiveBack, ChangeCampaign, Home
    <3>5. ClearingSafe'
      BY <3>1 DEF Moves, ColumnsOK
    <3>6. ReturnedSafe'
      BY <3>1 DEF Moves, ColumnsOK
    <3> QED BY <3>2, <3>3, <3>4, <3>5, <3>6
  <2>2. CASE GiveBackRefused(p)
    BY <2>2 DEF GiveBackRefused, AfterRefusal, After
  <2>3. CASE Clear(p)
    BY <2>3 DEF Clear, After
  <2>4. CASE CoverBack(p)
    BY <2>4 DEF CoverBack
  <2>5. CASE CoverRefused(p)
    BY <2>5 DEF CoverRefused, AfterCoverRefusal
  <2>6. CASE CoverMark(p)
    BY <2>6 DEF CoverMark
  <2>7. CASE Die(p)
    BY <2>7 DEF Die
  <2> QED BY <1>32, <2>1, <2>2, <2>3, <2>4, <2>5, <2>6, <2>7 DEF Returns
<1> QED BY <1>1, <1>2, <1>3, <1>4, <1>5, <1>6, <1>7, <1>8, <1>9, <1>10,
     <1>11, <1>12, <1>13, <1>14, <1>15, <1>16, <1>17, <1>18, <1>19, <1>20,
          <1>21, <1>22, <1>23, <1>24, <1>25, <1>26, <1>27, <1>28, <1>29,
               <1>30, <1>31, <1>32 DEF AnyStep, Tick, Person

LEMMA OrderKept ==
    ASSUME IInv, ColumnsOK, StepsOK, PlacesOK, NEW since \in SUBSET shown,
        AnyStep, Observe(since)
    PROVE  (DraftQuiet /\ Prepared /\ StepThere)'
<1> USE DEF IInv, StepsOK, PlacesOK, TickRows, DraftQuiet, Prepared,
     StepThere, HasStep, Goto, Finish, row, steps, outside, ghosts, Working,
     Phases, Procs, Closed, Stopped, NoTick, NoStep, Clearing
<1>1. CASE Begin
  BY <1>1 DEF Begin
<1>2. CASE Wait
  BY <1>2 DEF Wait, Patch
<1>3. CASE Refused
  BY <1>3 DEF Refused, Fail, IfRunning, Patch
<1>4. CASE Swap
  BY <1>4 DEF Swap, ChangeCover, Returning
<1>5. CASE SwapLost
  BY <1>5 DEF SwapLost, ChangeCover, Returning, Fail, IfRunning, Patch
<1>6. CASE SwapMark
  BY <1>6 DEF SwapMark, Returning
<1>7. CASE SwapPatch
  BY <1>7 DEF SwapPatch, Move, Patch
<1>8. CASE Start
  BY <1>8 DEF Start, Hold, ChangeCampaign
<1>9. CASE StartLost
  BY <1>9 DEF StartLost, HoldLost, ChangeCampaign, Fail, IfRunning, Patch
<1>10. CASE StartMark
  BY <1>10 DEF StartMark, Marked
<1>11. CASE StartPatch
  BY <1>11 DEF StartPatch, Move, Patch
<1>12. CASE Baseline
  BY <1>12 DEF Baseline, Patch
<1>13. CASE Stop
  BY <1>13 DEF Stop, Hold, ChangeCampaign
<1>14. CASE StopLost
  BY <1>14 DEF StopLost, HoldLost, ChangeCampaign, Fail, IfRunning, Patch
<1>15. CASE StopMark
  BY <1>15 DEF StopMark, Marked
<1>16. CASE StopPatch
  BY <1>16 DEF StopPatch, Patch
<1>17. CASE Read
  BY <1>17 DEF Read, Readings, IfRunning, Patch
<1>18. CASE Close
  BY <1>18 DEF Close, CloseWith, Credited, Opened, Following
<1>19. CASE Queue
  BY <1>19 DEF Queue, InQueue
<1>20. CASE StartPrepare
  <2>1. at'["person"] = "pin" /\ at'["cron"] = at["cron"]
    BY <1>20 DEF StartPrepare
  <2>2. DraftQuiet'
    BY <1>20, <2>1 DEF StartPrepare
  <2>3. before' # "none" /\ ~pending'
    BY <1>20 DEF StartPrepare, Campaign
  <2>4. Prepared'
    BY <1>20, <2>1, <2>3 DEF StartPrepare
  <2>5. StepThere'
    BY <1>20, <2>1 DEF StartPrepare
  <2> QED BY <2>2, <2>4, <2>5
<1>21. CASE StartPin
  <2>1. at'["person"] = "begin" /\ at'["cron"] = at["cron"]
    BY <1>21 DEF StartPin
  <2>2. DraftQuiet'
    BY <1>21, <2>1 DEF StartPin
  <2>3. pinned' # NoVariant /\ before' # "none"
    BY <1>21, VariantsApart DEF StartPin, ColumnsOK, Covers
  <2>4. Prepared'
    BY <1>21, <2>1, <2>3 DEF StartPin
  <2>5. StepThere'
    BY <1>21, <2>1 DEF StartPin
  <2> QED BY <2>2, <2>4, <2>5
<1>22. CASE StartBegin
  BY <1>22 DEF StartBegin, Opened
<1>23. CASE StartFlag
  BY <1>23 DEF StartFlag
<1>24. CASE StartLabel
  <2>1. step # NoStep => step' # NoStep
    BY <1>24, StepFound, OpenedTyped, RowsApart DEF StartLabel
  <2>2. step = NoStep => step' = NoStep
    BY <1>24 DEF StartLabel
  <2> QED BY <1>24, <2>1, <2>2 DEF StartLabel
<1>25. CASE ResumeStep
  <2>1. step # NoStep => step' # NoStep
    BY <1>25, StepFound, OpenedTyped, RowsApart DEF ResumeStep
  <2>2. step = NoStep => step' = NoStep
    BY <1>25 DEF ResumeStep
  <2> QED BY <1>25, <2>1, <2>2 DEF ResumeStep, Ask
<1>26. CASE ResumeRun
  BY <1>26 DEF ResumeRun
<1>27. CASE Pause
  BY <1>27 DEF Pause, Ask
<1>28. CASE FinishTest
  BY <1>28 DEF FinishTest, Ask, Credited
<1>29. CASE Cancel
  BY <1>29 DEF Cancel, Ask
<1>30. CASE Winner
  BY <1>30 DEF Winner, Ask
<1>31. CASE Owner
  BY <1>31 DEF Owner
<1>32. ASSUME NEW p \in Procs, Returns(p) \/ Die(p)
      PROVE  (DraftQuiet /\ Prepared /\ StepThere)'
  <2>1. CASE GiveBack(p)
    <3> HIDE DEF Goto, Finish
    <3>1. /\ Moves(p, {"giveBack", "pauseBack"},
                   {"clear", "pauseClear", "coverBack", "idle"})
          /\ \/ pending /\ ~owed'
             \/ /\ ~pending /\ at'[p] \notin Clearing
                /\ UNCHANGED <<campaign, owed, lapse>>
          /\ UNCHANGED <<status, live, row, steps, cover, coverLapse>>
      BY <2>1, GiveBackMoves
    <3>2. DraftQuiet'
      BY <3>1 DEF Moves, ColumnsOK
    <3>3. Prepared'
      BY <3>1 DEF Moves, ColumnsOK
    <3>4. StepThere'
      BY <3>1 DEF Moves, ColumnsOK
    <3> QED BY <3>2, <3>3, <3>4
  <2>2. CASE GiveBackRefused(p)
    BY <2>2 DEF GiveBackRefused, AfterRefusal, After
  <2>3. CASE Clear(p)
    <3> HIDE DEF Goto, Finish
    <3>1. Moves(p, Clearing, {"coverBack", "idle"})
      BY <2>3, ClearMoves
    <3>2. DraftQuiet'
      BY <2>3, <3>1 DEF Clear, Moves, ColumnsOK
    <3>3. Prepared'
      BY <2>3, <3>1 DEF Clear, Moves, ColumnsOK
    <3>4. StepThere'
      BY <2>3, <3>1 DEF Clear, Moves, ColumnsOK
    <3> QED BY <3>2, <3>3, <3>4
  <2>4. CASE CoverBack(p)
    BY <2>4 DEF CoverBack
  <2>5. CASE CoverRefused(p)
    BY <2>5 DEF CoverRefused, AfterCoverRefusal
  <2>6. CASE CoverMark(p)
    <3> HIDE DEF Goto
    <3>1. Moves(p, {"coverMark"}, {"idle"})
      BY <2>6, CoverMarkMoves
    <3>2. DraftQuiet'
      BY <2>6, <3>1 DEF CoverMark, Moves
    <3>3. Prepared'
      BY <2>6, <3>1 DEF CoverMark, Moves
    <3>4. StepThere'
      BY <2>6, <3>1 DEF CoverMark, Moves
    <3> QED BY <3>2, <3>3, <3>4
  <2>7. CASE Die(p)
    BY <2>7 DEF Die
  <2> QED BY <1>32, <2>1, <2>2, <2>3, <2>4, <2>5, <2>6, <2>7 DEF Returns
<1> QED BY <1>1, <1>2, <1>3, <1>4, <1>5, <1>6, <1>7, <1>8, <1>9, <1>10,
     <1>11, <1>12, <1>13, <1>14, <1>15, <1>16, <1>17, <1>18, <1>19, <1>20,
          <1>21, <1>22, <1>23, <1>24, <1>25, <1>26, <1>27, <1>28, <1>29,
               <1>30, <1>31, <1>32 DEF AnyStep, Tick, Person

LEMMA PlanKept ==
    ASSUME IInv, ColumnsOK, StepsOK, PlacesOK, NEW since \in SUBSET shown,
        AnyStep, Observe(since)
    PROVE  (CountedUnderOwnCover /\ PlanFollowed /\ StepIsPlanned
        /\ TickIsStep /\ CoverIsStep /\ ReadUnderOwn)'
<1> USE DEF IInv, StepsOK, PlacesOK, TickRows, StepRows,
     CountedUnderOwnCover, PlanFollowed, StepIsPlanned, TickIsStep,
     CoverIsStep, ReadUnderOwn, DraftQuiet, Prepared, StepThere, InPlay,
     HasStep, PastSwap, Observe, Goto, Finish, row, steps, outside, ghosts,
     Working, Phases, Procs, Closed, Stopped, NoTick, NoStep, Labels
<1>1. CASE Begin
  BY <1>1 DEF Begin
<1>2. CASE Wait
  BY <1>2 DEF Wait, Patch
<1>3. CASE Refused
  BY <1>3, VariantsApart DEF Refused, Fail, IfRunning, Patch
<1>4. CASE Swap
  BY <1>4 DEF Swap, ChangeCover, Returning
<1>5. CASE SwapLost
  BY <1>5, VariantsApart DEF SwapLost, ChangeCover, Returning, Fail,
     IfRunning, Patch
<1>6. CASE SwapMark
  BY <1>6 DEF SwapMark, Returning
<1>7. CASE SwapPatch
  BY <1>7 DEF SwapPatch, Move, Patch
<1>8. CASE Start
  BY <1>8 DEF Start, Hold, ChangeCampaign
<1>9. CASE StartLost
  BY <1>9, VariantsApart DEF StartLost, HoldLost, ChangeCampaign, Fail,
     IfRunning, Patch
<1>10. CASE StartMark
  BY <1>10 DEF StartMark, Marked
<1>11. CASE StartPatch
  BY <1>11 DEF StartPatch, Move, Patch
<1>12. CASE Baseline
  BY <1>12 DEF Baseline, Patch
<1>13. CASE Stop
  BY <1>13 DEF Stop, Hold, ChangeCampaign
<1>14. CASE StopLost
  BY <1>14, VariantsApart DEF StopLost, HoldLost, ChangeCampaign, Fail,
     IfRunning, Patch
<1>15. CASE StopMark
  BY <1>15 DEF StopMark, Marked
<1>16. CASE StopPatch
  BY <1>16 DEF StopPatch, Patch
<1>17. CASE Read
  <2>0. tick # NoTick /\ tick.id # 0
    BY <1>17 DEF Read
  <2>1. PICK reads \in Nat, streak \in Nat : Patch(step.phase, streak, reads)
    BY <1>17, ReadsAreEnough DEF Read, Readings
  <2>2. UNCHANGED <<closed, cover, campaign>> /\ at["cron"] = "settling"
        /\ status' \in {status, "paused"}
            /\ (status' # status => status = "running")
    BY <1>17 DEF Read, IfRunning
  <2>3. \/ tick' = NoTick /\ at'["cron"] \in {"idle", "giveBack"}
        \/ /\ tick'.id = tick.id /\ tick'.variant = tick.variant
           /\ tick'.own = (shown \subseteq {tick.variant})
           /\ tick' # NoTick
           /\ at'["cron"] = "close"
    <3>1. tick.id # 0
      BY <1>17 DEF Read
    <3> QED BY <1>17, <3>1 DEF Read
  <2>4. step'.id = step.id /\ step'.variant = step.variant
        /\ step'.phase = step.phase /\ (HasStep' => HasStep)
    BY <2>0, <2>1, RowsApart DEF Patch
  <2>5. InPlay' => InPlay
    BY <2>2
  <2>6. CountedUnderOwnCover' /\ PlanFollowed'
    BY <2>2
  <2>7. StepIsPlanned'
    BY <2>2, <2>4, <2>5
  <2>8. TickIsStep'
    BY <2>0, <2>3, <2>4, <2>5
  <2>9. CoverIsStep'
    <3>1. InPlay' /\ HasStep' => shown' \subseteq {step'.variant}
      BY <2>2, <2>4, <2>5
    <3>2. InPlay' /\ HasStep'
         /\ step'.phase # "swap" => cover' = step'.variant
      BY <2>2, <2>4, <2>5
    <3>3. InPlay' /\ at'["cron"] \in PastSwap => cover' = tick'.variant
      <4>1. InPlay' => cover = tick.variant
        BY <2>2, <2>5
      <4> QED BY <2>2, <2>3, <4>1
    <3> QED BY <3>1, <3>2, <3>3
  <2>10. ReadUnderOwn'
    <3>1. InPlay' => shown \subseteq {tick.variant}
      BY <2>0, <2>5
    <3>2. ASSUME InPlay', at'["cron"] = "close" PROVE tick'.own
      <4>1. tick'.own = (shown \subseteq {tick.variant})
        BY <2>3, <3>2
      <4>2. (shown \subseteq {tick.variant}) = TRUE
        BY <3>1, <3>2
      <4>3. tick'.own = TRUE
        BY <4>1, <4>2
      <4> QED BY <4>3
    <3> HIDE DEF InPlay
    <3> QED BY <3>2 DEF ReadUnderOwn
  <2> QED BY <2>6, <2>7, <2>8, <2>9, <2>10
<1>18. CASE Close
  <2>1. tick # NoTick /\ tick' = NoTick /\ UNCHANGED <<cover, row>>
    BY <1>18 DEF Close
  <2>2. CASE status = "paused" /\ status' = "done" /\ UNCHANGED <<step,
       closed>>
    BY <1>18, <2>1, <2>2 DEF Close
  <2>3. CASE status = "running" /\ closed' = Credited("cron", tick.own)
    <3>1. step # NoStep /\ tick.own = TRUE /\ tick.own \in BOOLEAN
      BY <1>18, <2>1, <2>3 DEF Close
    <3>2. CountedUnderOwnCover'
      BY <2>3, <3>1, CreditedOwn
    <3>3. PlanFollowed' /\ Len(closed') = Len(closed) + 1
      BY <2>3, <3>1, CreditedInOrder
    <3>4. step' = NoStep \/ step' = Opened(step.id + 1, Following)
      BY <1>18, <2>3 DEF Close, CloseWith
    <3>5. Opened(step.id + 1, Following).variant = PlanStep(Len(closed) + 1)
          /\ Opened(step.id + 1, Following).phase = "swap"
      BY DEF Opened, Following
    <3>6. StepIsPlanned' /\ TickIsStep'
      BY <2>1, <3>3, <3>4, <3>5
    <3>7. at'["cron"] \in {"idle", "giveBack"}
      BY <1>18, <2>3 DEF Close, CloseWith
    <3>8. CoverIsStep'
      BY <2>1, <3>4, <3>5, <3>7
    <3>9. ReadUnderOwn'
      BY <3>7
    <3> QED BY <3>2, <3>3, <3>6, <3>8, <3>9
  <2> QED BY <1>18, <2>2, <2>3 DEF Close, CloseWith
<1>19. CASE Queue
  BY <1>19 DEF Queue, InQueue
<1>20. CASE StartPrepare
  BY <1>20 DEF StartPrepare, Ask
<1>21. CASE StartPin
  BY <1>21 DEF StartPin
<1>22. CASE StartBegin
  BY <1>22, VariantsApart DEF StartBegin, Opened
<1>23. CASE StartFlag
  BY <1>23 DEF StartFlag
<1>24. CASE StartLabel
  BY <1>24, VariantsApart DEF StartLabel, Opened
<1>25. CASE ResumeStep
  BY <1>25, VariantsApart DEF ResumeStep, Ask, Opened
<1>26. CASE ResumeRun
  BY <1>26 DEF ResumeRun
<1>27. CASE Pause
  BY <1>27 DEF Pause, Ask
<1>28. CASE FinishTest
  <2>1. ~InPlay'
    BY <1>28 DEF FinishTest
  <2>2. CountedUnderOwnCover'
    BY <1>28, CreditedOwn DEF FinishTest
  <2>3. PlanFollowed'
    BY <1>28, CreditedInOrder DEF FinishTest
  <2> QED BY <2>1, <2>2, <2>3
<1>29. CASE Cancel
  BY <1>29 DEF Cancel, Ask
<1>30. CASE Winner
  BY <1>30 DEF Winner, Ask
<1>31. CASE Owner
  BY <1>31 DEF Owner
<1>32. ASSUME NEW p \in Procs, Returns(p) \/ Die(p)
      PROVE  (CountedUnderOwnCover /\ PlanFollowed /\ StepIsPlanned
          /\ TickIsStep /\ CoverIsStep /\ ReadUnderOwn)'
  <2>1. CASE GiveBack(p)
    BY <2>1 DEF GiveBack, Home, ToClear, After, ChangeCampaign
  <2>2. CASE GiveBackRefused(p)
    BY <2>2 DEF GiveBackRefused, AfterRefusal, After
  <2>3. CASE Clear(p)
    BY <2>3 DEF Clear, After
  <2>4. CASE CoverBack(p)
    BY <2>4 DEF CoverBack
  <2>5. CASE CoverRefused(p)
    BY <2>5 DEF CoverRefused, AfterCoverRefusal
  <2>6. CASE CoverMark(p)
    BY <2>6 DEF CoverMark
  <2>7. CASE Die(p)
    BY <2>7 DEF Die
  <2> QED BY <1>32, <2>1, <2>2, <2>3, <2>4, <2>5, <2>6, <2>7 DEF Returns
<1> QED BY <1>1, <1>2, <1>3, <1>4, <1>5, <1>6, <1>7, <1>8, <1>9, <1>10,
     <1>11, <1>12, <1>13, <1>14, <1>15, <1>16, <1>17, <1>18, <1>19, <1>20,
          <1>21, <1>22, <1>23, <1>24, <1>25, <1>26, <1>27, <1>28, <1>29,
               <1>30, <1>31, <1>32 DEF AnyStep, Tick, Person

LEMMA InitInv == Init => IInv
<1> SUFFICES ASSUME Init PROVE IInv
  OBVIOUS
<1>1. ColumnsOK
  BY DEF Init, ColumnsOK, Covers
<1>2. StepsOK
  BY DEF Init, StepsOK
<1>3. PlacesOK
  BY DEF Init, PlacesOK, Procs, Labels, Working, Phases
<1>4. TypeOK
  BY <1>1, <1>2, <1>3, TypeParts
<1>5. MarkStands /\ CoverQueued /\ OwedIsAway /\ ClearingSafe /\ ReturnedSafe
  BY DEF Init, MarkStands, CoverQueued, OwedIsAway, ClearingSafe,
         ReturnedSafe, Clearing, Procs
<1>6. CountedUnderOwnCover /\ PlanFollowed
  BY DEF Init, CountedUnderOwnCover, PlanFollowed
<1>7. DraftQuiet /\ Prepared /\ StepThere
  BY DEF Init, DraftQuiet, Prepared, StepThere, Procs
<1>8. StepIsPlanned /\ TickIsStep /\ CoverIsStep /\ ReadUnderOwn
  BY DEF Init, StepIsPlanned, TickIsStep, CoverIsStep, ReadUnderOwn, InPlay
<1> QED BY <1>4, <1>5, <1>6, <1>7, <1>8 DEF IInv

LEMMA StepInv ==
    ASSUME IInv, NEW since \in SUBSET shown, AnyStep, Observe(since)
    PROVE  IInv'
<1>1. ColumnsOK /\ StepsOK /\ PlacesOK
  BY TypeParts DEF IInv
<1>2. ColumnsOK' /\ StepsOK' /\ PlacesOK'
  BY <1>1, ColumnsKept, StepsKept, PlacesKept
<1>3. TypeOK'
  BY <1>2, TypePartsAfter
<1>4. (MarkStands /\ CoverQueued /\ OwedIsAway /\ ClearingSafe
         /\ ReturnedSafe)'
  BY <1>1, BorrowedKept
<1>5. (DraftQuiet /\ Prepared /\ StepThere)'
  BY <1>1, OrderKept
<1>6. (CountedUnderOwnCover /\ PlanFollowed /\ StepIsPlanned /\ TickIsStep
         /\ CoverIsStep /\ ReadUnderOwn)'
  BY <1>1, PlanKept
<1> QED BY <1>3, <1>4, <1>5, <1>6 DEF IInv

LEMMA NextInv == IInv /\ [Next]_vars => IInv'
<1> SUFFICES ASSUME IInv, [Next]_vars PROVE IInv'
  OBVIOUS
<1>1. CASE Next
  <2>1. PICK since \in SUBSET shown : AnyStep /\ Observe(since)
    BY <1>1 DEF Next, AnyStep
  <2> QED BY <2>1, StepInv
<1>2. CASE UNCHANGED vars
  <2>1. /\ UNCHANGED <<status, live, before, pending, pinned, swapped>>
        /\ UNCHANGED <<restored, step, closed, tick, campaign, cover, at>>
        /\ UNCHANGED <<owed, lapse, coverLapse, shown>>
    BY <1>2 DEF vars, row, steps, outside, ghosts
  <2>2. TypeOK'
    BY <2>1 DEF IInv, TypeOK
  <2>3. (MarkStands /\ CoverQueued /\ OwedIsAway /\ ClearingSafe
           /\ ReturnedSafe)'
    BY <2>1 DEF IInv, MarkStands, CoverQueued, OwedIsAway, ClearingSafe,
                ReturnedSafe
  <2>4. (DraftQuiet /\ Prepared /\ StepThere)'
    BY <2>1 DEF IInv, DraftQuiet, Prepared, StepThere, HasStep
  <2>5. (CountedUnderOwnCover /\ PlanFollowed)'
    BY <2>1 DEF IInv, CountedUnderOwnCover, PlanFollowed
  <2>6. (StepIsPlanned /\ TickIsStep /\ CoverIsStep /\ ReadUnderOwn)'
    BY <2>1 DEF IInv, StepIsPlanned, TickIsStep, CoverIsStep, ReadUnderOwn,
                InPlay, HasStep
  <2> QED BY <2>2, <2>3, <2>4, <2>5, <2>6 DEF IInv
<1> QED BY <1>1, <1>2

LEMMA Invariant == Spec => []IInv
<1>1. Init => IInv
  BY InitInv
<1>2. IInv /\ [Next]_vars => IInv'
  BY NextInv
<1> QED BY <1>1, <1>2, PTL DEF Spec

(* The columns, rows and local copies keep their ranges for every plan,    *)
(* every failure limit and every number of stable readings.                *)
THEOREM TypeCorrect == Spec => []TypeOK
<1>1. IInv => TypeOK
  BY DEF IInv
<1> QED BY <1>1, Invariant, PTL

(* campaign_restore_pending stands for every campaign left changed, but    *)
(* for the two lapses named in MarkStands.                                 *)
THEOREM MarkStandsCorrect == Spec => []MarkStands
<1>1. IInv => MarkStands
  BY DEF IInv
<1> QED BY <1>1, Invariant, PTL

(* The queue of returns finds every card that still shows a variant, but   *)
(* for the lapses named in CoverQueued.                                    *)
THEOREM CoverQueuedCorrect == Spec => []CoverQueued
<1>1. IInv => CoverQueued
  BY DEF IInv
<1> QED BY <1>1, Invariant, PTL

(* Whatever fails and whoever pauses and resumes, a step the cron credits  *)
(* was measured under the cover of its own variant.                        *)
THEOREM CountedCorrect == Spec => []CountedUnderOwnCover
<1>1. IInv => CountedUnderOwnCover
  BY DEF IInv
<1> QED BY <1>1, Invariant, PTL

(* The credited steps are the plan's, in its order, none twice.            *)
THEOREM PlanFollowedCorrect == Spec => []PlanFollowed
<1>1. IInv => PlanFollowed
  BY DEF IInv
<1> QED BY <1>1, Invariant, PTL
=========================================================================
