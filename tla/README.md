# Verification of the finance panel

The finance panel is a Next.js application over a Supabase (PostgreSQL)
database. Sellers on Wildberries and Ozon use it to run a warehouse, plan money,
and read reports. This directory holds TLA+ models of the parts of it where a
mistake is hardest to see and costs goods or money: the **warehouse**, where
browsers retry, operators overlap, a function may die between two requests to
the database, and the only record of the stock is an append-only register; the
**marking codes** that leave circulation with the goods; and the **CTR tests**,
which borrow an advert campaign and the cover of a card from their owner.

Sources are named relative to `src/`; migrations are in
`src/supabase/migrations/` and are named by their number.

## 1. The system

### How a posting travels

    browser --press (with a key)--> route under app/api/warehouse/
      route:  claim the key        rpc claim_stock_doc_key
              post                 rpc post_...           (one transaction)
              settle / release     rpc settle_/release_stock_doc_key
              record the card      table stock_docs       (the journal)
    register  stock_moves  <- every posting function inserts here
    balances  stock_balances = sum of the moves

Each arrow is a request of its own. PostgreSQL runs every function as one
transaction at READ COMMITTED: each statement sees what is committed when it
starts, and a check made by one statement is not protected until the next one.
Routes are serverless functions and may be killed between any two requests.

### How a test goes on

    person --press--> app/api/ctrtest/[id]/action   start, pause, resume, finish
    cron, every 5 minutes --> app/api/ctrtest/rotate --> runStepEngineTests
      one pass: read the running step; change the cover or the campaign at
      Wildberries; mark the change; write the step's new phase
      last phase: rpc transition_ctr_test closes the step, opens the next
      then the queue: stopped tests whose campaign or cover is not back

Nothing locks the test between the calls of a pass: the person's request and the
pass meet in the same rows, and Wildberries knows nothing of either.

### Components

| Component | State | Operations | Talks to | What is hard | What makes it correct |
|---|---|---|---|---|---|
| **Document keys** (`lib/warehouse/idempotency.ts`, 202608240018) | `stock_doc_keys` | claim, take over, release, settle | called by every posting route | retries, death of a handler, lost answers, takeover of a stale claim | a press posts once; a duplicate is told the real answer; no claim locks a retried press for ever |
| **Stock register and posting** (202608230003, -0015, -0016, 202609040003, 202609140010, 202608240019/20, 202608250029, 202609150001/2) | `stock_moves`, closed period, archived warehouses | shipment, transfer, return, write-off, opening balance, marketplace sales, reversal, closing, archiving | all warehouse screens; the FBS sync | checks and inserts of concurrent transactions interleave | no overdraft; a sale, an opening balance and a reversal happen once |
| **Receipts** (`receipts/route.ts`, 202609150007, 202609040003) | lines of `purchase_receipts`, batch header, register | count, post, correct | register, keys | counts, postings and corrections of one batch at once; deadlocks | a line enters the register once, at its newest count |
| **Shipment tasks** (`tasks/*`, 202609040002, -0005) | `stock_docs`, `stock_doc_lines`, stock | create, edit, cancel, ship | register, keys, journal | a request is many statements, each visible at once | a task ships once and as shown; a cancelled one ships nothing; drafts reserve within the stock |
| **Document journal and reversal** (`docs/[id]/reverse`, `stockDocs.ts`) | `stock_docs` | record a card, reverse a document | register | four requests, any of which may be the last | the journal never claims more than the register holds; what it misses was cut short |
| **FBS sync and its switch** (`fbsSales.ts`, `fbs-sales/route.ts`) | `fbs_sales_since` of each warehouse | choose orders, write them off | register | two warehouses switched on at once | one writing-off warehouse per entity |
| **Cost of stock** | `amount` of the moves | moving average | posting | rounding | amounts vanish with the pieces |
| **KIZ withdrawal** (`lib/warehouse/kiz*`, 202608250033) | marking codes | collect, claim a batch, confirm, fail | outside registry | claims, pages, returns and owners change meanwhile; lost answers | a code is in one document, a document has its whole batch, a noted return stays back |
| **CTR test engine** (`lib/ctrtest`) | tests, steps, covers, an advert campaign | start, step, pause, finish, restore | Wildberries | crash between an outside effect and its mark; two writers of one step | campaign and cover are given back; credited steps are the plan's, measured under their own cover |
| **DDS finance** (`lib/finance`) | payments, bank facts, chains, links | import, link, split, unlink | bank statements | a fact linked twice, partial amounts | facts are covered exactly once |
| **Purchase orders** (`lib/purchases`) | orders, stages, shipments | save, ship, acts | suppliers | partial shipments | not more shipped than ordered |
| **Planning state** (`lib/planning/stateStore.ts`) | one document per year | load, compare-and-set | - | two editors | no silent overwrite |
| **Sync** (`lib/sync`, `lib/wb/syncRecovery.ts`, `lib/ozon/accrualSyncQueue.ts`) | cursors, leases, queues | pull one cabinet at a time | marketplaces | rows published late, overlapping runs | nothing is skipped for ever |
| Loans, adverts, repricer, accounts, assortment, payouts, reports, payroll, clients, content, UI, tools | see `PROJECT.json` | | | | not modelled: sequential, declarative, or outside I/O |

`PROJECT.json` lists every component with its status and the reason, and under
`hazards` each hard place with its line and the properties that watch it.

## 2. Modules

| Module | What it is |
|---|---|
| `PostOnce` | abstract: a press posts at most once, success is told after it |
| `DocKeys` | the key layer with its handlers and failures, and its mapping to `PostOnce` |
| `StockRegister` | the register: entries, balances, period guard, unique index |
| `StockPosting` | EXTENDS `StockRegister`: the posting functions as transactions |
| `ReceiptPosting` | counting, posting and correcting one batch |
| `ShipmentTasks` | creating, editing, cancelling and shipping tasks |
| `DocReversal` | the journal's cards and the reversal of a document, call by call |
| `KizRegistry` | marking codes: collectors, claims of batches, documents, releases |
| `CtrEngine` | the step engine of CTR tests, with the campaign and the cover it borrows |
| `MC*` | instances for TLC: symmetry and small sets |
| `*Proofs` | theorems with proofs checked by TLAPS |
| `Sums` | lemmas about sums over finite sets, used by those proofs |

Definitions called "Mutant" in a comment are plausible mistakes in the same
code; each property was seen to fail when one of them replaces the definition
that follows it (`PROJECT.json`, `mutants`).

### DocKeys

`keyRow[k]` is the row of a key: present or not, stale or not (`old`: created_at
more than two minutes back), and its answer (`NoResult` is SQL null).
`request[r]` is where the handler of an HTTP request is. `posted` collects
requests whose posting committed, and `mishaps[k]` counts what the protocol does
not cover: claims that failed and let the handler post unprotected, answers lost
after a commit, and takeovers of a claim whose holder was alive, had posted, or
was gone.

`ClaimRead` is the SELECT of claim_stock_doc_key, and `ClaimAnswered`,
`ClaimBusy`, `ClaimInsert`, `ClaimTakeover` what it goes on to do; between them
other requests run, since the SELECT locks nothing. `Post`, `PostRaised`,
`Release`, `Settle` are the rest of a route. `ClaimError`, `PostAnswerLost`,
`SettleLost` and `Crash` are the failures an instance may switch on, and `Age`
is the passing of two minutes. `Arrive` is a press, and also its retry: the key
"is repeated when the same press is retried" (`lib/warehouse/docKey.ts`), so a
request that was told "busy" may ask again. All the routes with this skeleton
are one model: shipments, returns, transfers, write-offs, opening balances,
tasks and corrections differ only in the function they post with.

### StockRegister and StockPosting

An entry is what one call wrote for one document and one cabinet: its moves
added up cell by cell, a cell being a warehouse and a size. A session's
transaction is three steps: the checks (one action per posting function, with
all its guards), `Insert` where the period trigger and the unique index fire,
and `Commit`. `Abort` is a raise, a lost connection or a restart. The advisory
lock of post_opening_balance is `entityLock`; the unique index makes an insert
wait for another transaction's uncommitted sale, and refuses a committed one.
`ClosePeriod`, `FindEmpty`, `Archive` and `Unarchive` are the settings other
requests change meanwhile. History: `outdated` are the sessions on whose cells
another transaction drew since their check, `overtaken` those entering an
opening balance while another document was committed.

### ReceiptPosting

`line[l]` is a line of the batch (expected or received, its count as
<<received, defective>>, posted or not), `header` the row of stock_batches,
`moved` what the register holds of a line, `rowLock` the row locks. A counter
(`CountRead`, then one `CountWrite` per line, each its own request), a poster
(`PostBegin` totals, `PostPick` and `PostCost` the cost loop, `PostHeader`,
`PostSelect` and `PostMove` the move loop, `PostCommit`) and a corrector
(`CorrectRead` with FOR UPDATE, `CorrectWrite`) interleave statement by
statement. A statement that would wait for a lock is not enabled;
`PostAborted` and `CorrectAborted` also stand for a deadlock resolved by
PostgreSQL. History: `outdated` collects the posters that summed their total
before some line changed, and keeps, once the batch is posted, whether the one
who posted it was among them.

### ShipmentTasks

`status`, `plan` and `shipped` are a task's document and its lines, `stock` the
warehouse, `moved` what the register moved under the task. `request[r]` is an
HTTP request: what it wants, what it read (`seen`, `free`). Every database
request is an action. The reserve check reads the stock in one of them and the
other drafts in a later one, and inserts the draft later still. The edit marks
the draft (`EditClaim`), then reads and checks, then deletes, updates and
inserts lines without looking at the status again. Shipping is one transaction:
`ShipLock` takes the row lock and reads the lines, `ShipPost` writes and
commits. `GiveUp` is any refusal, error or death in the middle. History:
`overtaken` collects the requests whose numbers got worse while they relied on
them: the stock fell after they read it, or another draft grew after they
checked the drafts.

### DocReversal

`register` holds the moves of documents, one entry for a document and a cabinet;
`cards` is the journal. `Post` and `Record` are a posting and its cards, which
may stay unwritten. A request reads the card (`Open`), inserts the card of the
reversal (`Insert`), has post_doc_reversal check and commit (`Check`, `Commit`:
two steps, since the check locks nothing), and updates both cards (`Link`,
`Mark`), or deletes its own when the function raised (`Drop`). `Fail` is a
refused call, the second disjuncts of `Insert` and `Commit` a lost answer, the
second of `Write` a refused update, whose error nobody reads, and `Die` the end
of the function. `raced` and `cut` are history: parts that two requests were
between check and commit of, and cards whose request was cut short.

This is the journal's side of the `Reversal` action of StockPosting: there
quantities and posting functions interleave, here requests and faults do.

### KizRegistry

`kiz[c]` is the row of a code: status, owner, batch, and whether the date of the
sale is known. `press[p]` is a POST to the export route and names its batch:
`Claim` and `ClaimRows` are the subquery and the UPDATE of kiz_claim_batch,
`ReadPage` one page of loadBatchRows, then `HandOut`, or `BuildFails` and
`Release`; `GiveUp` is any failure. `download[d]` is the GET that builds the
file of a batch again. `collector[k]` is any of the routes that fill the
register (`Sources`): `Collect` inserts what it lists and never changes a row
that is there, `NoteSold` and `NoteSent` are the two updates that note returns,
`Enrich` fills in missing dates, `Attach` is kiz_attach_legal_entity. History:
`released` batches, the `files` handed out, batches `stirred` by a date filled
in while they were read, and returns `noted`.

### CtrEngine

`status`, `live` and `row` are the test, `step` the active row of
ctr_test_rounds and `closed` the closed ones; `campaign` and `cover` are what
Wildberries has. `at["cron"]` and `at["person"]` are where a pass and a
person's request are, `tick` what the pass remembers of its step: everything it
writes, it writes by that, and `Patch` of a step closed meanwhile changes a row
nobody reads. Each phase is the call that leaves it (`Swap`, `Start`,
`Baseline`, `Stop`, `Read`, `Close`) and the marks and patches that follow as
steps of their own. `Refused`, the `...Lost` actions and `Die` are the faults;
`Fail` is fail() of the engine with its pause after `MaxFail` failures.
`CloseWith` is transition_ctr_test, one transaction with the test's row locked.
`Returns(p)` gives campaign and cover back at the end of a pass or a request, or
from the cron's queue. Numbers are abstracted to what they were measured on:
`shown` collects the covers a running campaign showed since the baseline.

## 3. What the runs show

| Run | Instance | Question |
|---|---|---|
| `doc_keys` | 1 press, 3 requests, all failures, fairness | Every posting beyond the first is paid for by a named mishap (`PostingBudget`); answers are real (`AnswersAreReal`); a settled key stays settled (`SettledStays`); a claim nobody works under is taken over, settled or released as long as the press is retried, and also when retries die (`NoPermanentLock`). |
| `doc_keys_promise` | 2 presses, 4 requests, no failures | The layer implements `PostOnce` (`KeepsPromise`). |
| `stock_serial` | one session, 4 calls, 2 warehouses, 2 cabinets, all functions | Checked postings never overdraw (`NoOverdraft`), a document's part is undone once (`ReversedOnce`). |
| `stock_concurrent` | two sessions, 3 calls, shipments among them, closing and archiving | A sale (`SaleOnce`) and an opening balance (`OpeningOnce`) are still written once; a cell goes below zero only when another transaction drew on it between the check and the COMMIT (`OverdrawnByRaceOnly`), and an opening balance comes on top of a history only when another document was committed between its check and its COMMIT (`OpeningLateByRaceOnly`). |
| `receipts` | 2 lines, 1 counter, 2 posters, 2 correctors | A line enters the register once (`PostedOnce`), at its newest count (`PostsNewestCount`), corrections racing on one line never lose each other's difference (`DriftFixed`), and the batch's total is what the register received unless a line changed while it was posted (`TotalIsRegister`). |
| `tasks_serial` | 2 tasks, 2 sizes, one request at a time | Drafts reserve within the stock (`ReserveWithinStock`), the card of a task equals the register (`CardMatchesRegister`), although any request may break off half way. |
| `tasks_concurrent` | 2 tasks, 2 sizes, 2 overlapping requests, other documents | A task ships once (`ShippedOnce`), not after a cancellation (`CancelledShipsNothing`), and what is shown was moved (`ShownIsMoved`). A request makes the drafts reserve more than there is only when its numbers were overtaken (`ReservedByRaceOnly`). |
| `ctr_engine` | 2 variants, 2 rounds, 2 failures to a pause, all faults | A campaign the test left changed is marked (`MarkStands`) and a replaced cover will be found (`CoverQueued`), but for named losses; steps credited by the cron were measured under their own cover (`CountedUnderOwnCover`) and are the plan's (`PlanFollowed`). |
| `ctr_returns` | 2 variants, 1 round, deaths, fairness | A stopped test gives the campaign back (`GivenBack`), a finished one the cover (`CoverReturned`). |
| `ctr_pause` | as `ctr_engine`, no faults | **Violated**: `PauseHolds`. A test paused after the last reading of its last step is finished by the pass under way, without that step. |
| `doc_reversal` | a document of 2 cabinets and one of none, 2 requests, 5 cards, all faults | A card that says "reversed" is right (`MarkedIsUndone`); moves are undone once but in a race (`UndoneOnce`); the journal follows the register but for requests cut short (`JournalFollows`, `NoEmptyCard`). |
| `kiz_registry` | 2 codes, 2 entities, 2 presses, 1 download, 1 collector, pages of 1 | A code is in one document (`OneDocument`), a noted return is not sent (`NotedStaysBack`), a document has its whole batch (`WholeBatch`) and its owner's codes (`OwnerOfDocument`). |

The violation is a disagreement between the code and a sentence written in it;
`findings` in `PROJECT.json` quotes it. The run is not a tuned scenario: it has
no faults, and shows the first counterexample of the plain model. Further
disagreements, found by the same models, are in section 5.

### Bounds, and why they are enough

* *Keys and requests.* Keys do not interact, so one press with three requests
  (a holder, one that takes over, a third that sees the result of the race)
  reaches every pair of handler steps; the theorems cover any number.
* *Sessions.* Every hazard of posting is a race of two transactions. Calls are
  bounded by `MaxCalls`: an opening balance, two conflicting calls and one more.
  One serial run has two cabinets and two warehouses, because sums over cabinets
  and transfers need them. `MaxQty` 2 tells one piece from several.
* *Receipts.* Two correctors, because a correction computes a difference from the
  count it read. Two lines, because a posting loops over lines and a correction may
  hit a line before, inside or after the loop; two posters for the header's
  uniqueness; counts zero and <<2,1>>, because zero lines skip the cost loop and
  defective pieces enter the register with the opposite sign.
* *Tasks.* Two sizes, since an edit can remove one and add another; two tasks,
  since drafts compete for the stock; two requests, since every hazard is a race
  of two of them - edit and shipment, cancellation and shipment, two shipments,
  two creations - while the deaths of a request, and documents that are not
  tasks, come in between. `MaxQty` is 2 in the serial run, where quantities are
  compared, and 1 with overlapping requests, where a line is there or not: the
  UPDATE of a line to another quantity races in the proofs only.
* *Reversal.* Two requests are enough for every race of check and commit; five
  cards let a document have one for each cabinet, both be reversed, and one of
  the reversals be reversed again. Corrections, whose only part is to be refused
  by `Open`, are left to the theorems.
* *Codes.* Two codes and pages of one row make a batch of several pages; one of
  the codes may lack its date and the other may come back. Of two presses one
  can claim while the other reads, fails or releases. Sources say everything
  they may say, in any combination; the two chosen have between them every
  kind of step: `"sold_tasks"` and `"sales"` only insert, and `"upload"` notes
  returns as `"report"` does (with it the instance has the same states).
* *Tests.* Two variants in two rounds in different orders tell a step from the
  one before it and a round from the next; two equal readings are the least
  that is stable; two failures pause the test. There is one pass and one
  person's request at a time. For liveness one round and one failure are taken:
  the returns begin when the test stops, however far it got. Of the faults only
  deaths are taken there: a function killed before a return leaves what a
  refused return leaves, and Wildberries still refuses an ended campaign.
* `Others` and `Operations` say which documents an instance allows.

`CHECK_DEADLOCK FALSE` stands in every configuration: all of these systems may
really stop, when no user presses anything more and the bounds are spent.

### Fairness

`NoPermanentLock` (`FairSpec` of DocKeys): a handler that is not killed goes on,
and two minutes pass: weak fairness of `Handler(r)` and `Age(k)`. Nothing in the
specification forces a user to press or to press again, a posting to succeed, or
a failure to happen. That the press is retried is a condition inside the
property (`Repeated`: whoever was told "busy" asks again), since without a retry
nobody would need the key. The property then asks for more than the two minutes:
a request that asks must find the claim old, and take it over or find that
another did, who may die in turn. It fails when either half of the fairness or
the condition is dropped.

`GivenBack` and `CoverReturned` (`FairSpec` of CtrEngine): the cron runs every
five minutes (`vercel.json`) and its calls end, which is weak fairness of the
cron as a whole. A call to Wildberries may be refused and a pass may be killed,
but not every time for ever: strong fairness of giving the campaign back, of
clearing its mark and of giving the cover back, by the cron. The person's
requests and the owner get no fairness at all: nobody has to press anything.

## 4. What is proved

TLC looked at every invariant first; TLAPS proves the theorems for all
constants that satisfy the modules' assumptions.

**DocKeysProofs** (any keys, any finite set of requests, any failures).
`TypeCorrect` (the run leaves `TypeOK` to it). `BudgetHolds` proves
`PostingBudget`, which is not inductive: a claim already taken is a posting to
come. The invariant `LoadIsPaid` counts holders and postings together, and a row
that could still be claimed afresh, against what was paid for by the first claim
and by mishaps; each step is a growth, a loss or a move inside that set (lemmas
`Grow`, `Shrink`, `Lose`, `LoadStep`). `AnswersCorrect` strengthens
`AnswersAreReal` by what a handler remembers between its SELECT and its answer
(`AnswerInv`), and `SettledCorrect` is the action property from the same
invariant.

`PromiseKept`, for no failures, proves that the layer implements `PostOnce`: any
keys, any finite set of requests. Its invariant
`QuietInv` pairs every row with the one request that uses it: while nothing
fails they come and go together, so a claim is never old, no request sees it as
stale, and a second posting has no way in. A posting then maps to `Do`, an
answer of success to `Tell`, and everything else to a stutter.

**Sums** (any finite set, any terms). A balance, a reserve and the total of a
batch are sums of the community module Functions, which defines them by a CHOOSE
of the function that solves a recursion. The library's induction theorems take
the property as an operator, which no installed prover instantiates; so the
argument is made with sets. Strict inclusion is well founded on the subsets of a
finite set, hence among the subsets that lack a property there is a smallest
one (`MinimalSubset`, `SubsetInduction`). That gives one and only one solution
of the recursion (`RecursionExists`, `RecursionUnique`), and from it what the
other modules cite: a sum does not depend on the order (`SumRemove`, `SumAdd`),
splits over disjoint sets (`SumUnion`), depends on its terms alone (`SumSame`),
grows with them (`SumLeq`, `SumNat`), and survives renaming and a change of sign
(`SumImage`, `SumNegated`).

**StockPostingProofs** (any warehouses, sizes, cabinets, sales, sessions).
`TypeCorrect` rests on one lemma per posting function, saying that it prepares
well-formed entries. `SaleOnceCorrect` needs `SalesApart`: entries inserted and
not yet committed already exclude each other and the register. `OpeningOnceCorrect`
needs `OpeningLocked`: whoever is between check and commit of an opening balance
holds the lock, and the register had none when it looked.
`OpeningLateByRaceCorrect`, for any number of sessions, follows the opening
balance from its check to its COMMIT (`OpeningFresh`): while nobody has
overtaken the session, the history of its entity is as empty as the check found
it, because whatever is committed meanwhile either overtakes the session or is
another opening balance, which the lock excludes.

`OverdrawnByRaceCorrect` (any number of sessions) rests on `CoverInv`: the
entries a transaction holds are in no other transaction and not in the register
(`Apart`), and while the session is not outdated they are covered, all of them
together, by the balance as it is now (`Covers`). The last is what makes it
inductive: a check that saw enough stays true as long as nobody draws on its
cells, because what others enter there is not negative and sums add up
(`BalanceUnion`); and a shipment of several cabinets is covered as one, not
cabinet by cabinet. With one session nothing is ever outdated, which is
`NoOverdraftCorrect`.

`ReversedOnceCorrect` is about one session at a time. "Nothing or all of it" is
not inductive: a reversal can be reversed, and that one again. The invariant
`Reversible` keeps the ledger behind it: a document has one entry for a cabinet,
each reversal undoes an entry that is there, and no entry is undone by two; then
the sum over the reversals of a part has at most one term (`UndoneWhole`).

**ReceiptPostingProofs** (any lines, counts, posters, counters, correctors).
`IInv` says who holds which lock: a poster holds the rows it costed and moved, a
corrector the row it read, at most one poster is past the header. From it follow
`PostedOnceCorrect`, `PostsNewestCountCorrect` and `DriftFixedCorrect`. Locks
are the heart of it: without `CostedHolds` a correction could change a line
between the two loops of a posting. `TypeCorrect` adds `Totals`, that what a
posting sums and what corrections make of it is never negative. `TotalCorrect`
proves `TotalIsRegister` from `Agreed`: until the batch is posted the register
has nothing of it, and a poster that is not outdated announces what is waiting
now and takes every waiting line as it is (`UpToDate`); afterwards the register
has the counts of the posted lines and the header their sum. That they are
counts is needed again in the last step: a sum of counts is not negative, so
greatest(0, ...) in correct_receipt_batch changes nothing.

**ShipmentTasksProofs** (any tasks, sizes, quantities, requests).
`TypeCorrect` (the runs leave `TypeOK` to it) needs `Placed`: a request inside an
operation has a task.
`CancelledCorrect`, `ShownCorrect` and `ShippedOnceCorrect` follow from
`ShipInv`: a document not posted and not deleted has moved nothing and shows no
shipped quantity (`Unposted`), and while a shipment is under way its document
stays a draft (`LockKeepsDraft`), because everything that would change the
status waits for the row. `CardCorrect` is about one request at a time: its task
then stays a draft until it ends (`OwnDraft`), and the lines a shipment has read
are still the lines (`SeesPlan`). Requests that break off at any step are
included.

`ReservedByRaceCorrect` is about any number of overlapping requests and any
other documents. Its invariant `StandsInv` says of each request that is not
overtaken that the stock it read is there, and from its check to its last write
that what it wants of a size is left by the other drafts (`Stands`). A request
keeps this for itself by the order of its own steps (`CheckStands`,
`CreatedStands`, `WriteStands`), and for the others because a step that takes
from the stock or makes a draft grow marks those it disturbs (`Orderly`,
`BystanderStands`): the reserve of the other drafts does not rise otherwise
(`ReserveFalls`). What is left is that lines only grow when a checked request
writes them, and then to what it wanted (`AddsFits`).

`ReserveCorrect` is the stronger invariant that holds when nothing can be
overtaken, one request at a time and arrivals as the only other documents: its
`ReserveInv` has the same parts for all sizes (`WantFits`, `StockSeen`,
`NotCreated`, `NoTaskYet`), and a write replaces one term of the reserve
(`ReserveSplit`, `ReserveStep`).

**DocReversalProofs** (any documents, cabinets, requests, cards and faults).
`TypeCorrect`, then `IInv`, which says what a request relies on between its
calls: its own card is its own (`OwnCard`, `OwnApart`), its moves are in the
register exactly from its commit on (`OwnMoves`), and the part it is about to
write was free when it looked or is in `raced` (`ReadyOrRaced`, `BothRaced`).
`MarkedCorrect`, `UndoneOnceCorrect`, `JournalCorrect` and `NoEmptyCardCorrect`
follow.

**KizRegistryProofs** (any codes, entities, presses, downloads, collectors, page
sizes). `TypeCorrect` contains that a code has a batch exactly while it is sent.
`IInv` relates what a press or a download holds to the rows of its batch
(`Claimed`, `RowsHeld`, `DownloadsHeld`, `FilesHeld`) and what a collector has
met to the statuses it can still have (`MetAtPass2`, `MetNotSold`,
`NotedKnown`); from it follow `OneDocumentCorrect`, `NotedStaysBackCorrect` and
`OwnerOfDocumentCorrect`. `WholeBatchCorrect` needs a second invariant, `WInv`:
the rows read so far are the first ones of the batch in the order of the query,
as many as the cursor says, unless the batch was stirred. Its core is that pages
of an ordered set partition it, proved with cardinalities.

**CtrEngineProofs** (any variants, plan, limits and faults). `IInv` says which
labels a pass can be at, what `tick` remembers of the step and when the step is
still the remembered one. `MarkStandsCorrect` and `CoverQueuedCorrect` follow
the marks through both processes; `CountedCorrect` the covers shown since the
baseline through pauses and restarts of the step; `PlanFollowedCorrect` the
position in the plan, which is the number of closed steps.

Assumptions used are the named ASSUMEs of the modules: finiteness of `Requests`,
`Tasks`, `Lines`, `Cabinets` and `Sales`, distinctness of the null values, and
bounds being numbers. TLC evaluates them in every run. Some theorems assume more,
and say so in their statement, as the run of the property does: `Sessions =
{only}` or `Requests = {only}` where a property needs that transactions or
requests do not overlap (sections 3 and 5 say what overlapping ones do),
`Failures = {}` for the promise of the key layer, and `Others \subseteq {"in"}`
for the reserve, since other documents may ship what the drafts reserved.

### Only model-checked

Every invariant and every action property the runs check has a theorem, but for
`PauseHolds`, which the code breaks. Liveness
(`NoPermanentLock`, `GivenBack`, `CoverReturned`) stays with TLC: fairness and
ENABLED are outside TLAPS.

## 5. Known not to hold

These fail in the models, in larger instances of them or by reading the code,
and no property claims them.

Sentences of the code that the models refute:

* *A balance does not go below zero*
  (`202609040003_warehouse_flow_functions.sql:123-124`). post_shipment sums the
  register without a lock and inserts later (202608230015:336): two shipments
  of the last piece both pass. `OverdrawnByRaceOnly` says that nothing else
  overdraws.
* *A document is not reversed twice* (202608250029:68-69). The check and the
  inserts of post_doc_reversal are separate statements without a lock or a
  unique index (:63): two requests at once both pass. `UndoneOnce` says that
  nothing else undoes twice, lost answers and repeated presses included.
* *While one request posts under a key, the next is told "busy"*
  (`lib/warehouse/idempotency.ts:20`). Two retries that both read the claim as
  stale both take it over: the UPDATE (202608240018:57) asks for the key alone.
* *Nobody is told "saved" of numbers that were dropped*
  (`receipts/route.ts:571-573`). How many rows the UPDATE changed is not looked
  at (:610), so of two people counting one batch both are told so.
* *The lines of a task that has left are not edited*
  (`tasks/[id]/route.ts:63-66`). The mark holds nothing (:67), and the lines are
  changed by later statements that ask for no status.
* *The total of a batch has to agree with the register*
  (`202609040003_warehouse_flow_functions.sql:137-138`). post_receipt_batch sums
  it first (202609150007:55) and reads the lines again later: a line counted or
  corrected in between is in the register and not in the total.
  `TotalIsRegister` says that nothing else parts them.
* *A card is dropped when its moves were not written*
  (`docs/[id]/reverse/route.ts:122-123`). It is dropped also when they were and
  only the answer was lost.
* *A code the report shows as withdrawn is not sent again* (202608240025). The
  report is inserted with ignoreDuplicates, so a code the register has as sold
  stays so.

Other statements one might expect:

* *A reversal leaves no negative stock.* It asks for none (202608250029:79):
  reversing the receipt of goods already shipped overdraws.
* *A reversal reversed restores the card.* The original card stays "reversed"
  although its moves are in force again.
* *A correction that raises changes nothing.* Expected quantities were updated
  before (`receipts/correct/route.ts:153`).
* *A return that was noted is remembered.* releaseBatch puts a batch back
  without looking at statuses, `returned_after_sent` included; and a return
  applied before its code was inserted as sold is forgotten.
* *A code is in one document, releases included.* A batch downloaded while its
  own request still builds the file, which then fails, goes out twice.
* *A batch is never lost.* When the claim's answer is lost, its codes are sent,
  in no document, and found only as the last batch. A date filled in between two
  pages may drop a code from its document. A returned code sold again never
  goes out. The sales walk writes its cursor before its rows
  (`kiz/sales/route.ts:183`).
* *A campaign or cover taken is always given back.* A change whose mark was
  lost, or was erased by somebody clearing an earlier one, is not: `lapse` and
  `coverLapse` are these cases, and no others exist.
* *A started test is taken by the cron.* Its switch is set after the start
  (`ctrtest/[id]/action/route.ts:244`); if that update is lost, it runs idle.
* *One warehouse of an entity writes off FBS sales.* Check and switch are
  separate requests (`warehouses/[id]/route.ts:66`).
* *Amounts vanish with the pieces.* The average cost is rounded and multiplied
  back (202608230015:361).
* *A closed period is final.* A posting that inserted before the period was
  closed commits after it.
* *An opening balance comes first, under concurrency.* Another posting may
  commit between its check (202609140010:54) and its COMMIT.
  `OpeningLateByRaceOnly` says that nothing else makes it late.
* *An archived warehouse is empty.* A return posted between the two requests of
  the archiving route stays in it; reversals and sales never ask at all.
* *A counted line can be posted.* The header is unique, so lines counted after
  the posting of their batch stay received and unposted.
* *A batch is counted as a whole.* Lines are separate requests.
* *A line counted as zero is posted at its newest count.* It is not locked by
  the cost loop, so it may be corrected between the move loop's SELECT and its
  own UPDATE.
* *Overlapping creations reserve within the stock.* Reading the stock, reading
  the drafts and inserting the lines are separate requests (`tasks/route.ts:130`).
  `ReservedByRaceOnly` says that nothing else oversubscribes it.
* *A document that moved goods exists.* The undo of a failed creation deletes
  the task whatever became of it, a posting included.
* *One press, one posting, when a handler dies.* Its posting may have committed,
  and the takeover posts again; `PostingBudget` says exactly how often.

## 6. Abstractions

* Money is left out: quantities only. Notes, numbers, names and access checks too.
* Identifiers are model values; `calls` is the source of fresh document ids.
* Time in DocKeys is one bit per key; days in StockPosting are small numbers.
* Reversals written before entries had the link to what they reverse, which
  post_doc_reversal still looks up by the note (202608250029:73), do not occur
  in StockPosting and DocReversal; nor does a database without the migration for
  cabinets, for which the route repeats the call in its older form.
* A posting's reads are one step and its inserts another. Lines of different
  sizes in one document are independent, so calls carry one size; a shipment
  carries several cabinets of it, because those are checked by their sum.
* post_fbs_sales is called with any subset of the orders and one size for all.
* A correction takes one line; the loop over lines only orders locks, and a
  deadlock of two such loops is an abort. A count takes every expected line it
  was given; adding unknown products to a batch is left out.
* A task's line is named by its size. The read of the drafts and of their lines
  in the reserve check is one step; edits of the note alone are left out.
* `ShipPost` is atomic: two postings spending one stock are StockPosting's
  subject, and would break ReserveWithinStock in the same way.

* Reversal: an entry stands for all moves of a document and a cabinet. Drafts,
  cancelled tasks and the texts of the journal are left out.
* Codes: one number orders both dates and codes. What sources and catalogue say
  is arbitrary, lists are written in one piece, a code is sold and returned once.
  Prices and the preview of a file (markSent = false) are left out.
* Tests: the reading of a state and the change that follows it are one step, as
  are a read of the database and the write after it. Impressions are abstracted
  to covers shown; lateness of live statistics, the warmup's length and the
  spend cap are nondeterministic or left out. `finish` pressed by a person
  credits the step as it stands.

## 7. Not modelled, and the plan

Of the modelled components: money (moving average cost, rounding), the FBS
switch, creating and deleting receipts, the first CTR engine in
`rotate/route.ts`, the pauses of shelf campaigns, the choice of a winner, the
cursor of the sales walk.

Not modelled at all, in the order in which they are worth it:

1. **DDS links** (`lib/finance/factLinks.ts`): payments, chains and bank facts
   that must be covered exactly once.
2. **Planning state** (`lib/planning/stateStore.ts`): a compare-and-set on
   updated_at, which should refine an atomic register.
3. **Purchase orders** and their shipments, saved by one RPC each.
4. **Sync queues** (`lib/wb/syncRecovery.ts`, `lib/ozon/accrualSyncQueue.ts`):
   cursors with an overlap, leases.
5. **FBS switch** and **cost of stock**.

The rest of the repository is reports, screens, clients of outside services and
declarative tables (`PROJECT.json` gives the reason for each): their state is
read-only, sequential or not ours, and a model would restate them.
