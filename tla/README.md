# Verification of talent-backend

talent-backend runs marketing campaigns: brands fund campaigns, campaigns are
divided into cycles, a cycle's budget is divided into slots, talents are
assigned to slots, their tracking links log conversions, and a cycle ends in
payouts. It is one Go process (`cmd/main.go`) over PostgreSQL. Every HTTP
request is a goroutine of its own; services read and write the database call by
call, with one transaction in the whole program (the audit append). Cron jobs and
the websocket hub run beside the requests. So the system is a set of concurrent
sequential programs over shared tables, and what protects them is what the
tables' keys refuse.

The modules model that: a call (*request*, *job*, *connection*) has a program
counter, each database call is one atomic action, and the constraints of the
migrations are guards.

## Components

| Component | State | Operations that change it | What is hard | What makes it correct |
|---|---|---|---|---|
| Audit log (`internal/audit`, `middleware/audit.go`) | `audit_log`, `audit_chain_tip`, archive objects | `Recorder.Record` | the tip is read outside the transaction; three attempts; archive before append; lost acknowledgements | an intact hash chain; nothing recorded twice; losses only for known causes |
| Waterfall (`internal/allocation`) | none | `BuildBudgetSlots` | rounding, caps, ceilings | slots fit the budget and their talents |
| Campaigns and cycles (`src/campaign`) | `campaigns`, `cycles`, `budget_slots` | `Create`, `CreateCycle`, `PatchCycle`, activate, pause, close, `Patch`, `Archive` | listing, check and write are apart; several writes without a transaction; no status guards | numbers without gaps; budgets within the total |
| Assignments (`src/assignment`) | `budget_slots`, `talent_assignments`, `tracking_links` | `RunSolver`, `ConfirmAssignments`, `AddHuman`, patch, remove | the same, on slots; three writes per assignment | one talent per slot; slot, assignment and link agree |
| Tracking (`src/tracking`) | `conversion_events` | `LogEvent` | repeated and lost requests; the cycle stops meanwhile | an event counts once, and only while its cycle runs |
| Payouts (`src/payout`, `algo/payout.go`) | `payout_records` | `FinalisePayouts`, approve, pay | counting while events come in; partial runs; no status guards | the payout due, within pool and allocation |
| Solver and scoring (`algo/hungarian.go`, `match_score.go`, `qualifier.go`) | potentials and paths of one search | pure | costs beside the largest float; a matrix padded with forbidden pairs | a slot for each talent, at the least cost |
| Configuration (`algo/config.go`, `waterfall.go`, `cap_suggest.go`) | none | pure | four adjustments in a row | a suggestion is valid |
| Learning (`algo/stec.go`, `ltl_bayesian.go`, `breakout.go`) | `talent_baselines` | pure, written by jobs | units | ratings that tell talents apart |
| Websocket hub (`internal/websocket`) | the sets of connected clients, five channels | open, register, unregister, broadcast, pumps, stop | random selection among channels, full buffers, shutdown; who may open a route | right events, to whom they are meant for, in order; a gone client is forgotten; nobody blocks |
| Accounts (`src/auth`, `src/admin`, `middleware/auth.go`) | `users`, `talents`, `sessions` | register, invite, login, session check, logout, status changes | a status in three places; a login beside a suspension | a blocked account is not served |
| Jobs (`internal/jobs`, `internal/baseline`) | baselines, flags, `email_dispatches` | four cron jobs, the cold start | read-modify-write by several jobs; two instances during a deployment; crash between record and send | no update lost; at most one reminder |
| Brands and contacts (`src/brand`) | `brands`, `brand_contacts` | create, logo, add contact | an id is chosen by looking, then stored, then looked up | the answer shows one's own row |
| Talents, settings | rows of one user | edits | | |
| Mail, media, SSE, health, HTTP plumbing, startup | none or connections | | | |

Components meet in the database, and in five buffered channels to the hub, on
which every producer sends without blocking and drops what does not fit
(`websocket/push.go`). A domain action may record an audit entry; the error of
recording is ignored by all callers.

`PROJECT.json` lists, under `hazards`, what in this code is hard to reach with a
test, each with the properties that watch it.

## Modules

Each module that models code names it in its header. The definitions marked
*A deviation* are what a plausible mistake would make of the definition that
follows; no specification uses them. They are there to show that each property
is sensitive to the code (see `PROJECT.json`, `mutants`).

- **AuditLog** – what callers of `Record` may rely on: a log that grows at its
  end, a call recorded at most once, and "no error" only if recorded.
- **AuditChain** – `Record`. State: the table `log`, the row `tip`, the archived
  copies, and per call the attempt and the entry it has drafted. Actions:
  `ReadTip` (an error reads as an empty log), `ArchivePut` (may fail, ignored),
  then one transaction: `AppendOk`, `AppendMismatch` (rolled back, retried
  twice), `AppendError`, or `AppendUnacknowledged` (committed, answer lost), and
  `Push`. `hit` (not in the code) counts failures. Hashes are the entries'
  identities: SHA-256 is taken to be injective.
- **BudgetSlots** – `BuildBudgetSlots` as operators on whole units of money.
- **CycleLedger** – what campaign code promises about cycles: each gets the next
  number, starts pending, and its budget and status change one at a time.
- **CampaignCycles** – campaign calls, extends BudgetSlots. State: `campaign`,
  `cycles`, `slots`, what was `announced`; per call `op` (what was asked), `seen`
  (its listing) and `todo` (slots still to insert). `fresh`, `raced` and
  `rebudgeted` are not in the code: which listings are up to date, whether a
  budget was ever written on an outdated one, and whether one was changed.
- **SlotAssignment** – assignment calls of one cycle, extends BudgetSlots. The
  solver's output comes back from the client, so `ConfirmAssignments` takes any
  list of distinct talents and slots. `raced` (not in the code) is a write on an
  outdated listing; a confirmed list comes of none and is `confirmed` instead.
- **CyclePayout** – `ComputeCyclePayout` and the inputs its service makes, in
  kobo, with exact arithmetic where the code has float64.
- **Settlement** – `LogEvent`, `FinalisePayouts`, `ApprovePayout` and
  `MarkPayoutPaid` on one cycle, extends CyclePayout. `stale` and `raced` (not in
  the code) say which calls the status changed under, and whether an event was
  stored after counting began.
- **Accounts** – registration, invites, login, `ValidateSession` and the changes of
  status. State: the tables `users`, `talents` and `sessions`; per call what it
  does, for whom, with the row it read. What time does to a session or an invite,
  and what a client sends wrong, is a choice of the step that looks. The six ghosts
  name the causes the code allows for a disagreement (`late`: a login that stored
  its session after the row changed; `unrevoked`: an ignored error; `mixed`: two
  changes at a time; `parted`: a change that leaves one place behind).
- **WebsocketHub** – the hub's `Run`, its channels, the handlers that register and
  both pumps of each connection. A connection has the role and the talent of its
  user, the route and the cycle. The routes' middleware only asks for a session
  (`cmd/main.go:309-314`); which role may open what is up to each handler
  (`MayOpen`), and `ServeAdmin` asks for none. A broadcast is one step because
  nothing else writes to a client's buffer. `overtaken` (not in the code) has the
  clients whose leaving was received before their coming.
- **ScheduledJobs** – the four cron jobs in every running instance, and
  `EnsureColdStart`. Time is the hour that cron strikes; the guard of `Strike` is
  that each job ends within its own time limit, which is below an hour. A baseline
  is the list of outputs it learned: what is asked of it is whether one got lost,
  not the discounted mean. `owed` (not in the code) is what it would be if updates
  were atomic.
- **Utilisation** – the rating of the daily job, without roots and divisions.
- **CapSuggestion** – `Validate`, `RunWaterfall` and `SuggestConfig`.
- **Algorithms** – the pure functions as a system: any question one of them can be
  asked (`Questions`) is an initial state, and the only step answers it.
- **HungarianSolver** – `Solve`, one pass of a loop per step, with the price of a
  talent on a slot in whole 150ths of a day. `profiles`, `tiers` and `cpa` are its
  input (Talents and Slots in the code); `loop` says which of its loops a row is in.
  `Near` rounds a sum as float64 does, to the nearest number that has few enough
  bits, of two to the even one, and beyond `Forbidden` to `Infinity`: `Precision` and
  `Spacings` give a float of fewer bits and a smaller largest number, so that TLC
  sees what rounding does beside `Forbidden`. Fractions of a 150th, which float64
  also rounds, are left out.
- **Brands** – brands, logos, contacts and the ids of campaigns, with a clock that
  counts months. Short codes that can meet differ in their last character, so a
  code is a number; digits are below `Digits`.
- **AuditChain_proofs, CampaignCycles_proofs, SlotAssignment_proofs, Settlement_proofs,
  Accounts_proofs, Brands_proofs, WebsocketHub_proofs, ScheduledJobs_proofs** –
  theorems.
- **MC...** – the instances TLC checks. MCAlgorithms asks Algorithms and the solver
  every small question; MCSolver asks the solver the one it never answers.

Primary keys surprise: the services leave those of `tracking_links`,
`conversion_events`, `payout_records` and `brand_contacts` empty, the inserts name
the `id` column, so its default never applies, and each of the tables can hold one
row. SlotAssignment, Settlement and Brands model this as it is (the row with id
`""`). The first two look at one cycle; a row of another cycle would take the same
id, and then no call of this one could store a row at all.

## Runs

| Run | Instance | Shows |
|---|---|---|
| audit_chain | 3 calls, 2 failures of any kind | `ChainIntact`; `TracesMatchLog`: stored entries are archived and shown ones stored, or a failure is known; `LossNeedsContention`; `EveryCallReturns`; refinement of AuditLog |
| campaign_cycles | 3 calls, 1 failure | numbering, budget, completeness and activation; refinement of CycleLedger |
| slot_assignment | 3 calls, 2 talents, 1 failure | `SlotPointsBack`; `SlotFaultsNeedCause`: a shared slot or slots over the budget only by a race, a repeated solver run or a list that names a taken slot; `SuccessIsStored` |
| tracking_links | 2 calls, no failure | *violated*: an assigned talent has a link |
| settlement | 3 calls, 2 idempotency keys, 1 failure, cycle and campaign stop and resume freely | `EventLogSound`: counted once, late only in a race; `FinalisedIsComplete`; `PaymentsSound`: the payout due unless events came in or a read failed, and a mailed talent is paid |
| accounts | one user of each role, 3 calls, 1 failure | `BarredStayOut`, `SurvivorNeedsRace`, `StatusesInStep` |
| invite_accepted | 2 staff, 2 calls, no failure | *violated*: an account that is answered as activated is active |
| websocket_hub | a connection of each route, one by a user the route is not meant for, and one that is refused, any two open; 2 pushes of 5 kinds of events; room for two in the channels of conversions and of talent updates, for one elsewhere | `RightEventsInOrder`: only what the route, the cycle and the talent may see, outside the audience only over the admin route of a cycle, and in the order of the pushes; `StaleNeedsOvertaking`, `HubServes` (liveness) |
| scheduled_jobs | 2 instances that overlap for an hour, days of two hours, 2 cold starts, 1 failure | `LearningKept`, `RemindersOnce` |
| algorithms | up to 3 talents and 3 slots with the values around every comparison; floats of 14 bits | `SlotsSound`, `PayoutsSound`, `OnlyCollapseIsSeen`, `ConfigurationSound`, `SolutionIsSound` |
| brands | 3 requests, 2 letters, two years of two months, 1 failure | `AnswersMatchRows`: one's own row, and a logo only by an upload that did not fail; `NumbersContiguous`, `RefusalNeedsCause` |
| solver_returns | 2 talents and 4 slots, floats of 9 bits | *violated*: the columns that change hands lead back to the first |

Every passing run also checks its module's `TypeOK`. `SolutionIsSound` is the
solver's types, `ColumnsDistinct`, `CheapestIsFound`, and `LoopsEnd` as long as no
pass was `Fruitless`, that is found no column for its row.

**Bounds.** Three calls are enough for every pair of operations to race while a
third has left something behind or follows up (create, create and patch; add,
add and remove; event, finalise and approve; login, suspend and use). In
AuditChain three attempts can only all be lost to three other calls, so the run
has failures stand in for some; the theorems cover any number. A failed call
(`MaxFailures`, `MaxFaults`) can come anywhere. The amounts are chosen around the
comparisons: in campaign_cycles the total is 12, so that cycles of 4 and 8 fill
it, two of 8 exceed it and 2 is below the smallest tier; in slot_assignment a
budget of 8 leaves room for no third slot of 3; in algorithms the pools are empty,
just short and ample, and the tiers lie between and at multiples of the costs. Its
floats are exact for every sum of costs (`Exact`, below) and its largest one is big
enough to swallow them, which is how float64 and the code's `Forbidden` relate;
solver_returns has shorter ones, since the circle needs rounding errors that three
slots and 14 bits do not produce, but four slots do in float64 too. In
websocket_hub two events of a type can wait in one channel, so that they could change
places there, and a buffer of one is full while the second comes, so that an event
is dropped, or could be tried again behind a later one; `register` and `unregister`
hold one, and a connection that leaves at once meets its own registration. In scheduled_jobs two-hour days keep the order of the
real crontab (daily at the first hour, nightly at the second); jobs that share no
table run in behaviours of their own (`Crontabs`), because nothing connects them.
In brands one digit and three tries make codes run out and repeat, and two
two-month years contain a turn of the month and of the year. Calls of a run are
interchangeable, hence symmetry, except where liveness or refinement is checked
and in invite_accepted.

**Deadlock** is not checked: calls end, and a system whose calls have all ended
may stop. That nobody is stuck on the way is what `EveryCallReturns` and
`HubServes` say.

**Fairness.** AuditChain: weak fairness of each call's own steps, because a
goroutine that serves a request keeps running and every database and archive call
returns or fails by its context. WebsocketHub: weak fairness of each case of the
hub's `select` (Go chooses at random among those that are ready, so that none is
passed over for ever), and of the goroutines that wait for room in a channel (Go
queues them). Clients, writers, pushes and the stop of the hub have none:
`HubServes` holds although a client never reads. The other modules state safety
only.

## What the checks found

1. *Only the first assigned talent gets a tracking link* (`tracking_links`;
   `README.md:23` of the repository says each does), because of the empty primary
   keys. The call fails after the assignment and the slot were written.
2. *Only the first accepted invite activates an account* (`invite_accepted`;
   `auth/service.go:145`). An accepted invite's token becomes the empty string, the
   column is UNIQUE, and the error of the update is ignored: the second admin is
   told `account_activated` and stays invited, without a password.
3. *The assignment solver may not return* (`solver_returns`; `algo/hungarian.go:195`,
   where `README.md:21` has it return the optimal matching). A row without any
   column left that is not forbidden ends its pass with the difference `inf` and
   goes on from column 0. From then on its slacks are differences with the largest
   float, `way` still holds what earlier rows wrote, and rounding decides which of
   these entries are replaced: two columns may come to point at each other, and the
   loop that follows them never ends. More slots than talents are enough, and
   `RunSolver` adds the waterfall's slots again each time it is called. The run's
   question does this with the 53 bits of float64 as well as with its nine.
4. *A brand's campaigns cannot be created in a second month of a year*
   (`brands`; `store/store.go:66`, `store/domain.go:217`). The number counts the
   month's campaigns and the id holds only the year, so the first id of the second
   month is taken; nothing is stored, so trying again gives the same.
   `RefusalNeedsCause` must therefore admit, beside a race, that the campaign with
   the id was counted or stored in another month.

5. *Anybody who is signed in may open the admin stream of any cycle*
   (`websocket_hub`). `docs/websocket-events.md:10` gives `/ws/admin/{cycle_id}` to
   "Admin / campaign manager" and line 11 gives talents their "own data only", but
   the route has only `Authenticate` (`cmd/main.go:309-314`), and `ServeAdmin`
   (`websocket/ws.go:290-306`) never looks at the role, as `ServeAdminLive` does. The
   run has a talent on that stream, who is sent another talent's conversions.
   `RightEventsInOrder` must therefore admit this route by name (`MayReceive`); on the
   other two everybody is of the audience the document names.

Not runs of their own, but met on the way, each by the definition that models it:

- `Record` gives up after three lost races and every caller ignores that
  (`audit/recorder.go:58`), although `AuditMutations` "records successful mutating
  HTTP requests". `LossNeedsContention` shows that it takes three other entries.
- `CloseCycle` of the service never decrements `campaigns.remaining_budget`, which
  `store/domain.go:226` says happens. Budgets are respected all the same, because
  creation sums the cycles.
- `MarkPayoutPaid` looks at no status, although its comment says that it moves an
  approved payout.
- Only one brand contact can ever be stored (`brand/service.go:138`), which is why
  the cap of three per brand is never reached; `Brands` has no path that names it.
- The daily job hands `ComputeSTEC` the tier (money) where it expects conversions
  (`jobs/daily_compute.go:83`): `OnlyCollapseIsSeen`. It also runs at 00:00 and asks
  for the output of the day that has just begun (`daily_compute.go:66`), so it
  learns what `TodayOutput` gives at the first minute of a day.
- The solver need not be optimal when sizes differ or a pair is forbidden: the
  padding swallows the costs. `CheapestIsFound` claims the optimum only for square
  problems in which everybody qualifies (`EverybodyFits`).
- `PatchUser` of `Active` leaves the talent's status behind and lets a banned user
  back in; a reinstated user keeps `deleted_at`. `StatusesInStep` names the former as
  a cause.
- A client that leaves at once may stay a member of the hub for ever
  (`StaleNeedsOvertaking`), and after the hub has stopped the 33rd connection that
  ends waits for ever (`HubServes` says: only then).
- Every conversion triggers every bonus, although `payout/service.go:208` says those
  whose type matches; the SSE streams pass the campaign's id to a query by cycle id
  (`websocket/sse.go:74`), so they always show 0 conversions.

## Proofs

The theorems hold for every value of the constants that their modules' named
assumptions admit: any number of calls, failures, brands, budgets and months.
Every invariant a run checks of the eight state machines and of the algorithms that
answer at once is the property of a theorem, and so are both refinements.

**AuditChain_proofs** (from `MaxFaultsAssumption` and `GenesisAssumption`).
`TypeCorrect` needs `AttemptsLeft`: a call that still tries is below its last
attempt. `ChainCorrect` is `ChainIntact`, inductive beside `TypeOK`: the
transaction compares the tip with the draft's predecessor, so what it appends
continues the chain. `LossCorrect` needs to know what a refused attempt says of
the log: `DraftOnChain` (a draft names a position of the chain as its
predecessor), hence a refusal means the log has grown past the draft
(`MismatchMeansOvertaken`), hence as many entries as attempts lost
(`Overtaken`). `StoredCorrect` adds that a draft is archived before it is
appended (`ArchivedFirst`) and which calls are in the log (`AppendedWhen`).
`RecorderRefinesLog` uses the same `AppendedWhen`: an append maps to a step of
AuditLog for a call not recorded before, every other step to an answer or a
stutter.

**CampaignCycles_proofs** (from `CyclesAssumption`: the budgets are amounts, the
campaign and the talents have terms).

- `NumbersCorrect`: a listing counts at most the cycles there are when its number is
  inserted (`ListedBefore`), because cycles are never deleted, and (campaign,
  number) is UNIQUE; a number that is at most one more than the count and is not
  taken can only be the next.
- `TypeCorrect` adds what a call was asked, by where it is (`CallsSound`), and that
  a cycle is named after the call that created it (`CreatorsSound`).
- `CreatedCorrect`: the slots of a cycle and those its call has still to insert are
  those of the waterfall, from the first insertion on (`SlotsInv`).
- `ActiveCorrect`: while a cycle is active and the campaign is not, a call that
  activated a cycle is on its way to the campaign (`ActiveInv`).
- `BudgetCorrect`: while no outdated call has written, each listing that is still
  good leaves room for its call (`UnracedInv`). Creations alone keep the budget even
  when they race: a number that is free means that the listing has seen every cycle
  (`FreeNumber`, `CreationsInv`).
- `CyclesRefineLedger`: an insertion opens the next position of the ledger
  (`LedgerGrows`), an update changes one entry (`LedgerChanges`), and every other
  step is a stutter.

**SlotAssignment_proofs** (from `AssignmentAssumption`). `Typed`, `CallsSound`,
`IdsSound` and `SolversSound` say what a call is asked, which slots it has made so
far (a solver those of the waterfall, in its order), and which rows it has left.

- `PointsCorrect`: a call about to take a slot has made the assignment that names
  it (`PointsInv`); an assignment never moves to another slot.
- `StoredCorrect`: the pairs of a list that are done are stored, and assignments and
  links are never removed (`StoredInv`).
- `FaultsCorrect`, first half: a call whose listing is up to date claims a slot
  that no talent has, and the slot of an assignment is taken or a call is about to
  take it (`SharingInv`). Second half: while nothing overtakes a call and no solver
  adds to what is there, the tiers of the slots are within the budget, because a
  call checks it before it creates and a solver inserts a beginning of the waterfall
  (`FundingInv`, `PrefixFits`), which never promises more than the budget
  (`WaterfallWithin`).
- `WaterfallSound`, for every campaign, budget and list of talents: after each turn of
  the loop the rows are numbered per tier, match the talents they were made for one to
  one and in order, and are as many as the talents so far whose ceiling admits the
  smallest tier, unless the capacity is used up or an error ended the loop (`Turned`,
  kept by `TurnStays` and `TurnAdds`). The fair share is a whole tier that as many
  talents as the capacity can have (`FairSound`).

And about the solver (from `SolverAssumption`), for every list of talents and slots
(`Question`). MCAlgorithms and MCSolver ask it some of these questions; `SolverSpec`
asks it any.

- `ColumnsCorrect` is `ColumnsDistinct`, whatever a cost is and however sums are
  rounded: between the rows, columns and the rows so far are matched one to one; while
  a row searches, the rows before it are; while columns change hands, all are, the
  one in hand left out and column 0 taken in (`MatchInv`).
- `LoopsCorrect` and `OptimumCorrect` are about `EverybodyFits` in exact arithmetic:
  `Exact` says that four times the dearest cost is less than the first number that is
  rounded, as it is in the code (13152 for a week against 2^53), and `NearExact` that
  no sum is rounded then. The invariant (`PriceInv`) is the one of the textbook: no pair is
  cheaper than its potentials (`Potentials`), a pair that was made costs just that
  (`Edges`), and the columns a pass has met form a tree along `way` (`Passing`), which
  a rank makes well founded (`Ranked`). A free column exists because fewer rows than
  columns are matched (`FreeColumn`), so a pass always finds one (`PassChooses`), never
  has the difference `inf`, and its column is new. The rank falls along the walk back
  (`Walk`), so no set of columns is closed under `way` (`WalkLeadsBack`). At the end every
  pair is tight: the answer costs the sum of all potentials, which no other matching
  can undercut (`PairsCost`, `PriceOptimal`).
- `SolutionCorrect` is `SolutionIsSound` whoever fits, with every sum rounded. It
  rests on `Exact` and on `Modest`: twice a potential that holds no part of `Forbidden`,
  and the dearest cost, stay below the first number that is rounded. Then a sum is exact
  or swallowed, and the invariant (`FloatInv`) says what is left of the textbook's. A
  potential is small, half of `Forbidden` or `Forbidden`, and no pair is cheaper than its
  potentials (`Prices`); what a pass has left over, `minVal` bounds (`Bounded`). As long as
  the pass of a row has always found a column, the columns it met are a tree along `way`
  (`Fresh`), and so the walk back ends (`Leads`). A pass that finds none
  raises the potentials of its path by half of `Forbidden`, which makes `minVal` 0 and the
  row `Fruitless`; of the walk back from there nothing is claimed, and the third
  finding shows why.
- `ShortListsCorrect` has no hypothesis on states: for lists that leave `Room`, `Modest` is
  proved. A pass moves a potential by at most the dearest cost and what the potentials of
  the columns already are (`PassRoom`), and a row meets each column once; so their bound
  grows by at most a factor of the columns and one per row (`Rising`, `GrowInv`). With 53
  bits and cycles of 30 days that leaves room for ten talents and slots.

**Settlement_proofs** (from `SettlementAssumption`: a cycle assigns a talent once, and
one of its talents is the one of the link).

- `EventLogCorrect`: only one call ever knows of the stored event, and a call that has
  seen the cycle and the campaign active is right unless it is stale (`LogInv`).
- `FinalisedCorrect`: what a run has stored and what it has left are the assignments
  in their order (`CompleteInv`).
- `PaymentsCorrect`: the record a call found is the one it writes (`PaidInv`), and
  without a late event or a failure what is counted, computed and stored is what is
  due (`DueInv`). The bonuses are one query per talent; `Recounted` says how far they
  have come.
- What a payout promises, for every input and not only the settled ones.
  `AllocationKept`: the gross is at most the allocation (`GrossTyped`). `PoolKept`: a
  share is rounded up by at most half a kobo (`RoundedClose`), and the shares before
  rounding sum up to the pool (`SumBounded`), so the payouts exceed it by half a kobo for
  each talent at most. `OrderKept`: rounding keeps the order (`RoundedLess`). `ConversionsPay`: a
  conversion more raises the traffic or the lead base and every bonus, also where
  the cap takes over (`TrafficOfOne`, `LeadOf`, `BonusesMore`).
- What the configuration promises. `SharesCorrect`: a tier's slots cost no more than
  its weight of the budget, scaled or not (`ScaledCost`), and the weights sum up to it.
  `SuggestionCorrect`: each of the four adjustments and the clamp keep a configuration
  valid (`Follows`), since tiers stay multiples of the increment (`Multiples`), and only
  one of them raises the cap and one lowers the smallest tier.
- These are lemmas on operators; `PayoutsCorrect` and `ConfigurationCorrect` make them
  invariants of `AlgorithmsSpec`, whose answer is that of its question from the
  first step on (`AnswerInv`), as `SlotsCorrect` does in SlotAssignment_proofs.
  `CollapseCorrect`: no day brings more than all of them (`DayWithinSum`), which is a
  tenth of the tier at most, the tier being taken for the conversions expected of a
  day; so every day counts as one without output (`EveryDayIsZero`): a collapse.

**Accounts_proofs** (from `AccountsAssumption`: nobody has two roles). `CallsSound`
and `RowsSound` say what each step of a request finds.

- `BarredCorrect`: a request of a caller who has been blocked since before it began has
  ended, or has still to read the caller's row, which is blocked (`BarredInv`).
- `SurvivorCorrect`: a step that writes the row of a user lifts the block, is the first
  row, or goes on to the sessions (`Cares`), so that only a race or a failure leaves
  a session behind.
- `StatusesCorrect`: a user who is not `mixed` has one change at a time (`SoleChange`).
  Hence what a change has read or written is still there when it goes on (`SeenInv`,
  `MidChange`), and when none is half-way the two statuses agree (`AgreeInv`) and the
  two halves of the user's too (`ActiveInv`).

**Brands_proofs** (from `BrandsAssumption`). The invariant `Inv` says, beside
`TypeOK`, that ids are unique and, of each request, what it asked for (`Asked`),
when its own row is there (`Stored`), that the id it will look up is its row's
(`LooksUp`) and that its answer is true (`Answer`). Each step keeps this of its own
request and only adds to the tables, which keeps it of the others (`OthersSound`).
For `AnswersCorrect`, the look-up finds a row with one's own id, and there is only
one; a logo comes of an upload that did not fail, because only an upload stores one,
no request at work has uploaded yet (`AtWork`, `OthersStoreNoLogo`) and answers stay. For `NumbersCorrect`, `NumberInv` adds that a counted number is
at most one more than the campaigns of that year, unless a campaign of the brand
straddles the turn of a year (`CountedOf`, with `YearsGrow`), and that an id
carries the code of its brand (`Named`): then a smaller number would be somebody's
id, and the UNIQUE column refuses it (`NextNumber`). `RefusalsCorrect` is about what a
refused request has seen: the codes it tried were taken and the one it would store
was free (`Found`), and the campaigns of a month bound the numbers that were given in
it (`HeldInMonth`, `NumberInMonth`). Rows are only added, so that a cause found once
stays one (`CauseStays`).

**WebsocketHub_proofs** (from `HubAssumption`). `StaleCorrect` needs more than
members: a connection that waits in `register` may become one, so `GoneIsNoticed`
says of members and of those that wait that, once gone, they wait in `unregister`
or were overtaken. For `OrderCorrect`, whoever is a member or about to become one was
let in by a handler (`Admitted`), which says what role or talent its user has, and
the hub's recipients are those of the route, the cycle and the talent
(`RecipientsMay`). Channels are in the order of the pushes
(`ChannelsInOrder`), and whatever a connection was sent is older than what is still
in the channel of its type (`SentInOrder`); then a broadcast, which takes the
oldest, keeps the order, and a full buffer only leaves gaps. A write moves an event
from the buffer to the connection, which changes nothing (`WriteKeepsSent`).

**ScheduledJobs_proofs** (from `JobsAssumption`). `RemindersCorrect`: a job that is
about to send has a key that is recorded and was not sent (`SendsNew`), and no other
job has it (`OwnReminder`), because recording is an insert that only one can win.
When the hour strikes no job is about to send, as each has ended; when an instance
stops, what it was about to send is in `lost`. `LearningCorrect`: whoever is about to
write a talent's baseline has read it as it is and is the only one (`Kept`). Two
servers of one hour may run the same job, which the module counts as an overlap;
the daily and the nightly job are never due in the same hour (`DueApart`), and a job
ends before the next one (`Runs`).

**Sums and loops.** `SlotAssignment_proofs` and `CampaignCycles_proofs` need that a
sum of amounts is one, that it is split by taking an element out, and what the
loop of the waterfall keeps (`SumStep`, `SumOfNats`, `LoopWithin`, `WaterfallWithin`);
Settlement_proofs needs the first two. The induction over the size is an argument by
least counterexample (`LeastNat`): a function that satisfies the equation of the
recursion exists (`AddsExist`, `TurnsExist`) and is unique (`AddsUnique`). The lemmas
are stated in each of the three modules about the definitions it extends.

**Only model-checked.** `EveryCallReturns` and `HubServes`, since liveness under
fairness is beyond the prover. Every invariant and action property of the passing
runs is stated by a theorem. One of these has a condition that is not proved for all
inputs: on lists too long for `Room`, `SolutionIsSound` is a theorem only of the
behaviours that stay `Modest`; `ColumnsDistinct` needs no such condition, and neither
do `CheapestIsFound` and `LoopsEnd` where everybody fits.

## Not modelled

- *SSE streams*: a timer that reads and writes one connection.
- *Talents and settings, profile edits, names, skills and texts*: single row edits
  by one user that nothing else depends on. What settings do to sessions is in
  Accounts.
- *Mail and media*: external; that they fail is an outcome of the action that
  calls them.
- *HTTP plumbing, health, content validation, wiring*: formatting and reads.
- `WriteAuditLog`, which writes outside the chain: `cmd/main.go` always makes a
  recorder, so it is not reached. `Verify` reads the chain.
- The float statistics of baselines and their rounding; the payout and the
  waterfall are exact. Where a float's precision changes a decision (the solver's
  largest float), it is modelled.
- Process crashes in the middle of a request, except for jobs: a request that dies
  between two calls leaves what a failed call leaves, and that is modelled.

## Plan

The state machines are modelled, checked and proved, and so is the solver up to the
limits named above. What is left:

- A bound on the potentials that does not grow with every row, so that `Modest` is
  proved for lists of any length. Where everybody fits there is one (`PriceInv`);
  beside forbidden pairs a small potential may grow with the rows before it.
- For which questions with a fruitless row the walk back ends: this depends on
  rounding, step by step (the third finding).
