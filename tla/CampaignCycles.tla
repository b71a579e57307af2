--------------------------- MODULE CampaignCycles ---------------------------
(***************************************************************************)
(* The cycles of one campaign (internal/src/campaign/service.go): admins   *)
(* create cycles, change their budgets, activate, pause and close them,    *)
(* and patch or archive the campaign.                                      *)
(*                                                                         *)
(* Every operation is a row of database calls without a transaction or a   *)
(* lock: what one call read may be stale when the next one writes, and a   *)
(* call that fails leaves what the earlier ones wrote.  The only guards    *)
(* the database adds are the UNIQUE constraints of migrations/006_cycles.  *)
(***************************************************************************)
EXTENDS BudgetSlots, SequencesExt

CONSTANTS Requests,       \* the calls of admins
          TotalBudget,    \* the budget of the campaign
          CampaignTerms,  \* its target_cpa, max_cpa and cycle_length
          Talents,        \* the talents of the platform
          Budgets,        \* the budgets the admins ask for
          MaxFailures     \* bound: failed database calls of one behaviour

ASSUME CyclesAssumption ==
  /\ TotalBudget \in Nat
  /\ CampaignTerms \in Terms
  /\ Talents \in Seq(TalentTerms)
  /\ Budgets \subseteq Nat
  /\ MaxFailures \in Nat

VARIABLES campaign,   \* the row of table campaigns: status and remaining_budget
          cycles,     \* table cycles: from ids to rows
          slots,      \* table budget_slots
          announced,  \* the cycle updates sent to the dashboards
          pc,         \* where each call is
          op,         \* what each call was asked
          seen,       \* what each call read: the cycles listed, the budget they leave
          todo        \* the slots a call has still to insert

\* Not in the code: the calls whose listing no budget write has outdated,
\* whether an outdated call has written a budget, whether a budget was ever
\* changed after its cycle was created, and the number of failures.
VARIABLES fresh, raced, rebudgeted, failures

ghosts == <<fresh, raced, rebudgeted, failures>>
vars == <<campaign, cycles, slots, announced, pc, op, seen, todo, ghosts>>

-----------------------------------------------------------------------------
\* The uuid of a cycle is made by the call that creates it.
Ids == Requests

CycleStatuses == {"pending", "active", "paused", "closed"}
CampaignStatuses == {"draft", "active", "paused", "closed", "archived"}

Row == [number : Nat, status : CycleStatuses, budget : Budgets, remaining : Budgets]

SlotRow == [cycle : Ids, tier : Nat, index : Nat]

\* What admins ask for.  Create and Archive start from no cycle.
CreateOps == [kind : {"create"}, budget : Budgets]
RebudgetOps(ids) == [kind : {"rebudget"}, cycle : ids, budget : Budgets]
StatusOps(ids) == [kind : {"status"}, cycle : ids, status : {"active", "paused", "closed"}]
CampaignOps == [kind : {"campaign"}, status : CampaignStatuses]
Ops(ids) == CreateOps \cup RebudgetOps(ids) \cup StatusOps(ids) \cup CampaignOps

NoOp == [kind |-> "none"]

Running == {"list", "insert", "waterfall", "slots", "emit_created", "update",
            "emit_patched", "emit_status", "campaign_read", "campaign_write"}

Seen == [count : Nat, remaining : Nat]
NothingSeen == [count |-> 0, remaining |-> 0]

TypeOK ==
  /\ campaign \in [status : CampaignStatuses, remaining : Nat]
  /\ DOMAIN cycles \subseteq Ids
  /\ \A c \in DOMAIN cycles : cycles[c] \in Row
  /\ slots \subseteq SlotRow
  /\ announced \subseteq Ids \X {"created", "patched", "active", "paused", "closed"}
  /\ pc \in [Requests -> Running \cup {"idle", "ok", "refused", "failed"}]
  /\ op \in [Requests -> Ops(Ids) \cup {NoOp}]
  /\ seen \in [Requests -> Seen]
  /\ todo \in [Requests -> Seq([tier : Nat, index : Nat])]
  /\ fresh \subseteq Requests
  /\ raced \in BOOLEAN
  /\ rebudgeted \in BOOLEAN
  /\ failures \in 0 .. MaxFailures

Init ==
  /\ campaign = [status |-> "draft", remaining |-> TotalBudget]
  /\ cycles = <<>>
  /\ slots = {}
  /\ announced = {}
  /\ pc = [r \in Requests |-> "idle"]
  /\ op = [r \in Requests |-> NoOp]
  /\ seen = [r \in Requests |-> NothingSeen]
  /\ todo = [r \in Requests |-> <<>>]
  /\ fresh = {}
  /\ raced = FALSE
  /\ rebudgeted = FALSE
  /\ failures = 0

-----------------------------------------------------------------------------
Goto(r, label) == pc' = [pc EXCEPT ![r] = label]

\* The budgets of the cycles of these ids.
BudgetOf(ids) == SumFunctionOnSet([c \in DOMAIN cycles |-> cycles[c].budget], ids)

\* remainingCycleBudget: what the other cycles leave of the total.
RemainingCycleBudget(excluded) ==
  LET left == TotalBudget - BudgetOf(DOMAIN cycles \ excluded) IN GreaterOf(left, 0)

\* A deviation: the budget is compared with the campaign's total.
ValidCycleBudgetOfTotal(budget, remaining) ==
  /\ budget > 0
  /\ budget >= CampaignTerms.target_cpa
  /\ budget >= CampaignTerms.max_cpa
  /\ budget <= TotalBudget

ValidCycleBudget(budget, remaining) ==
  /\ budget > 0
  /\ budget >= CampaignTerms.target_cpa
  /\ budget >= CampaignTerms.max_cpa
  /\ budget <= remaining

\* A budget was written: every other listing is outdated.
BudgetWritten(r) ==
  /\ raced' = (raced \/ r \notin fresh)
  /\ fresh' = {}

Begin(r) ==
  /\ pc[r] = "idle"
  /\ \E o \in Ops(DOMAIN cycles) :
       /\ op' = [op EXCEPT ![r] = o]
       /\ Goto(r, IF o.kind \in {"create", "rebudget"} THEN "list" ELSE "update")
  /\ UNCHANGED <<campaign, cycles, slots, announced, seen, todo, ghosts>>

\* CreateCycle and PatchCycle list the cycles and check the budget asked for.
ListCycles(r) ==
  LET excluded  == IF op[r].kind = "rebudget" THEN {op[r].cycle} ELSE {}
      remaining == RemainingCycleBudget(excluded)
  IN  /\ pc[r] = "list"
      /\ seen' = [seen EXCEPT ![r] = [count |-> Cardinality(DOMAIN cycles), remaining |-> remaining]]
      /\ Goto(r, IF ~ValidCycleBudget(op[r].budget, remaining) THEN "refused"
                 ELSE IF op[r].kind = "create" THEN "insert" ELSE "update")
      /\ fresh' = fresh \cup {r}
      /\ UNCHANGED <<campaign, cycles, slots, announced, op, todo, raced, rebudgeted, failures>>

\* A deviation: no UNIQUE(campaign_id, cycle_number).
NumberTakenNever(n) == FALSE

\* UNIQUE(campaign_id, cycle_number), and the human id made from the number.
NumberTaken(n) == \E c \in DOMAIN cycles : cycles[c].number = n

NextNumber(r) == seen[r].count + 1

\* A deviation: the cycle starts with what is left of the campaign.
NewRowOfCampaign(r) == [number |-> NextNumber(r), status |-> "pending",
                        budget |-> op[r].budget, remaining |-> seen[r].remaining]

NewRow(r) == [number |-> NextNumber(r), status |-> "pending",
              budget |-> op[r].budget, remaining |-> op[r].budget]

InsertCycle(r) ==
  /\ pc[r] = "insert"
  /\ ~NumberTaken(NextNumber(r))
  /\ cycles' = [c \in DOMAIN cycles \cup {r} |-> IF c = r THEN NewRow(r) ELSE cycles[c]]
  /\ BudgetWritten(r)
  /\ Goto(r, "waterfall")
  /\ UNCHANGED <<campaign, slots, announced, op, seen, todo, rebudgeted, failures>>

InsertConflict(r) ==
  /\ pc[r] = "insert"
  /\ NumberTaken(NextNumber(r))
  /\ Goto(r, "refused")
  /\ UNCHANGED <<campaign, cycles, slots, announced, op, seen, todo, ghosts>>

SlotsFor(budget) == BuildBudgetSlots(CampaignTerms, budget, Talents)

\* The slots are computed after the row is stored: when the budget funds no
\* slot the call is refused and the row stays.
Waterfall(r) ==
  LET built == SlotsFor(op[r].budget)
  IN  /\ pc[r] = "waterfall"
      /\ todo' = [todo EXCEPT ![r] = built.slots]
      /\ Goto(r, IF built.error = "" THEN "slots" ELSE "refused")
      /\ UNCHANGED <<campaign, cycles, slots, announced, op, seen, ghosts>>

\* CreateBudgetSlots inserts row by row.
InsertSlot(r) ==
  /\ pc[r] = "slots"
  /\ todo[r] # <<>>
  /\ slots' = slots \cup {[cycle |-> r, tier |-> Head(todo[r]).tier, index |-> Head(todo[r]).index]}
  /\ todo' = [todo EXCEPT ![r] = Tail(@)]
  /\ UNCHANGED <<campaign, cycles, announced, pc, op, seen, ghosts>>

SlotsDone(r) ==
  /\ pc[r] = "slots"
  /\ todo[r] = <<>>
  /\ Goto(r, "emit_created")
  /\ UNCHANGED <<campaign, cycles, slots, announced, op, seen, todo, ghosts>>

\* emitCycleUpdate: the row is read back and sent, or dropped when the channel is full.
Announce(c, type) ==
  announced' = announced \cup {<<c, type>>} \/ UNCHANGED announced

EmitCreated(r) ==
  /\ pc[r] = "emit_created"
  /\ Announce(r, "created")
  /\ Goto(r, "ok")
  /\ UNCHANGED <<campaign, cycles, slots, op, seen, todo, ghosts>>

\* A deviation: a patched cycle starts again.
UpdateBudgetRestarts(r) ==
  /\ pc[r] = "update"
  /\ op[r].kind = "rebudget"
  /\ cycles' = [cycles EXCEPT ![op[r].cycle].budget = op[r].budget,
                              ![op[r].cycle].status = "pending"]
  /\ BudgetWritten(r)
  /\ rebudgeted' = TRUE
  /\ Goto(r, "emit_patched")
  /\ UNCHANGED <<campaign, slots, announced, op, seen, todo, failures>>

\* PatchCycle writes the budget it has checked, and leaves the slots and the
\* remaining budget of the cycle as they were.
UpdateBudget(r) ==
  /\ pc[r] = "update"
  /\ op[r].kind = "rebudget"
  /\ cycles' = [cycles EXCEPT ![op[r].cycle].budget = op[r].budget]
  /\ BudgetWritten(r)
  /\ rebudgeted' = TRUE
  /\ Goto(r, "emit_patched")
  /\ UNCHANGED <<campaign, slots, announced, op, seen, todo, failures>>

EmitPatched(r) ==
  /\ pc[r] = "emit_patched"
  /\ Announce(op[r].cycle, "patched")
  /\ Goto(r, "ok")
  /\ UNCHANGED <<campaign, cycles, slots, op, seen, todo, ghosts>>

\* ActivateCycle, PauseCycle and CloseCycle write the status whatever it was.
UpdateStatus(r) ==
  /\ pc[r] = "update"
  /\ op[r].kind = "status"
  /\ cycles' = [cycles EXCEPT ![op[r].cycle].status = op[r].status]
  /\ Goto(r, "emit_status")
  /\ UNCHANGED <<campaign, slots, announced, op, seen, todo, ghosts>>

\* A deviation: an activated cycle leaves its campaign alone.
EmitStatusOnly(r) ==
  /\ pc[r] = "emit_status"
  /\ Announce(op[r].cycle, op[r].status)
  /\ Goto(r, "ok")
  /\ UNCHANGED <<campaign, cycles, slots, op, seen, todo, ghosts>>

EmitStatus(r) ==
  /\ pc[r] = "emit_status"
  /\ Announce(op[r].cycle, op[r].status)
  /\ Goto(r, IF op[r].status = "active" THEN "campaign_read" ELSE "ok")
  /\ UNCHANGED <<campaign, cycles, slots, op, seen, todo, ghosts>>

\* An activated cycle activates its campaign, on the status read before.
ReadCampaign(r) ==
  /\ pc[r] = "campaign_read"
  /\ Goto(r, IF campaign.status = "active" THEN "ok" ELSE "campaign_write")
  /\ UNCHANGED <<campaign, cycles, slots, announced, op, seen, todo, ghosts>>

ActivateCampaign(r) ==
  /\ pc[r] = "campaign_write"
  /\ campaign' = [campaign EXCEPT !.status = "active"]
  /\ Goto(r, "ok")
  /\ UNCHANGED <<cycles, slots, announced, op, seen, todo, ghosts>>

\* Patch and Archive write the campaign's status whatever it was.
UpdateCampaign(r) ==
  /\ pc[r] = "update"
  /\ op[r].kind = "campaign"
  /\ campaign' = [campaign EXCEPT !.status = op[r].status]
  /\ Goto(r, "ok")
  /\ UNCHANGED <<cycles, slots, announced, op, seen, todo, ghosts>>

\* A deviation: a slot that cannot be inserted is skipped.
FailSkipsSlots(r) ==
  /\ pc[r] \in Running \ {"waterfall"}
  /\ failures < MaxFailures
  /\ failures' = failures + 1
  /\ Goto(r, CASE pc[r] = "slots" -> "emit_created"
               [] pc[r] \in {"campaign_read", "campaign_write"} -> "ok"
               [] OTHER -> "failed")
  /\ UNCHANGED <<campaign, cycles, slots, announced, op, seen, todo, fresh, raced, rebudgeted>>

\* A database call of r returns an error.  What was written stays.  The
\* errors of the campaign calls of ActivateCycle are ignored.
Fail(r) ==
  /\ pc[r] \in Running \ {"waterfall"}
  /\ failures < MaxFailures
  /\ failures' = failures + 1
  /\ Goto(r, IF pc[r] \in {"campaign_read", "campaign_write"} THEN "ok" ELSE "failed")
  /\ UNCHANGED <<campaign, cycles, slots, announced, op, seen, todo, fresh, raced, rebudgeted>>

Step(r) ==
  \/ Begin(r)
  \/ ListCycles(r)
  \/ InsertCycle(r)
  \/ InsertConflict(r)
  \/ Waterfall(r)
  \/ InsertSlot(r)
  \/ SlotsDone(r)
  \/ EmitCreated(r)
  \/ UpdateBudget(r)
  \/ EmitPatched(r)
  \/ UpdateStatus(r)
  \/ EmitStatus(r)
  \/ ReadCampaign(r)
  \/ ActivateCampaign(r)
  \/ UpdateCampaign(r)
  \/ Fail(r)

Next == \E r \in Requests : Step(r)

Spec == Init /\ [][Next]_vars

-----------------------------------------------------------------------------
\* The cycles of a campaign are numbered 1, 2, ... with no gap and no
\* repetition, although CreateCycle computes the number from an unlocked
\* listing: the loser of a race is refused by the UNIQUE constraint.
CycleNumbersContiguous ==
  /\ {cycles[c].number : c \in DOMAIN cycles} = 1 .. Cardinality(DOMAIN cycles)
  /\ \A c, d \in DOMAIN cycles : cycles[c].number = cycles[d].number => c = d

Committed == BudgetOf(DOMAIN cycles)

\* Creating cycles never commits more than the campaign's total, whatever
\* calls of CreateCycle interleave: a listing that misses a cycle also gives
\* a number that is taken.  With PatchCycle too, the total is exceeded only by
\* a call that wrote a budget on a listing that another write had outdated
\* (validateCycleBudget is not repeated under a lock).
UnracedRespectsBudget == ~rebudgeted \/ ~raced => Committed <= TotalBudget

\* A cycle that CreateCycle returns, or announces as created, has exactly the
\* slots of the waterfall for the budget it was created with; a partial set
\* is left only by a call that returned an error.
CreatedIsComplete ==
  \A c \in DOMAIN cycles :
    <<c, "created">> \in announced \/ pc[c] = "ok" =>
      {s \in slots : s.cycle = c} =
        {[cycle |-> c, tier |-> s.tier, index |-> s.index] : s \in ToSet(SlotsFor(op[c].budget).slots)}

\* When every call has returned, none failed and no admin set the campaign's
\* status by hand, a campaign with an active cycle is active (ActivateCycle).
ActiveCycleActiveCampaign ==
  /\ \E c \in DOMAIN cycles : cycles[c].status = "active"
  /\ \A r \in Requests : pc[r] \notin Running
  /\ failures = 0
  /\ \A r \in Requests : op[r].kind # "campaign"
  => campaign.status = "active"

-----------------------------------------------------------------------------
\* The cycles as CycleLedger sees them.
Numbered(n) == CHOOSE c \in DOMAIN cycles : cycles[c].number = n

Ledger == [n \in 1 .. Cardinality(DOMAIN cycles) |->
             [budget |-> cycles[Numbered(n)].budget, status |-> cycles[Numbered(n)].status]]

Abstract == INSTANCE CycleLedger WITH ledger <- Ledger

\* Whatever calls interleave and fail, the admin sees a list that grows at
\* its end and whose cycles change one field of one cycle at a time.
ImplementsCycleLedger == Abstract!Spec
=============================================================================
