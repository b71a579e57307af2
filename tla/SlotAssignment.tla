--------------------------- MODULE SlotAssignment ---------------------------
(***************************************************************************)
(* The talents of one cycle and the slots they hold                        *)
(* (internal/src/assignment): AddHuman, RunSolver, ConfirmAssignments, and *)
(* the patch of an assignment, called concurrently by several admins while *)
(* the cycle is closed and reopened.                                       *)
(*                                                                         *)
(* An assignment is three writes without a transaction: the row of the     *)
(* talent, the slot, and the tracking link.  The slot is picked from a     *)
(* listing that nothing locks.                                             *)
(***************************************************************************)
EXTENDS BudgetSlots, SequencesExt

CONSTANTS Requests,      \* the calls of admins
          TalentIds,     \* the talents an admin may assign
          Creation,      \* stands for the CreateCycle that made the first slots
          CycleBudget,   \* cycle.Cycle_budget
          CampaignTerms, \* target_cpa, max_cpa and cycle_length of the campaign
          Talents,       \* the talents the waterfall sees
          AskedTiers,    \* the tiers an admin asks for
          SmallestTier, LargestTier,  \* Min_tier and Max_tier_cap of algo.DefaultConfig()
          MaxFailures    \* bound: failed database calls of one behaviour

ASSUME AssignmentAssumption ==
  /\ Creation \notin Requests
  /\ CycleBudget \in Nat
  /\ AskedTiers \subseteq Nat
  /\ SmallestTier \in Nat \ {0}
  /\ LargestTier \in Nat
  /\ CampaignTerms \in Terms
  /\ Talents \in Seq(TalentTerms)
  /\ MaxFailures \in Nat

VARIABLES open,        \* whether the cycle's status is other than closed
          slots,       \* table budget_slots of the cycle: from ids to rows
          assignments, \* table talent_assignments of the cycle: from talents to rows
          links,       \* table tracking_links: from ids to talents
          pc,          \* where each call is
          op,          \* what each call was asked
          picked,      \* the slot each AddHuman takes or creates
          todo         \* the rows a call has still to write

\* Not in the code: the calls whose listing is up to date, whether an outdated
\* call has written, whether a solver added slots to slots, whether a list of
\* assignments was confirmed, and the number of failures.
VARIABLES fresh, raced, stacked, confirmed, failures

ghosts == <<fresh, raced, stacked, confirmed, failures>>
rows == <<open, slots, assignments, links>>
vars == <<rows, pc, op, picked, todo, ghosts>>

-----------------------------------------------------------------------------
SlotIds == (Requests \cup {Creation}) \X Nat

Statuses == {"active", "completed", "removed_forfeit", "removed_payout"}

NoTalent == "no talent"

SlotRow == [tier : Nat, index : Nat, allocated : BOOLEAN, talent : TalentIds \cup {NoTalent}]
AssignmentRow == [slot : SlotIds, status : Statuses]
Pair == [talent : TalentIds, slot : SlotIds]

FreeSlot(tier, index) == [tier |-> tier, index |-> index, allocated |-> FALSE, talent |-> NoTalent]

\* The slots the waterfall makes for this cycle.
Waterfall == BuildBudgetSlots(CampaignTerms, CycleBudget, Talents).slots

AddOps == [kind : {"add"}, talent : TalentIds, tier : AskedTiers]
PatchOps == [kind : {"patch"}, talent : TalentIds, status : Statuses]
SolveOp == [kind |-> "solve"]
\* The solver gives a slot to one talent and a talent one slot.
ConfirmOps(ids) ==
  {[kind |-> "confirm", pairs |-> ps] :
     ps \in {q \in SeqOf([talent : TalentIds, slot : ids], 2) :
               /\ q # <<>>
               /\ \A i, j \in DOMAIN q :
                    i # j => q[i].talent # q[j].talent /\ q[i].slot # q[j].slot}}

Running == {"check", "lookup", "list", "create_slot", "claim", "assign", "link", "view",
            "solve", "regenerate", "patch"}

Picks == [kind : {"take"}, slot : SlotIds] \cup [kind : {"create"}, tier : Nat, index : Nat]
           \cup {[kind |-> "none"]}
NoPick == [kind |-> "none"]
NoOp == [kind |-> "none"]

TypeOK ==
  /\ open \in BOOLEAN
  /\ DOMAIN slots \subseteq SlotIds /\ slots \in [DOMAIN slots -> SlotRow]
  /\ DOMAIN assignments \subseteq TalentIds /\ assignments \in [DOMAIN assignments -> AssignmentRow]
  /\ DOMAIN links \subseteq {""} /\ links \in [DOMAIN links -> TalentIds]
  /\ pc \in [Requests -> Running \cup {"idle", "ok", "refused", "failed"}]
  /\ \A r \in Requests : picked[r] \in Picks
  /\ \A r \in Requests : pc[r] # "regenerate" => todo[r] \in Seq(Pair)
  /\ fresh \subseteq Requests
  /\ raced \in BOOLEAN /\ stacked \in BOOLEAN /\ confirmed \in BOOLEAN
  /\ failures \in 0 .. MaxFailures

\* CreateCycle left all of the waterfall's slots, or some when it failed.
Init ==
  /\ open = TRUE
  /\ \E n \in 0 .. Len(Waterfall) :
       slots = [s \in {Creation} \X (1 .. n) |->
                  FreeSlot(Waterfall[s[2]].tier, Waterfall[s[2]].index)]
  /\ assignments = <<>>
  /\ links = <<>>
  /\ pc = [r \in Requests |-> "idle"]
  /\ op = [r \in Requests |-> NoOp]
  /\ picked = [r \in Requests |-> NoPick]
  /\ todo = [r \in Requests |-> <<>>]
  /\ fresh = {} /\ raced = FALSE /\ stacked = FALSE /\ confirmed = FALSE
  /\ failures = 0

-----------------------------------------------------------------------------
Goto(r, label) == pc' = [pc EXCEPT ![r] = label]

Put(f, key, value) == [k \in DOMAIN f \cup {key} |-> IF k = key THEN value ELSE f[k]]

\* A call wrote to slots or assignments: every other listing is outdated.
Written(r) ==
  /\ raced' = (raced \/ r \notin fresh)
  /\ fresh' = fresh \cap {r}

\* An assignment was stored.  What is confirmed was not picked from a listing.
Claimed(r) ==
  /\ raced' = (raced \/ (r \notin fresh /\ op[r].kind # "confirm"))
  /\ fresh' = fresh \cap {r}

\* normalizeEffectiveTier, for a tier it does not refuse.
NormalizeTier(tier) == LesserOf(RoundDown(tier), LargestTier)

Begin(r) ==
  /\ pc[r] = "idle"
  /\ \E o \in AddOps \cup PatchOps \cup {SolveOp} \cup ConfirmOps(DOMAIN slots) :
       /\ op' = [op EXCEPT ![r] = o]
       /\ todo' = [todo EXCEPT ![r] = IF o.kind = "confirm" THEN o.pairs ELSE <<>>]
       /\ Goto(r, CASE o.kind = "add" -> IF RoundDown(o.tier) < SmallestTier THEN "refused" ELSE "check"
                    [] o.kind = "confirm" -> "claim"
                    [] o.kind = "solve" -> "solve"
                    [] o.kind = "patch" -> "patch")
  /\ UNCHANGED <<rows, picked, ghosts>>

\* AddHuman refuses a closed cycle, once.
CheckCycle(r) ==
  /\ pc[r] = "check"
  /\ Goto(r, IF open THEN "lookup" ELSE "refused")
  /\ UNCHANGED <<rows, op, picked, todo, ghosts>>

\* AddHuman refuses a talent with an assignment that is not removed_payout.
\* An error of the lookup is taken for no assignment.
LookupAssignment(r) ==
  LET t == op[r].talent
  IN  /\ pc[r] = "lookup"
      /\ Goto(r, IF t \in DOMAIN assignments /\ assignments[t].status # "removed_payout"
                   THEN "refused" ELSE "list")
      /\ UNCHANGED <<rows, op, picked, todo, ghosts>>

\* The tiers of the slots of these ids, in total.
Tiers(ids) == SumFunctionOnSet([s \in DOMAIN slots |-> slots[s].tier], ids)

\* The order of ListSlotsByCycle.
FirstSlot(ids) ==
  CHOOSE s \in ids : \A u \in ids :
    \/ slots[s].tier < slots[u].tier
    \/ slots[s].tier = slots[u].tier /\ slots[s].index <= slots[u].index

\* A deviation: the last index of the tier is used again.
LastIndexOf(tier) ==
  LET used == {slots[s].index : s \in {u \in DOMAIN slots : slots[u].tier = tier}}
  IN  IF used = {} THEN -1 ELSE Max(used)

NextIndexOf(tier) ==
  LET used == {slots[s].index : s \in {u \in DOMAIN slots : slots[u].tier = tier}}
  IN  IF used = {} THEN 0 ELSE Max(used) + 1

\* A deviation: the slots that are taken are not counted.
PickCountingFree(tier) ==
  LET free  == {s \in DOMAIN slots : ~slots[s].allocated}
      exact == {s \in free : slots[s].tier = tier}
  IN  CASE exact # {} -> [kind |-> "take", slot |-> FirstSlot(exact)]
        [] exact = {} /\ Tiers(free) + tier <= CycleBudget ->
             [kind |-> "create", tier |-> tier, index |-> NextIndexOf(tier)]
        [] exact = {} /\ Tiers(free) + tier > CycleBudget /\ free # {} ->
             [kind |-> "take", slot |-> FirstSlot(free)]
        [] OTHER -> NoPick

\* A deviation: a slot of the right tier is taken whether it is free or not.
PickTaken(tier) ==
  LET exact == {s \in DOMAIN slots : slots[s].tier = tier}
      free  == {s \in DOMAIN slots : ~slots[s].allocated}
  IN  CASE exact # {} -> [kind |-> "take", slot |-> FirstSlot(exact)]
        [] exact = {} /\ free # {} -> [kind |-> "take", slot |-> FirstSlot(free)]
        [] OTHER -> NoPick

\* pickOrCreateSlot: a free slot of the tier, else a new one if the budget
\* allows, else any free slot.
Pick(tier) ==
  LET free  == {s \in DOMAIN slots : ~slots[s].allocated}
      exact == {s \in free : slots[s].tier = tier}
      room  == Tiers(DOMAIN slots) + tier <= CycleBudget
  IN  CASE exact # {} -> [kind |-> "take", slot |-> FirstSlot(exact)]
        [] exact = {} /\ room -> [kind |-> "create", tier |-> tier, index |-> NextIndexOf(tier)]
        [] exact = {} /\ ~room /\ free # {} -> [kind |-> "take", slot |-> FirstSlot(free)]
        [] OTHER -> NoPick

\* The listing is up to date unless another call is between its two writes.
ListSlots(r) ==
  LET p == Pick(NormalizeTier(op[r].tier))
  IN  /\ pc[r] = "list"
      /\ picked' = [picked EXCEPT ![r] = p]
      /\ todo' = [todo EXCEPT ![r] =
                    IF p.kind = "take" THEN <<[talent |-> op[r].talent, slot |-> p.slot]>> ELSE <<>>]
      /\ Goto(r, CASE p.kind = "take" -> "claim"
                   [] p.kind = "create" -> "create_slot"
                   [] p.kind = "none" -> "refused")
      /\ fresh' = IF \E q \in Requests : pc[q] = "assign" THEN fresh ELSE fresh \cup {r}
      /\ UNCHANGED <<rows, op, raced, stacked, confirmed, failures>>

\* UNIQUE(cycle_id, tier_value, slot_index).
IndexTaken(tier, index) == \E s \in DOMAIN slots : slots[s].tier = tier /\ slots[s].index = index

CreateSlot(r) ==
  /\ pc[r] = "create_slot"
  /\ ~IndexTaken(picked[r].tier, picked[r].index)
  /\ slots' = Put(slots, <<r, 0>>, FreeSlot(picked[r].tier, picked[r].index))
  /\ todo' = [todo EXCEPT ![r] = <<[talent |-> op[r].talent, slot |-> <<r, 0>>]>>]
  /\ Written(r)
  /\ Goto(r, "claim")
  /\ UNCHANGED <<open, assignments, links, op, picked, stacked, confirmed, failures>>

CreateSlotConflict(r) ==
  /\ pc[r] = "create_slot"
  /\ IndexTaken(picked[r].tier, picked[r].index)
  /\ Goto(r, "refused")
  /\ UNCHANGED <<rows, op, picked, todo, ghosts>>

-----------------------------------------------------------------------------
\* ConfirmAssignments, once for each pair still to do.

\* A deviation: the row of a talent is replaced by a second assignment.
AssignedNever(t) == FALSE

\* PRIMARY KEY (talent_id, cycle_id).
Assigned(t) == t \in DOMAIN assignments

CreateAssignment(r) ==
  LET p == Head(todo[r])
  IN  /\ pc[r] = "claim"
      /\ ~Assigned(p.talent)
      /\ assignments' = Put(assignments, p.talent, [slot |-> p.slot, status |-> "active"])
      /\ Claimed(r)
      /\ confirmed' = (confirmed \/ op[r].kind = "confirm")
      /\ Goto(r, "assign")
      /\ UNCHANGED <<open, slots, links, op, picked, todo, stacked, failures>>

CreateAssignmentConflict(r) ==
  /\ pc[r] = "claim"
  /\ Assigned(Head(todo[r]).talent)
  /\ Goto(r, "refused")
  /\ UNCHANGED <<rows, op, picked, todo, ghosts>>

\* AssignSlot writes the slot whatever it held.
AssignSlot(r) ==
  LET p == Head(todo[r])
  IN  /\ pc[r] = "assign"
      /\ slots' = [slots EXCEPT ![p.slot].allocated = TRUE, ![p.slot].talent = p.talent]
      /\ Goto(r, "link")
      /\ UNCHANGED <<open, assignments, links, op, picked, todo, ghosts>>

\* The primary key of a tracking link is the id the service leaves empty.
LinkTaken == "" \in DOMAIN links

\* A deviation: a link that cannot be stored is skipped.
CreateLinkSkips(r) ==
  /\ pc[r] = "link"
  /\ links' = IF LinkTaken THEN links ELSE Put(links, "", Head(todo[r]).talent)
  /\ todo' = [todo EXCEPT ![r] = Tail(@)]
  /\ Goto(r, CASE Tail(todo[r]) # <<>> -> "claim"
               [] Tail(todo[r]) = <<>> /\ op[r].kind = "add" -> "view"
               [] OTHER -> "ok")
  /\ UNCHANGED <<open, slots, assignments, op, picked, ghosts>>

CreateLink(r) ==
  /\ pc[r] = "link"
  /\ ~LinkTaken
  /\ links' = Put(links, "", Head(todo[r]).talent)
  /\ todo' = [todo EXCEPT ![r] = Tail(@)]
  /\ Goto(r, CASE Tail(todo[r]) # <<>> -> "claim"
               [] Tail(todo[r]) = <<>> /\ op[r].kind = "add" -> "view"
               [] OTHER -> "ok")
  /\ UNCHANGED <<open, slots, assignments, op, picked, ghosts>>

CreateLinkConflict(r) ==
  /\ pc[r] = "link"
  /\ LinkTaken
  /\ Goto(r, "failed")
  /\ UNCHANGED <<rows, op, picked, todo, ghosts>>

\* AddHuman reads the assignment back; nothing deletes a row.
View(r) ==
  /\ pc[r] = "view"
  /\ Goto(r, "ok")
  /\ UNCHANGED <<rows, op, picked, todo, ghosts>>

-----------------------------------------------------------------------------
UsableSlot(s) == slots[s].tier >= CampaignTerms.target_cpa /\ ~slots[s].allocated

\* RunSolver makes the slots of the waterfall when no listed slot is usable.
\* What it recommends is not stored.
Solve(r) ==
  LET usable == \E s \in DOMAIN slots : UsableSlot(s)
  IN  /\ pc[r] = "solve"
      /\ todo' = [todo EXCEPT ![r] = IF usable THEN <<>> ELSE Waterfall]
      /\ fresh' = IF \E q \in Requests : pc[q] = "assign" THEN fresh ELSE fresh \cup {r}
      /\ stacked' = (stacked \/ (~usable /\ slots # <<>>))
      /\ Goto(r, CASE usable -> "ok"
                   [] ~usable /\ Waterfall = <<>> -> "refused"
                   [] OTHER -> "regenerate")
      /\ UNCHANGED <<rows, op, picked, raced, confirmed, failures>>

\* CreateBudgetSlots, row by row; the slots are made beside those that exist.
RegenerateSlot(r) ==
  LET s == Head(todo[r])
      n == Len(Waterfall) - Len(todo[r]) + 1
  IN  /\ pc[r] = "regenerate"
      /\ ~IndexTaken(s.tier, s.index)
      /\ slots' = Put(slots, <<r, n>>, FreeSlot(s.tier, s.index))
      /\ todo' = [todo EXCEPT ![r] = Tail(@)]
      /\ Written(r)
      /\ Goto(r, IF Tail(todo[r]) = <<>> THEN "ok" ELSE "regenerate")
      /\ UNCHANGED <<open, assignments, links, op, picked, stacked, confirmed, failures>>

RegenerateConflict(r) ==
  /\ pc[r] = "regenerate"
  /\ IndexTaken(Head(todo[r]).tier, Head(todo[r]).index)
  /\ todo' = [todo EXCEPT ![r] = <<>>]
  /\ Goto(r, "failed")
  /\ UNCHANGED <<rows, op, picked, ghosts>>

\* The patch of an assignment, and its removal (removed_payout): the slot and
\* the link keep what they hold.
PatchAssignment(r) ==
  LET t == op[r].talent
  IN  /\ pc[r] = "patch"
      /\ IF Assigned(t)
           THEN assignments' = [assignments EXCEPT ![t].status = op[r].status] /\ Goto(r, "ok")
           ELSE UNCHANGED assignments /\ Goto(r, "refused")
      /\ UNCHANGED <<open, slots, links, op, picked, todo, ghosts>>

\* CloseCycle or ActivateCycle of CampaignCycles.
SetCycleStatus ==
  /\ open' = ~open
  /\ UNCHANGED <<slots, assignments, links, pc, op, picked, todo, ghosts>>

\* A database call of r returns an error.  What was written stays.  An error
\* of the lookup is ignored.
Fail(r) ==
  /\ pc[r] \in Running
  /\ failures < MaxFailures
  /\ failures' = failures + 1
  /\ todo' = [todo EXCEPT ![r] = <<>>]
  /\ Goto(r, IF pc[r] = "lookup" THEN "list" ELSE "failed")
  /\ UNCHANGED <<rows, op, picked, fresh, raced, stacked, confirmed>>

Step(r) ==
  \/ Begin(r)
  \/ CheckCycle(r)
  \/ LookupAssignment(r)
  \/ ListSlots(r)
  \/ CreateSlot(r)
  \/ CreateSlotConflict(r)
  \/ CreateAssignment(r)
  \/ CreateAssignmentConflict(r)
  \/ AssignSlot(r)
  \/ CreateLink(r)
  \/ CreateLinkConflict(r)
  \/ View(r)
  \/ Solve(r)
  \/ RegenerateSlot(r)
  \/ RegenerateConflict(r)
  \/ PatchAssignment(r)
  \/ Fail(r)

Next == SetCycleStatus \/ \E r \in Requests : Step(r)

Spec == Init /\ [][Next]_vars

-----------------------------------------------------------------------------
\* A slot that is allocated names a talent whose assignment names the slot,
\* whatever calls interleave and fail: so no talent holds two slots.
SlotPointsBack ==
  \A s \in DOMAIN slots : slots[s].allocated =>
    slots[s].talent \in DOMAIN assignments /\ assignments[slots[s].talent].slot = s

SharedSlotNeedsCause ==
  (\E t, u \in DOMAIN assignments : t # u /\ assignments[t].slot = assignments[u].slot)
    => raced \/ failures > 0 \/ confirmed

OverfundingNeedsCause == Tiers(DOMAIN slots) > CycleBudget => raced \/ stacked

\* Two talents share a slot only if a call of AddHuman picked from an outdated
\* listing, a call failed between its two writes, or an admin confirmed a list
\* (pickOrCreateSlot and AssignSlot do not check again); and the slots of a
\* cycle exceed its budget, whatever was confirmed, only if a call picked from an
\* outdated listing, or a solver made slots beside the ones in use.
SlotFaultsNeedCause == SharedSlotNeedsCause /\ OverfundingNeedsCause

HasLink(t) == \E id \in DOMAIN links : links[id] = t

\* A call that returns success has stored all it was asked: each talent has an
\* assignment, in the slot that was confirmed, and a tracking link.
SuccessIsStored ==
  \A r \in Requests : pc[r] = "ok" =>
    /\ op[r].kind = "add" => Assigned(op[r].talent) /\ HasLink(op[r].talent)
    /\ op[r].kind = "confirm" =>
         \A i \in DOMAIN op[r].pairs :
           LET p == op[r].pairs[i]
           IN  Assigned(p.talent) /\ assignments[p.talent].slot = p.slot /\ HasLink(p.talent)

\* "Assigned talents receive a unique tracking link and campaign brief"
\* (README.md): when no call runs and none failed, every talent with an
\* assignment has a link.
AssignedHasLink ==
  (\A r \in Requests : pc[r] \notin Running) /\ failures = 0
    => \A t \in DOMAIN assignments : HasLink(t)
=============================================================================
