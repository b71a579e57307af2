----------------------------- MODULE Settlement -----------------------------
(***************************************************************************)
(* From conversions to payments of one cycle: LogEvent                     *)
(* (internal/src/tracking/service.go), FinalisePayouts                     *)
(* (internal/src/campaign/service.go), and ComputeAndStoreCyclePayout,     *)
(* ApprovePayout and MarkPayoutPaid (internal/src/payout/service.go),      *)
(* called concurrently while the cycle and its campaign stop and resume.   *)
(*                                                                         *)
(* The services leave the primary keys of conversion_events and            *)
(* payout_records empty, so each table holds at most one row: a second one *)
(* violates the key, which LogEvent takes for a repeated event.            *)
(***************************************************************************)
EXTENDS CyclePayout, FiniteSets

CONSTANTS Requests,     \* the calls of clients and admins
          Keys,         \* the idempotency keys of the clients
          Talents,      \* the talents of the platform
          CycleTerms,   \* the cycles considered: see CyclePayout; and assigned, the
                        \* assignments in the order of ListAssignedTalents
          LinkedTalent, \* the talent of the tracking link (see SlotAssignment: there is one)
          MaxFailures   \* bound: failed database calls of one behaviour

Assignments == Seq([talent : Talents, tier : Nat, status : AssignmentStatuses])

\* PRIMARY KEY (talent_id, cycle_id) of talent_assignments; the link is made
\* with an assignment.
ASSUME SettlementAssumption ==
  /\ CycleTerms \subseteq [type : Pipelines, pool : Int, cpa : Nat, kpbs : Seq(Nat),
                           assigned : Assignments]
  /\ \A c \in CycleTerms :
       /\ \E i \in DOMAIN c.assigned : c.assigned[i].talent = LinkedTalent
       /\ \A i, j \in DOMAIN c.assigned : c.assigned[i].talent = c.assigned[j].talent => i = j
  /\ MaxFailures \in Nat

VARIABLES cycle,          \* the terms of the cycle
          cycleActive,    \* cycle.Status is active
          campaignActive, \* campaign.Status is active
          events,         \* table conversion_events: from ids to rows
          records,        \* table payout_records: from ids to rows
          pushed,         \* the keys of the events sent to the dashboards
          mailed,         \* the talents told that they were paid
          pc,             \* where each call is
          op,             \* what each call was asked
          active,         \* whether each LogEvent found the cycle active
          inputs,         \* what each FinalisePayouts has counted
          todo            \* the records each FinalisePayouts has still to store

\* Not in the code: the LogEvent calls whose cycle or campaign has changed
\* since they read it, whether an event was stored after a call began to
\* count, and the number of failures.
VARIABLES stale, raced, failures

ghosts == <<stale, raced, failures>>
rows == <<cycle, cycleActive, campaignActive, events, records, pushed, mailed>>
vars == <<rows, pc, op, active, inputs, todo, ghosts>>

-----------------------------------------------------------------------------
Assigned == cycle.assigned
TalentsOfCycle == {Assigned[i].talent : i \in DOMAIN Assigned}

EventRow == [key : Keys, talent : TalentsOfCycle, late : BOOLEAN]
RecordRow == [talent : TalentsOfCycle, status : {"report_pending", "approved", "paid"},
              payout : Nat, approved : BOOLEAN, paid : BOOLEAN]

Ops ==
  [kind : {"event"}, key : Keys, link : BOOLEAN]
    \cup [kind : {"approve", "pay"}, talent : TalentsOfCycle]
    \cup {[kind |-> "finalise"]}

NoOp == [kind |-> "none"]

\* What FinalisePayouts passes to ComputeCyclePayout, and what it keeps of the results.
Destinations == Seq([conversions : Nat, cost : Nat])
Bonuses == Seq([amount : Nat, triggers : Nat])
Input == [pipeline : Pipelines, budget : Nat, status : AssignmentStatuses,
          destinations : Destinations, leads : Nat, cap : Nat, bonuses : Bonuses]
Payout == [talent : TalentsOfCycle, payout : Nat]

Running == {"link", "cycle", "campaign", "insert", "push", "check", "count", "bonus",
            "store", "emit", "find", "approve", "pay", "mail"}

Answers == {"ok", "already", "refused", "failed"}

TypeOK ==
  /\ cycle \in CycleTerms
  /\ cycleActive \in BOOLEAN /\ campaignActive \in BOOLEAN
  /\ DOMAIN events \subseteq {""} /\ \A id \in DOMAIN events : events[id] \in EventRow
  /\ DOMAIN records \subseteq {""} /\ \A id \in DOMAIN records : records[id] \in RecordRow
  /\ pushed \subseteq Keys
  /\ mailed \subseteq TalentsOfCycle
  /\ pc \in [Requests -> Running \cup Answers \cup {"idle"}]
  /\ active \in [Requests -> BOOLEAN]
  /\ op \in [Requests -> Ops \cup {NoOp}]
  /\ inputs \in [Requests -> Seq(Input)] /\ todo \in [Requests -> Seq(Payout)]
  /\ stale \subseteq Requests
  /\ raced \in BOOLEAN
  /\ failures \in 0 .. MaxFailures

Init ==
  /\ cycle \in CycleTerms
  /\ cycleActive = TRUE /\ campaignActive = TRUE
  /\ events = <<>> /\ records = <<>>
  /\ pushed = {} /\ mailed = {}
  /\ pc = [r \in Requests |-> "idle"]
  /\ op = [r \in Requests |-> NoOp]
  /\ active = [r \in Requests |-> FALSE]
  /\ inputs = [r \in Requests |-> <<>>]
  /\ todo = [r \in Requests |-> <<>>]
  /\ stale = {} /\ raced = FALSE /\ failures = 0

-----------------------------------------------------------------------------
Goto(r, label) == pc' = [pc EXCEPT ![r] = label]

Stored(row) == [id \in {""} |-> row]

Begin(r) ==
  /\ pc[r] = "idle"
  /\ \E o \in Ops :
       /\ op' = [op EXCEPT ![r] = o]
       /\ Goto(r, CASE o.kind = "event" -> "link"
                    [] o.kind = "finalise" -> "check"
                    [] OTHER -> "find")
  /\ UNCHANGED <<rows, active, inputs, todo, ghosts>>

\* activeTrackingContext: the link, the cycle and the campaign are read one
\* after the other, and nothing holds them until the event is stored.
ReadLink(r) ==
  /\ pc[r] = "link"
  /\ Goto(r, IF op[r].link THEN "cycle" ELSE "refused")
  /\ UNCHANGED <<rows, op, active, inputs, todo, ghosts>>

ReadCycle(r) ==
  /\ pc[r] = "cycle"
  /\ active' = [active EXCEPT ![r] = cycleActive]
  /\ Goto(r, "campaign")
  /\ UNCHANGED <<rows, op, inputs, todo, ghosts>>

\* A deviation: the campaign's status is not looked at.
ReadCampaignUnchecked(r) ==
  /\ pc[r] = "campaign"
  /\ Goto(r, IF active[r] THEN "insert" ELSE "refused")
  /\ UNCHANGED <<rows, op, active, inputs, todo, ghosts>>

ReadCampaign(r) ==
  /\ pc[r] = "campaign"
  /\ Goto(r, IF active[r] /\ campaignActive THEN "insert" ELSE "refused")
  /\ UNCHANGED <<rows, op, active, inputs, todo, ghosts>>

\* A deviation: neither key is checked.
EventTakenNever(key) == FALSE

\* PRIMARY KEY (id), and UNIQUE (idempotency_key).
EventTaken(key) == "" \in DOMAIN events \/ \E id \in DOMAIN events : events[id].key = key

StoreEvent(r) ==
  /\ events' = Stored([key    |-> op[r].key,
                       talent |-> LinkedTalent,
                       late   |-> ~(cycleActive /\ campaignActive)])
  /\ raced' = (raced \/ records # <<>>
                     \/ \E q \in Requests : pc[q] \in {"count", "bonus", "store", "emit"})

LogEvent(r) ==
  /\ pc[r] = "insert"
  /\ ~EventTaken(op[r].key)
  /\ StoreEvent(r)
  /\ Goto(r, "push")
  /\ UNCHANGED <<cycle, cycleActive, campaignActive, records, pushed, mailed,
                 op, active, inputs, todo, stale, failures>>

LogEventConflict(r) ==
  /\ pc[r] = "insert"
  /\ EventTaken(op[r].key)
  /\ Goto(r, "already")
  /\ UNCHANGED <<rows, op, active, inputs, todo, ghosts>>

\* The event is stored but its acknowledgement is lost.
LogEventUnheard(r) ==
  /\ pc[r] = "insert"
  /\ ~EventTaken(op[r].key)
  /\ failures < MaxFailures
  /\ failures' = failures + 1
  /\ StoreEvent(r)
  /\ Goto(r, "failed")
  /\ UNCHANGED <<cycle, cycleActive, campaignActive, records, pushed, mailed,
                 op, active, inputs, todo, stale>>

\* The totals are read (an error counts as 0) and sent, or dropped.
PushEvent(r) ==
  /\ pc[r] = "push"
  /\ pushed' = pushed \cup {op[r].key} \/ UNCHANGED pushed
  /\ Goto(r, "ok")
  /\ UNCHANGED <<cycle, cycleActive, campaignActive, events, records, mailed,
                 op, active, inputs, todo, ghosts>>

-----------------------------------------------------------------------------
\* FinalisePayouts refuses a cycle that is not active, once.  Locking the
\* flagged events sets a flag that is set.
CheckCycle(r) ==
  /\ pc[r] = "check"
  /\ Goto(r, IF cycleActive THEN "count" ELSE "refused")
  /\ UNCHANGED <<rows, op, active, inputs, todo, ghosts>>

Conversions(talent) == Cardinality({id \in DOMAIN events : events[id].talent = talent})

Counting(r) == Assigned[Len(inputs[r]) + 1]

\* A deviation: the conversions of the cycle are counted for every talent.
CountOfCycle(talent) == Cardinality(DOMAIN events)

CountOf(talent) == Conversions(talent)

\* One more assignment: its conversions, and the cost from the campaign.  A
\* count or a campaign that cannot be read is taken for 0.
Count(r) ==
  LET a == Counting(r)
  IN  /\ pc[r] = "count"
      /\ \E misread \in {"nothing"} \cup IF failures < MaxFailures THEN {"count", "cost"} ELSE {} :
           /\ inputs' = [inputs EXCEPT ![r] = Append(@,
                TalentInput([cycle EXCEPT !.cpa = IF misread = "cost" THEN 0 ELSE @], a,
                            IF misread = "count" THEN 0 ELSE CountOf(a.talent)))]
           /\ failures' = IF misread = "nothing" THEN failures ELSE failures + 1
      /\ Goto(r, "bonus")
      /\ UNCHANGED <<rows, op, active, todo, stale, raced>>

Payouts(talents) ==
  LET results == ComputeCyclePayout(talents, cycle.pool)
  IN  [i \in DOMAIN results |-> [talent |-> Assigned[i].talent, payout |-> results[i].payout]]

\* buildKPBInputs counts the conversions again for the bonuses of a lead
\* cycle, and leaves out what it cannot read.  When all assignments are
\* counted the payouts are computed.
CountBonuses(r) ==
  LET n        == Len(inputs[r])
      triggers == CountOf(Assigned[n].talent)
      read     == [k \in DOMAIN inputs[r][n].bonuses |->
                     [inputs[r][n].bonuses[k] EXCEPT !.triggers = triggers]]
  IN  /\ pc[r] = "bonus"
      /\ \E bonuses \in {read} \cup IF failures < MaxFailures THEN {<<>>} ELSE {} :
           LET counted == [inputs[r] EXCEPT ![n].bonuses = bonuses]
           IN  /\ inputs' = [inputs EXCEPT ![r] = counted]
               /\ failures' = IF bonuses = read THEN failures ELSE failures + 1
               /\ IF n < Len(Assigned)
                    THEN Goto(r, "count") /\ UNCHANGED todo
                    ELSE Goto(r, "store") /\ todo' = [todo EXCEPT ![r] = Payouts(counted)]
      /\ UNCHANGED <<rows, op, active, stale, raced>>

\* PRIMARY KEY (id), and UNIQUE (talent_id, cycle_id).
RecordTaken(talent) == "" \in DOMAIN records \/ \E id \in DOMAIN records : records[id].talent = talent

\* A deviation: the report is not waited for.
NewRecordPending(p) == [talent |-> p.talent, status |-> "pending", payout |-> p.payout,
                        approved |-> FALSE, paid |-> FALSE]

NewRecord(p) == [talent |-> p.talent, status |-> "report_pending", payout |-> p.payout,
                 approved |-> FALSE, paid |-> FALSE]

CreateRecord(r) ==
  LET p == Head(todo[r])
  IN  /\ pc[r] = "store"
      /\ todo[r] # <<>>
      /\ ~RecordTaken(p.talent)
      /\ records' = Stored(NewRecord(p))
      /\ todo' = [todo EXCEPT ![r] = Tail(@)]
      /\ UNCHANGED <<cycle, cycleActive, campaignActive, events, pushed, mailed,
                     pc, op, active, inputs, ghosts>>

\* A deviation: a record that cannot be stored is skipped.
CreateRecordConflictSkips(r) ==
  /\ pc[r] = "store"
  /\ todo[r] # <<>>
  /\ RecordTaken(Head(todo[r]).talent)
  /\ todo' = [todo EXCEPT ![r] = Tail(@)]
  /\ UNCHANGED <<rows, pc, op, active, inputs, ghosts>>

CreateRecordConflict(r) ==
  /\ pc[r] = "store"
  /\ todo[r] # <<>>
  /\ RecordTaken(Head(todo[r]).talent)
  /\ Goto(r, "refused")
  /\ UNCHANGED <<rows, op, active, inputs, todo, ghosts>>

RecordsDone(r) ==
  /\ pc[r] = "store"
  /\ todo[r] = <<>>
  /\ Goto(r, "emit")
  /\ UNCHANGED <<rows, op, active, inputs, todo, ghosts>>

\* The cycle is read back and announced: see CampaignCycles.
EmitFinalised(r) ==
  /\ pc[r] = "emit"
  /\ Goto(r, "ok")
  /\ UNCHANGED <<rows, op, active, inputs, todo, ghosts>>

-----------------------------------------------------------------------------
HasRecord(talent) == \E id \in DOMAIN records : records[id].talent = talent

\* ApprovePayout and MarkPayoutPaid find the record, and write it whatever
\* its status.
FindRecord(r) ==
  /\ pc[r] = "find"
  /\ Goto(r, IF HasRecord(op[r].talent) THEN op[r].kind ELSE "refused")
  /\ UNCHANGED <<rows, op, active, inputs, todo, ghosts>>

\* A deviation: an approval starts the payment again.
ApproveResets(r) ==
  /\ pc[r] = "approve"
  /\ records' = [records EXCEPT ![""].status = "approved", ![""].approved = TRUE, ![""].paid = FALSE]
  /\ Goto(r, "ok")
  /\ UNCHANGED <<cycle, cycleActive, campaignActive, events, pushed, mailed,
                 op, active, inputs, todo, ghosts>>

Approve(r) ==
  /\ pc[r] = "approve"
  /\ records' = [records EXCEPT ![""].status = "approved", ![""].approved = TRUE]
  /\ Goto(r, "ok")
  /\ UNCHANGED <<cycle, cycleActive, campaignActive, events, pushed, mailed,
                 op, active, inputs, todo, ghosts>>

MarkPaid(r) ==
  /\ pc[r] = "pay"
  /\ records' = [records EXCEPT ![""].status = "paid", ![""].paid = TRUE]
  /\ Goto(r, "mail")
  /\ UNCHANGED <<cycle, cycleActive, campaignActive, events, pushed, mailed,
                 op, active, inputs, todo, ghosts>>

\* The mail is sent if the talent and the user can be read.
MailPaid(r) ==
  /\ pc[r] = "mail"
  /\ mailed' = mailed \cup {op[r].talent} \/ UNCHANGED mailed
  /\ Goto(r, "ok")
  /\ UNCHANGED <<cycle, cycleActive, campaignActive, events, records, pushed,
                 op, active, inputs, todo, ghosts>>

-----------------------------------------------------------------------------
\* Admins stop and resume the cycle and the campaign: see CampaignCycles.
SetStatus ==
  /\ \/ cycleActive' = ~cycleActive /\ UNCHANGED campaignActive
     \/ campaignActive' = ~campaignActive /\ UNCHANGED cycleActive
  /\ stale' = stale \cup {r \in Requests : pc[r] \in {"campaign", "insert"}}
  /\ UNCHANGED <<cycle, events, records, pushed, mailed, pc, op, active, inputs, todo,
                 raced, failures>>

\* A database call of r returns an error and the call ends.  What was written
\* stays.  The reads behind "push", "count" and "mail" ignore their errors.
Fail(r) ==
  /\ pc[r] \in {"link", "cycle", "campaign", "insert", "check", "store", "emit", "find", "approve", "pay"}
  /\ failures < MaxFailures
  /\ failures' = failures + 1
  /\ Goto(r, IF pc[r] = "link" THEN "refused" ELSE "failed")
  /\ UNCHANGED <<rows, op, active, inputs, todo, stale, raced>>

Step(r) ==
  \/ Begin(r)
  \/ ReadLink(r)
  \/ ReadCycle(r)
  \/ ReadCampaign(r)
  \/ LogEvent(r)
  \/ LogEventConflict(r)
  \/ LogEventUnheard(r)
  \/ PushEvent(r)
  \/ CheckCycle(r)
  \/ Count(r)
  \/ CountBonuses(r)
  \/ CreateRecord(r)
  \/ CreateRecordConflict(r)
  \/ RecordsDone(r)
  \/ EmitFinalised(r)
  \/ FindRecord(r)
  \/ Approve(r)
  \/ MarkPaid(r)
  \/ MailPaid(r)
  \/ Fail(r)

Next == SetStatus \/ \E r \in Requests : Step(r)

Spec == Init /\ [][Next]_vars

-----------------------------------------------------------------------------
LoggedOnce ==
  /\ \A r \in Requests : op[r].kind = "event" /\ pc[r] = "ok" =>
       /\ \E id \in DOMAIN events : events[id].key = op[r].key
       /\ \A q \in Requests : op[q].kind = "event" /\ pc[q] = "ok" /\ op[q].key = op[r].key => q = r
  /\ \A key \in pushed : \E id \in DOMAIN events : events[id].key = key

LateEventNeedsRace == \A id \in DOMAIN events : events[id].late => stale # {}

\* An event is acknowledged as logged at most once for its key, however often
\* and concurrently clients repeat it, and then it is stored; the dashboards
\* only show events that are stored (LogEvent); and an event of a cycle that is
\* not running is stored only when the cycle or the campaign changed while the
\* call was between its reads and its write.
EventLogSound == LoggedOnce /\ LateEventNeedsRace

\* FinalisePayouts returns success only when every assigned talent has a
\* record; it never hides a partial run.
FinalisedIsComplete ==
  \A r \in Requests : op[r].kind = "finalise" /\ pc[r] = "ok" =>
    \A talent \in TalentsOfCycle : HasRecord(talent)

\* The payouts for the events that are stored.
DuePayouts ==
  Payouts([i \in DOMAIN Assigned |-> TalentInput(cycle, Assigned[i], Conversions(Assigned[i].talent))])

PayoutIsDue ==
  ~raced /\ failures = 0 =>
    \A id \in DOMAIN records : \A i \in DOMAIN DuePayouts :
      records[id].talent = DuePayouts[i].talent => records[id].payout = DuePayouts[i].payout

MailedIsPaid ==
  \A talent \in mailed : \E id \in DOMAIN records : records[id].talent = talent /\ records[id].paid

\* A stored payout is the one due for the events stored, unless an event came
\* in after the counting began or a read failed: each talent is counted
\* separately, twice, and nothing stops the events (FinalisePayouts).  And a
\* talent who was told of a payment has one: paid_at is set, and stays set when
\* the record is approved again (MarkPayoutPaid, ApprovePayout).
PaymentsSound == PayoutIsDue /\ MailedIsPaid
=============================================================================
