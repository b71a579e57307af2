------------------------- MODULE Settlement_proofs -------------------------
(***************************************************************************)
(* Proofs about Settlement, for any number of calls, keys, assignments and *)
(* failures: what is logged, what a finished run has stored, and what is   *)
(* paid; and, for every input, about CyclePayout and CapSuggestion.        *)
(***************************************************************************)
EXTENDS Settlement, Algorithms, FunctionTheorems, FiniteSetTheorems, WellFoundedInduction, TLAPS

\* Where a call may be, by what it was asked.
LabelsOf(kind) ==
  CASE kind = "none"     -> {"idle"}
    [] kind = "event"    -> {"link", "cycle", "campaign", "insert", "push"} \cup Answers
    [] kind = "finalise" -> {"check", "count", "bonus", "store", "emit"} \cup Answers
    [] kind = "approve"  -> {"find", "approve"} \cup Answers
    [] kind = "pay"      -> {"find", "pay", "mail"} \cup Answers

\* How much a call has counted and has still to store.
Progress(r) ==
  /\ pc[r] \in {"idle", "check"} => inputs[r] = <<>>
  /\ pc[r] = "count" => Len(inputs[r]) < Len(Assigned)
  /\ pc[r] = "bonus" => Len(inputs[r]) \in 1 .. Len(Assigned)
  /\ pc[r] = "store" => Len(todo[r]) <= Len(Assigned)

CallsSound == \A r \in Requests : pc[r] \in LabelsOf(op[r].kind) /\ Progress(r)

Sound == TypeOK /\ CallsSound

Logged(r) == op[r].kind = "event" /\ pc[r] \in {"push", "ok"}

\* At most one event is ever stored, by at most one call that knows of it, and
\* it is late only if a call was overtaken between its reads and its write.
LogInv ==
  /\ \A r \in Requests : Logged(r) =>
       /\ "" \in DOMAIN events /\ events[""].key = op[r].key
       /\ \A q \in Requests : Logged(q) => q = r
  /\ \A key \in pushed : "" \in DOMAIN events /\ events[""].key = key
  /\ LateEventNeedsRace
  /\ \A r \in Requests \ stale :
       /\ pc[r] = "campaign" /\ active[r] => cycleActive
       /\ pc[r] = "insert" => cycleActive /\ campaignActive

\* What a run has stored, and what it has still to store, are the assignments
\* in their order.
Handled(r) == Len(Assigned) - Len(todo[r])

CompleteInv ==
  \A r \in Requests : op[r].kind = "finalise" =>
    /\ pc[r] = "store" =>
         /\ \A i \in 1 .. Len(todo[r]) : todo[r][i].talent = Assigned[Handled(r) + i].talent
         /\ \A i \in 1 .. Handled(r) : HasRecord(Assigned[i].talent)
    /\ pc[r] \in {"emit", "ok"} => \A talent \in TalentsOfCycle : HasRecord(talent)

\* The record that a call has found is the one it writes.
PaidInv ==
  /\ \A r \in Requests :
       /\ pc[r] \in {"approve", "pay", "mail"} =>
            "" \in DOMAIN records /\ records[""].talent = op[r].talent
       /\ pc[r] = "mail" => records[""].paid
  /\ \A talent \in mailed :
       "" \in DOMAIN records /\ records[""].talent = talent /\ records[""].paid

DueInput(i) == TalentInput(cycle, Assigned[i], Conversions(Assigned[i].talent))

\* Without a late event and without a failure, what is counted, computed and
\* stored is what is due.
DueInv ==
  ~raced /\ failures = 0 =>
    /\ \A r \in Requests :
         /\ pc[r] \in {"count", "bonus"} =>
              \A i \in 1 .. Len(inputs[r]) : inputs[r][i] = DueInput(i)
         /\ pc[r] = "store" =>
              \A i \in 1 .. Len(todo[r]) :
                todo[r][i].payout = DuePayouts[Handled(r) + i].payout
    /\ "" \in DOMAIN records =>
         \E i \in 1 .. Len(Assigned) :
           /\ records[""].talent = Assigned[i].talent
           /\ records[""].payout = DuePayouts[i].payout

-----------------------------------------------------------------------------
\* One step of the sum over s: some element, and the rest.
Some(s) == CHOOSE x \in s : TRUE
Rest(s) == s \ {Some(s)}
Adds(f, S, g) == g = [s \in S |-> IF s = {} THEN 0 ELSE f[Some(s)] + g[Rest(s)]]

LEMMA LeastNat ==
  ASSUME NEW B \in SUBSET Nat, B # {}
  PROVE  \E m \in B : \A n \in B : m <= n
<1> DEFINE R == OpToRel(<, Nat)
<1>1. IsWellFoundedOn(R, Nat)
  BY NatLessThanWellFounded
<1>2. \A m, n \in Nat : n < m => <<n, m>> \in R
  BY DEF OpToRel
<1> HIDE DEF R
<1>3. \E m \in B : \A n \in B : ~(<<n, m>> \in R)
  BY <1>1, WFMin
<1>4. PICK m \in B : \A n \in B : ~(<<n, m>> \in R)
  BY <1>3
<1>5. ASSUME NEW n \in B PROVE m <= n
  <2>1. m \in Nat /\ n \in Nat /\ ~(n < m)
    BY <1>2, <1>4
  <2>2. QED
    BY <2>1
<1>6. QED
  BY <1>5

LEMMA SumIs ==
  ASSUME NEW f, NEW S
  PROVE  SumFunctionOnSet(f, S) = (CHOOSE g : Adds(f, SUBSET S, g))[S]
BY DEF SumFunctionOnSet, FoldFunctionOnSet, MapThenFoldSet, Adds, Some, Rest

\* The rest of a finite set is smaller.
LEMMA RestSmaller ==
  ASSUME NEW s, IsFiniteSet(s), s # {}
  PROVE  /\ Some(s) \in s /\ Rest(s) \subseteq s /\ IsFiniteSet(Rest(s))
         /\ Cardinality(s) \in Nat \ {0}
         /\ Cardinality(Rest(s)) = Cardinality(s) - 1
<1>1. Some(s) \in s
  BY DEF Some
<1>2. QED
  BY <1>1, FS_RemoveElement, FS_CardinalityType, FS_EmptySet DEF Rest

Small(S, n) == {s \in SUBSET S : Cardinality(s) <= n}

LEMMA AddsExist ==
  ASSUME NEW f, NEW S, IsFiniteSet(S)
  PROVE  \E g : Adds(f, SUBSET S, g)
<1> DEFINE B == {n \in Nat : ~ \E g : Adds(f, Small(S, n), g)}
<1>1. \A s \in SUBSET S : IsFiniteSet(s) /\ Cardinality(s) \in Nat /\ Cardinality(s) <= Cardinality(S)
  BY FS_Subset, FS_CardinalityType
<1>2. Small(S, Cardinality(S)) = SUBSET S /\ Cardinality(S) \in Nat
  BY <1>1 DEF Small
<1>3. SUFFICES B = {}
  <2>1. B = {} => \E g : Adds(f, Small(S, Cardinality(S)), g)
    BY <1>2
  <2>2. QED
    BY <1>2, <2>1
<1>4. SUFFICES ASSUME B # {} PROVE FALSE
  OBVIOUS
<1>5. PICK m \in B : \A n \in B : m <= n
  BY <1>4, LeastNat
<1>6. CASE m = 0
  <2>1. \A s \in Small(S, 0) : s = {}
    BY <1>1, FS_EmptySet DEF Small
  <2>2. Adds(f, Small(S, 0), [s \in Small(S, 0) |-> 0])
    BY <2>1 DEF Adds
  <2>3. QED
    BY <1>5, <1>6, <2>2
<1>7. CASE m # 0
  <2>1. m - 1 \in Nat /\ m - 1 \notin B
    BY <1>5, <1>7
  <2>2. PICK h : Adds(f, Small(S, m - 1), h)
    BY <2>1
  <2> DEFINE g == [s \in Small(S, m) |-> IF s = {} THEN 0 ELSE f[Some(s)] + h[Rest(s)]]
  <2>3. ASSUME NEW s \in Small(S, m), s # {} PROVE g[Rest(s)] = h[Rest(s)]
    <3>1. Rest(s) \in Small(S, m - 1) /\ Rest(s) \in Small(S, m)
      BY <1>1, <1>5, <2>3, RestSmaller DEF Small
    <3>2. h[Rest(s)] = IF Rest(s) = {} THEN 0 ELSE f[Some(Rest(s))] + h[Rest(Rest(s))]
      BY <2>2, <3>1 DEF Adds
    <3>3. QED
      BY <3>1, <3>2
  <2>4. Adds(f, Small(S, m), g)
    BY <2>3 DEF Adds
  <2>5. QED
    BY <1>5, <2>4
<1>8. QED
  BY <1>6, <1>7

\* The sum over a part does not depend on the whole it is part of.
LEMMA AddsUnique ==
  ASSUME NEW f, NEW S, IsFiniteSet(S), NEW T \in SUBSET S, NEW g, NEW h,
         Adds(f, SUBSET S, g), Adds(f, SUBSET T, h)
  PROVE  g[T] = h[T]
<1> DEFINE D == {U \in SUBSET T : g[U] # h[U]}
           B == {Cardinality(U) : U \in D}
<1>1. \A s \in SUBSET T : IsFiniteSet(s) /\ Cardinality(s) \in Nat
  BY FS_Subset, FS_CardinalityType
<1>2. SUFFICES ASSUME D # {} PROVE FALSE
  OBVIOUS
<1>3. B \in SUBSET Nat /\ B # {}
  BY <1>1, <1>2
<1>4. PICK m \in B : \A n \in B : m <= n
  BY <1>3, LeastNat
<1>5. PICK U \in D : Cardinality(U) = m
  BY <1>4
<1>6. /\ g[U] = IF U = {} THEN 0 ELSE f[Some(U)] + g[Rest(U)]
      /\ h[U] = IF U = {} THEN 0 ELSE f[Some(U)] + h[Rest(U)]
  BY <1>5 DEF Adds
<1>7. U # {}
  BY <1>5, <1>6
<1>8. Rest(U) \in SUBSET T /\ Cardinality(Rest(U)) = m - 1 /\ m \in Nat
  BY <1>1, <1>5, <1>7, RestSmaller
<1>9. Rest(U) \notin D
  BY <1>4, <1>8
<1>10. QED
  BY <1>5, <1>6, <1>7, <1>8, <1>9

LEMMA SumStep ==
  ASSUME NEW f, NEW S, IsFiniteSet(S)
  PROVE  SumFunctionOnSet(f, S) =
           IF S = {} THEN 0 ELSE f[Some(S)] + SumFunctionOnSet(f, Rest(S))
<1> DEFINE g == CHOOSE g : Adds(f, SUBSET S, g)
           h == CHOOSE h : Adds(f, SUBSET Rest(S), h)
<1>1. Adds(f, SUBSET S, g)
  BY AddsExist
<1>2. Rest(S) \in SUBSET S /\ IsFiniteSet(Rest(S))
  BY FS_Subset DEF Rest
<1>3. Adds(f, SUBSET Rest(S), h)
  BY <1>2, AddsExist
<1>4. SumFunctionOnSet(f, S) = g[S] /\ SumFunctionOnSet(f, Rest(S)) = h[Rest(S)]
  BY SumIs
<1> HIDE DEF g, h
<1>5. g[S] = IF S = {} THEN 0 ELSE f[Some(S)] + g[Rest(S)]
  BY <1>1 DEF Adds
<1>6. g[Rest(S)] = h[Rest(S)]
  BY <1>1, <1>2, <1>3, AddsUnique
<1>7. QED
  BY <1>4, <1>5, <1>6

\* The sum of amounts is an amount, and does not depend on the order.
LEMMA SumOfNats ==
  ASSUME NEW S, IsFiniteSet(S), NEW f, \A x \in S : f[x] \in Nat
  PROVE  /\ SumFunctionOnSet(f, S) \in Nat
         /\ \A x \in S : SumFunctionOnSet(f, S) = f[x] + SumFunctionOnSet(f, S \ {x})
<1> DEFINE Fine(U) == /\ SumFunctionOnSet(f, U) \in Nat
                      /\ \A x \in U : SumFunctionOnSet(f, U) = f[x] + SumFunctionOnSet(f, U \ {x})
           D == {U \in SUBSET S : ~Fine(U)}
           B == {Cardinality(U) : U \in D}
<1>1. \A s \in SUBSET S : IsFiniteSet(s) /\ Cardinality(s) \in Nat
  BY FS_Subset, FS_CardinalityType
<1>2. SUFFICES ASSUME D # {} PROVE FALSE
  OBVIOUS
<1>3. B \in SUBSET Nat /\ B # {}
  BY <1>1, <1>2
<1>4. PICK m \in B : \A n \in B : m <= n
  BY <1>3, LeastNat
<1>5. PICK U \in D : Cardinality(U) = m
  BY <1>4
<1> DEFINE y == Some(U)
           V == Rest(U)
<1>6. SumFunctionOnSet(f, U) = IF U = {} THEN 0 ELSE f[y] + SumFunctionOnSet(f, V)
  BY <1>1, <1>5, SumStep
<1>7. U # {}
  BY <1>5, <1>6
<1>8. y \in U /\ V = U \ {y} /\ V \in SUBSET S
  BY <1>1, <1>5, <1>7, RestSmaller DEF Rest
<1>9. \A W \in SUBSET S : Cardinality(W) < m => Fine(W)
  <2>1. ASSUME NEW W \in SUBSET S, Cardinality(W) < m, ~Fine(W) PROVE FALSE
    <3>1. W \in D
      BY <2>1
    <3>2. Cardinality(W) \in B
      BY <3>1
    <3>3. Cardinality(W) \in Nat /\ m \in Nat
      BY <1>1, <1>3, <1>4
    <3>4. QED
      BY <1>4, <2>1, <3>2, <3>3
  <2>2. QED
    BY <2>1
<1>10. \A x \in U : U \ {x} \in SUBSET S /\ Cardinality(U \ {x}) = m - 1 /\ m \in Nat
  BY <1>1, <1>5, FS_RemoveElement
<1>11. \A x \in U : Fine(U \ {x})
  <2>1. \A x \in U : Cardinality(U \ {x}) < m
    BY <1>10
  <2> HIDE DEF Fine
  <2>2. QED
    BY <1>9, <1>10, <2>1
<1>12. SumFunctionOnSet(f, U) \in Nat
  BY <1>6, <1>7, <1>8, <1>11
<1>13. ASSUME NEW x \in U
       PROVE  SumFunctionOnSet(f, U) = f[x] + SumFunctionOnSet(f, U \ {x})
  <2>1. CASE x = y
    BY <1>6, <1>7, <1>8, <2>1
  <2>2. CASE x # y
    <3>1. x \in V /\ y \in U \ {x} /\ V \ {x} = (U \ {x}) \ {y} /\ f[x] \in Nat /\ f[y] \in Nat
      BY <1>8, <2>2
    <3>2. SumFunctionOnSet(f, V) = f[x] + SumFunctionOnSet(f, V \ {x})
      BY <1>8, <1>11, <3>1
    <3>3. SumFunctionOnSet(f, U \ {x}) = f[y] + SumFunctionOnSet(f, V \ {x})
      BY <1>11, <3>1
    <3>4. SumFunctionOnSet(f, V \ {x}) \in Nat
      <4>1. Cardinality(V \ {x}) < m /\ V \ {x} \in SUBSET S
        <5>1. Cardinality(V) = m - 1 /\ IsFiniteSet(V) /\ m \in Nat
          BY <1>1, <1>8, <1>10
        <5>2. Cardinality(V \ {x}) = Cardinality(V) - 1
          BY <3>1, <5>1, FS_RemoveElement
        <5>3. QED
          BY <1>8, <5>1, <5>2
      <4>2. QED
        BY <1>9, <4>1
    <3>5. QED
      BY <1>6, <1>7, <3>1, <3>2, <3>3, <3>4
  <2>3. QED
    BY <2>1, <2>2
<1>14. QED
  BY <1>5, <1>12, <1>13

-----------------------------------------------------------------------------
LEMMA GotoDoes ==
  ASSUME TypeOK, NEW r \in Requests, NEW label, Goto(r, label)
  PROVE  /\ pc'[r] = label
         /\ \A q \in Requests \ {r} : pc'[q] = pc[q]
         /\ label \in Running \cup Answers =>
              pc' \in [Requests -> Running \cup Answers \cup {"idle"}]
BY DEF Goto, TypeOK

LEMMA FailuresCounted ==
  ASSUME TypeOK, failures' = failures \/ (failures < MaxFailures /\ failures' = failures + 1)
  PROVE  failures' \in 0 .. MaxFailures
<1>1. failures \in 0 .. MaxFailures
  BY DEF TypeOK
<1>2. MaxFailures \in Nat
  BY SettlementAssumption
<1>3. QED
  BY <1>1, <1>2

LEMMA FailuresNat == ASSUME TypeOK PROVE failures \in Nat
<1>1. failures \in 0 .. MaxFailures
  BY DEF TypeOK
<1>2. MaxFailures \in Nat
  BY SettlementAssumption
<1>3. QED
  BY <1>1, <1>2

LEMMA SeqIsFunction ==
  ASSUME NEW S, NEW s \in Seq(S)
  PROVE  s = [i \in 1 .. Len(s) |-> s[i]]
OBVIOUS

LEMMA SeqElement == ASSUME NEW S, NEW s \in Seq(S), NEW i \in 1 .. Len(s) PROVE s[i] \in S
OBVIOUS

LEMMA SeqOfFunction ==
  ASSUME NEW S, NEW n \in Nat, NEW f \in [1 .. n -> S]
  PROVE  f \in Seq(S) /\ Len(f) = n /\ DOMAIN f = 1 .. n
OBVIOUS

LEMMA LabelsExist == \A kind, label : label \in LabelsOf(kind) /\
    kind \in {"none", "event", "finalise", "approve", "pay"} =>
  label \in Running \cup Answers \cup {"idle"}
BY DEF LabelsOf, Running, Answers

LEMMA OpKinds ==
  ASSUME NEW o \in Ops \cup {NoOp}
  PROVE  /\ o.kind \in {"none", "event", "finalise", "approve", "pay"}
         /\ o.kind = "event" => o.key \in Keys /\ o.link \in BOOLEAN
         /\ o.kind \in {"approve", "pay"} => o.talent \in TalentsOfCycle
BY DEF Ops, NoOp

\* The terms of the cycle, as the assumptions give them.
LEMMA CycleTyped ==
  ASSUME TypeOK
  PROVE  /\ Assigned \in Assignments
         /\ Len(Assigned) \in Nat \ {0}
         /\ DOMAIN Assigned = 1 .. Len(Assigned)
         /\ LinkedTalent \in TalentsOfCycle
         /\ \A i \in 1 .. Len(Assigned) : Assigned[i].talent \in TalentsOfCycle
         /\ \A i, j \in 1 .. Len(Assigned) : Assigned[i].talent = Assigned[j].talent => i = j
<1>1. cycle \in CycleTerms
  BY DEF TypeOK
<1>2. cycle.assigned \in Assignments
  BY <1>1, SettlementAssumption
<1>3. /\ \E i \in DOMAIN Assigned : Assigned[i].talent = LinkedTalent
      /\ \A i, j \in DOMAIN Assigned : Assigned[i].talent = Assigned[j].talent => i = j
  BY <1>1, SettlementAssumption DEF Assigned
<1>4. /\ Assigned \in Assignments /\ Len(Assigned) \in Nat
      /\ DOMAIN Assigned = 1 .. Len(Assigned)
  BY <1>2 DEF Assigned, Assignments
<1>5. Len(Assigned) # 0
  BY <1>3, <1>4
<1>6. QED
  BY <1>3, <1>4, <1>5 DEF TalentsOfCycle

\* A call changes what is its own.
LEMMA StepWho ==
  ASSUME TypeOK, NEW r \in Requests, Step(r)
  PROVE  /\ UNCHANGED <<cycle, cycleActive, campaignActive, stale>>
         /\ \A q \in Requests \ {r} :
              /\ pc'[q] = pc[q] /\ op'[q] = op[q] /\ active'[q] = active[q]
              /\ inputs'[q] = inputs[q] /\ todo'[q] = todo[q]
<1> USE DEF TypeOK, rows, ghosts
<1>1. CASE Begin(r)
  BY <1>1, GotoDoes DEF Begin
<1>2. CASE ReadLink(r) \/ ReadCampaign(r) \/ LogEventConflict(r) \/ CheckCycle(r)
           \/ CreateRecordConflict(r) \/ RecordsDone(r) \/ EmitFinalised(r) \/ FindRecord(r)
           \/ Fail(r)
  BY <1>2, GotoDoes DEF ReadLink, ReadCampaign, LogEventConflict, CheckCycle,
     CreateRecordConflict, RecordsDone, EmitFinalised, FindRecord, Fail
<1>3. CASE ReadCycle(r)
  BY <1>3, GotoDoes DEF ReadCycle
<1>4. CASE LogEvent(r) \/ LogEventUnheard(r) \/ PushEvent(r)
  BY <1>4, GotoDoes DEF LogEvent, LogEventUnheard, PushEvent
<1>5. CASE Count(r)
  BY <1>5, GotoDoes DEF Count
<1>6. CASE CountBonuses(r)
  BY <1>6, GotoDoes DEF CountBonuses
<1>7. CASE CreateRecord(r)
  BY <1>7 DEF CreateRecord
<1>8. CASE Approve(r) \/ MarkPaid(r) \/ MailPaid(r)
  BY <1>8, GotoDoes DEF Approve, MarkPaid, MailPaid
<1>9. QED
  BY <1>1, <1>2, <1>3, <1>4, <1>5, <1>6, <1>7, <1>8 DEF Step

\* What depends on the cycle only does not change.
LEMMA SameCycle ==
  ASSUME cycle' = cycle
  PROVE  /\ Assigned' = Assigned /\ TalentsOfCycle' = TalentsOfCycle /\ EventRow' = EventRow
         /\ RecordRow' = RecordRow /\ Ops' = Ops /\ Payout' = Payout
BY DEF Assigned, TalentsOfCycle, EventRow, RecordRow, Ops, Payout

\* What is left to show of a step for the types.
LEMMA SoundAgain ==
  ASSUME Sound, NEW r \in Requests, Step(r),
         DOMAIN events' \subseteq {""}, \A id \in DOMAIN events' : events'[id] \in EventRow,
         DOMAIN records' \subseteq {""}, \A id \in DOMAIN records' : records'[id] \in RecordRow,
         pushed' \subseteq Keys, mailed' \subseteq TalentsOfCycle,
         pc' \in [Requests -> Running \cup Answers \cup {"idle"}],
         op' \in [Requests -> Ops \cup {NoOp}],
         active' \in [Requests -> BOOLEAN],
         inputs' \in [Requests -> Seq(Input)], todo' \in [Requests -> Seq(Payout)],
         raced' \in BOOLEAN, failures' \in 0 .. MaxFailures,
         pc'[r] \in LabelsOf(op'[r].kind), Progress(r)'
  PROVE  Sound'
<1>1. TypeOK
  BY DEF Sound
<1>2. /\ UNCHANGED <<cycle, cycleActive, campaignActive, stale>>
      /\ \A q \in Requests \ {r} :
           /\ pc'[q] = pc[q] /\ op'[q] = op[q] /\ active'[q] = active[q]
           /\ inputs'[q] = inputs[q] /\ todo'[q] = todo[q]
  BY <1>1, StepWho
<1>3. /\ Assigned' = Assigned /\ TalentsOfCycle' = TalentsOfCycle /\ EventRow' = EventRow
      /\ RecordRow' = RecordRow /\ Ops' = Ops /\ Payout' = Payout
  BY <1>2, SameCycle
<1>4. TypeOK'
  BY <1>1, <1>2, <1>3 DEF TypeOK
<1>5. \A q \in Requests \ {r} : pc'[q] \in LabelsOf(op'[q].kind) /\ Progress(q)'
  BY <1>2, <1>3 DEF Sound, CallsSound, Progress
<1>6. CallsSound'
  BY <1>5 DEF CallsSound
<1>7. QED
  BY <1>4, <1>6 DEF Sound

LEMMA InitSound == Init => Sound
<1> SUFFICES ASSUME Init PROVE Sound
  OBVIOUS
<1>1. DOMAIN events = {} /\ DOMAIN records = {}
  BY DEF Init
<1>2. /\ inputs \in [Requests -> Seq(Input)] /\ todo \in [Requests -> Seq(Payout)]
      /\ pc \in [Requests -> Running \cup Answers \cup {"idle"}]
      /\ op \in [Requests -> Ops \cup {NoOp}] /\ active \in [Requests -> BOOLEAN]
  BY DEF Init
<1>3. cycle \in CycleTerms /\ failures \in 0 .. MaxFailures
  BY SettlementAssumption DEF Init
<1>4. TypeOK
  BY <1>1, <1>2, <1>3 DEF Init, TypeOK
<1>5. CallsSound
  BY DEF Init, CallsSound, Progress, LabelsOf, NoOp
<1>6. QED
  BY <1>4, <1>5 DEF Sound

\* The steps that only move the call on.
LEMMA MoveSound ==
  ASSUME Sound, NEW r \in Requests,
         \/ ReadLink(r) \/ ReadCampaign(r) \/ LogEventConflict(r) \/ CheckCycle(r)
         \/ CreateRecordConflict(r) \/ RecordsDone(r) \/ EmitFinalised(r) \/ FindRecord(r) \/ Fail(r)
  PROVE  Sound'
<1>1. TypeOK /\ Step(r) /\ UNCHANGED <<rows, op, active, inputs, todo, stale, raced>>
  BY DEF Sound, Step, ReadLink, ReadCampaign, LogEventConflict, CheckCycle, ghosts,
     CreateRecordConflict, RecordsDone, EmitFinalised, FindRecord, Fail
<1>2. failures' \in 0 .. MaxFailures
  <2>1. \/ failures' = failures
        \/ failures < MaxFailures /\ failures' = failures + 1
    BY DEF ReadLink, ReadCampaign, LogEventConflict, CheckCycle,
       CreateRecordConflict, RecordsDone, EmitFinalised, FindRecord, Fail, ghosts
  <2>2. QED
    BY <1>1, <2>1, FailuresCounted
<1>3. op[r] \in Ops \cup {NoOp} /\ pc[r] \in LabelsOf(op[r].kind)
  BY DEF Sound, TypeOK, CallsSound
<1>4. op[r].kind \in {"none", "event", "finalise", "approve", "pay"}
  BY <1>3, OpKinds
<1>5. \E label \in LabelsOf(op[r].kind) :
        label \notin {"idle", "check", "bonus", "store"} /\ Goto(r, label)
        /\ (label = "count" => pc[r] = "check")
  <2>1. CASE op[r].kind = "none"
    BY <1>3, <2>1 DEF LabelsOf, ReadLink, ReadCampaign, LogEventConflict, CheckCycle,
       CreateRecordConflict, RecordsDone, EmitFinalised, FindRecord, Fail
  <2>2. CASE op[r].kind = "event"
    BY <1>3, <2>2 DEF LabelsOf, ReadLink, ReadCampaign, LogEventConflict, CheckCycle, Answers,
       CreateRecordConflict, RecordsDone, EmitFinalised, FindRecord, Fail
  <2>3. CASE op[r].kind = "finalise"
    BY <1>3, <2>3 DEF LabelsOf, ReadLink, ReadCampaign, LogEventConflict, CheckCycle, Answers,
       CreateRecordConflict, RecordsDone, EmitFinalised, FindRecord, Fail
  <2>4. CASE op[r].kind \in {"approve", "pay"}
    BY <1>3, <2>4 DEF LabelsOf, ReadLink, ReadCampaign, LogEventConflict, CheckCycle, Answers,
       CreateRecordConflict, RecordsDone, EmitFinalised, FindRecord, Fail
  <2>5. QED
    BY <1>4, <2>1, <2>2, <2>3, <2>4
<1>6. PICK label \in LabelsOf(op[r].kind) :
        /\ label \notin {"idle", "check", "bonus", "store"} /\ Goto(r, label)
        /\ label = "count" => pc[r] = "check"
  BY <1>5
<1>7. /\ pc' \in [Requests -> Running \cup Answers \cup {"idle"}] /\ pc'[r] = label
  BY <1>1, <1>4, <1>6, GotoDoes, LabelsExist
<1>8. Progress(r)'
  <2>1. Assigned' = Assigned
    BY <1>1 DEF rows, Assigned
  <2>2. label = "count" => Len(inputs'[r]) < Len(Assigned)
    BY <1>1, <1>6, CycleTyped DEF Sound, CallsSound, Progress
  <2>3. QED
    BY <1>1, <1>6, <1>7, <2>1, <2>2 DEF Progress
<1>9. QED
  BY <1>1, <1>2, <1>6, <1>7, <1>8, SoundAgain DEF rows, TypeOK

\* The steps of LogEvent.
LEMMA EventSound ==
  ASSUME Sound, NEW r \in Requests,
         ReadCycle(r) \/ LogEvent(r) \/ LogEventUnheard(r) \/ PushEvent(r)
  PROVE  Sound'
<1>1. TypeOK /\ Step(r) /\ UNCHANGED <<cycle, records, mailed, op, inputs, todo>>
  BY DEF Sound, Step, ReadCycle, LogEvent, LogEventUnheard, PushEvent, ghosts, rows
<1>2. /\ op[r] \in Ops \cup {NoOp} /\ pc[r] \in LabelsOf(op[r].kind)
      /\ pc[r] \in {"cycle", "insert", "push"}
  BY DEF Sound, TypeOK, CallsSound, ReadCycle, LogEvent, LogEventUnheard, PushEvent
<1>3. op[r].kind = "event"
  BY <1>2, OpKinds DEF LabelsOf, Answers
<1>4. \E label \in {"campaign", "push", "failed", "ok"} : Goto(r, label)
  BY DEF ReadCycle, LogEvent, LogEventUnheard, PushEvent
<1>5. PICK label \in {"campaign", "push", "failed", "ok"} : Goto(r, label)
  BY <1>4
<1>6. /\ pc' \in [Requests -> Running \cup Answers \cup {"idle"}] /\ pc'[r] = label
      /\ label \in LabelsOf("event")
  BY <1>1, <1>5, GotoDoes DEF Running, Answers, LabelsOf
<1>7. Progress(r)'
  BY <1>6 DEF Progress
<1>8. failures' \in 0 .. MaxFailures
  <2>1. \/ failures' = failures
        \/ failures < MaxFailures /\ failures' = failures + 1
    BY DEF ReadCycle, LogEvent, LogEventUnheard, PushEvent, ghosts
  <2>2. QED
    BY <1>1, <2>1, FailuresCounted
<1>9. DOMAIN events' \subseteq {""} /\ \A id \in DOMAIN events' : events'[id] \in EventRow
  <2>1. CASE StoreEvent(r)
    <3> DEFINE row == [key |-> op[r].key, talent |-> LinkedTalent,
                       late |-> ~(cycleActive /\ campaignActive)]
    <3>1. row \in EventRow
      BY <1>1, <1>2, <1>3, OpKinds, CycleTyped DEF EventRow
    <3>2. events' = Stored(row)
      BY <2>1 DEF StoreEvent
    <3> HIDE DEF row
    <3>3. QED
      BY <3>1, <3>2 DEF Stored
  <2>2. CASE events' = events
    BY <1>1, <2>2 DEF TypeOK
  <2>3. QED
    BY <2>1, <2>2 DEF ReadCycle, LogEvent, LogEventUnheard, PushEvent, rows
<1>10. pushed' \subseteq Keys /\ active' \in [Requests -> BOOLEAN] /\ raced' \in BOOLEAN
  <2>1. pushed' \subseteq pushed \cup {op[r].key}
    BY DEF ReadCycle, LogEvent, LogEventUnheard, PushEvent, rows
  <2>2. op[r].key \in Keys
    BY <1>2, <1>3, OpKinds
  <2>3. active' \in [Requests -> BOOLEAN]
    BY <1>1 DEF TypeOK, ReadCycle, LogEvent, LogEventUnheard, PushEvent
  <2>4. raced' \in BOOLEAN
    BY <1>1 DEF TypeOK, ReadCycle, LogEvent, LogEventUnheard, PushEvent, StoreEvent, ghosts
  <2>5. QED
    BY <1>1, <2>1, <2>2, <2>3, <2>4 DEF TypeOK
<1>11. QED
  BY <1>1, <1>3, <1>6, <1>7, <1>8, <1>9, <1>10, SoundAgain DEF TypeOK

LEMMA BeginSound == ASSUME Sound, NEW r \in Requests, Begin(r) PROVE Sound'
<1>1. TypeOK /\ Step(r) /\ UNCHANGED <<rows, active, inputs, todo, ghosts>> /\ pc[r] = "idle"
  BY DEF Sound, Step, Begin
<1>2. PICK o \in Ops : /\ op' = [op EXCEPT ![r] = o]
                       /\ Goto(r, CASE o.kind = "event" -> "link"
                                    [] o.kind = "finalise" -> "check"
                                    [] OTHER -> "find")
  BY DEF Begin
<1>3. o.kind \in {"event", "finalise", "approve", "pay"}
  BY DEF Ops
<1>4. op' \in [Requests -> Ops \cup {NoOp}] /\ op'[r] = o
  BY <1>1, <1>2 DEF TypeOK
<1>5. \E label \in {"link", "check", "find"} : label \in LabelsOf(o.kind) /\ Goto(r, label)
  BY <1>2, <1>3 DEF LabelsOf
<1>6. PICK label \in {"link", "check", "find"} : label \in LabelsOf(o.kind) /\ Goto(r, label)
  BY <1>5
<1>7. pc' \in [Requests -> Running \cup Answers \cup {"idle"}] /\ pc'[r] = label
  BY <1>1, <1>6, GotoDoes DEF Running
<1>8. Progress(r)'
  BY <1>1, <1>7 DEF Sound, CallsSound, Progress
<1>9. QED
  BY <1>1, <1>4, <1>6, <1>7, <1>8, SoundAgain DEF TypeOK, rows, ghosts

\* The steps of ApprovePayout and MarkPayoutPaid.
LEMMA PaySound ==
  ASSUME Sound, NEW r \in Requests, Approve(r) \/ MarkPaid(r) \/ MailPaid(r),
         pc[r] \in {"approve", "pay"} => "" \in DOMAIN records
  PROVE  Sound'
<1>1. TypeOK /\ Step(r) /\ UNCHANGED <<cycle, events, pushed, op, active, inputs, todo, ghosts>>
  BY DEF Sound, Step, Approve, MarkPaid, MailPaid
<1>2. op[r] \in Ops \cup {NoOp} /\ pc[r] \in LabelsOf(op[r].kind) /\ pc[r] \in {"approve", "pay", "mail"}
  BY DEF Sound, TypeOK, CallsSound, Approve, MarkPaid, MailPaid
<1>3. op[r].kind \in {"approve", "pay"} /\ (op[r].kind = "approve" => pc[r] = "approve")
  BY <1>2, OpKinds DEF LabelsOf, Answers
<1>4. \E label \in {"ok", "mail"} : label \in LabelsOf(op[r].kind) /\ Goto(r, label)
  BY <1>3 DEF Approve, MarkPaid, MailPaid, LabelsOf, Answers
<1>5. PICK label \in {"ok", "mail"} : label \in LabelsOf(op[r].kind) /\ Goto(r, label)
  BY <1>4
<1>6. pc' \in [Requests -> Running \cup Answers \cup {"idle"}] /\ pc'[r] = label
  BY <1>1, <1>5, GotoDoes DEF Running, Answers
<1>7. Progress(r)'
  BY <1>6 DEF Progress
<1>8. DOMAIN records' \subseteq {""} /\ \A id \in DOMAIN records' : records'[id] \in RecordRow
  <2>1. CASE Approve(r)
    <3>1. "" \in DOMAIN records /\ records[""] \in RecordRow
      BY <1>1, <2>1 DEF TypeOK, Approve
    <3>2. /\ DOMAIN records' = DOMAIN records
          /\ records'[""] = [[records[""] EXCEPT !.status = "approved"] EXCEPT !.approved = TRUE]
      BY <2>1, <3>1 DEF Approve
    <3>3. records'[""] \in RecordRow
      BY <3>1, <3>2 DEF RecordRow
    <3>4. QED
      BY <1>1, <3>2, <3>3 DEF TypeOK
  <2>2. CASE MarkPaid(r)
    <3>1. "" \in DOMAIN records /\ records[""] \in RecordRow
      BY <1>1, <2>2 DEF TypeOK, MarkPaid
    <3>2. /\ DOMAIN records' = DOMAIN records
          /\ records'[""] = [[records[""] EXCEPT !.status = "paid"] EXCEPT !.paid = TRUE]
      BY <2>2, <3>1 DEF MarkPaid
    <3>3. records'[""] \in RecordRow
      BY <3>1, <3>2 DEF RecordRow
    <3>4. QED
      BY <1>1, <3>2, <3>3 DEF TypeOK
  <2>3. CASE MailPaid(r)
    BY <1>1, <2>3 DEF TypeOK, MailPaid
  <2>4. QED
    BY <2>1, <2>2, <2>3
<1>9. mailed' \subseteq TalentsOfCycle
  <2>1. mailed' \subseteq mailed \cup {op[r].talent}
    BY DEF Approve, MarkPaid, MailPaid
  <2>2. QED
    BY <1>1, <1>2, <1>3, <2>1, OpKinds DEF TypeOK
<1>10. QED
  BY <1>1, <1>5, <1>6, <1>7, <1>8, <1>9, SoundAgain DEF TypeOK, ghosts

LEMMA CreateSound == ASSUME Sound, NEW r \in Requests, CreateRecord(r) PROVE Sound'
<1> DEFINE p == Head(todo[r])
<1>1. /\ TypeOK /\ Step(r) /\ pc[r] = "store" /\ todo[r] # <<>>
      /\ UNCHANGED <<cycle, events, pushed, mailed, pc, op, active, inputs, ghosts>>
  BY DEF Sound, Step, CreateRecord
<1>2. todo[r] \in Seq(Payout)
  BY <1>1 DEF TypeOK
<1>3. /\ p \in Payout /\ Tail(todo[r]) \in Seq(Payout)
      /\ Len(Tail(todo[r])) = Len(todo[r]) - 1 /\ Len(todo[r]) \in Nat
  BY <1>1, <1>2
<1>4. records' = Stored(NewRecord(p)) /\ todo' = [todo EXCEPT ![r] = Tail(@)]
  BY DEF CreateRecord
<1> HIDE DEF p
<1>5. NewRecord(p) \in RecordRow
  BY <1>3 DEF NewRecord, RecordRow, Payout
<1>6. DOMAIN records' = {""} /\ records'[""] = NewRecord(p)
  BY <1>4 DEF Stored
<1>7. todo' \in [Requests -> Seq(Payout)] /\ todo'[r] = Tail(todo[r])
  BY <1>1, <1>3, <1>4 DEF TypeOK
<1>8. Progress(r)'
  <2>1. Assigned' = Assigned
    BY <1>1 DEF Assigned
  <2>2. Len(todo[r]) <= Len(Assigned) /\ Len(Assigned) \in Nat
    BY <1>1, CycleTyped DEF Sound, CallsSound, Progress
  <2>3. Len(todo'[r]) <= Len(Assigned)
    BY <1>3, <1>7, <2>2
  <2>4. QED
    BY <1>1, <2>1, <2>3 DEF Progress
<1>9. pc'[r] \in LabelsOf(op'[r].kind)
  BY <1>1 DEF Sound, CallsSound
<1>10. QED
  BY <1>1, <1>5, <1>6, <1>7, <1>8, <1>9, SoundAgain DEF TypeOK, ghosts

-----------------------------------------------------------------------------
\* What the counting steps compute.
LEMMA CountTyped ==
  ASSUME TypeOK, NEW talent
  PROVE  CountOf(talent) \in Nat
<1>1. IsFiniteSet({""})
  BY FS_Singleton
<1>2. IsFiniteSet({id \in DOMAIN events : events[id].talent = talent})
  BY <1>1, FS_Subset DEF TypeOK
<1>3. QED
  BY <1>2, FS_CardinalityType DEF CountOf, Conversions

\* The terms of a cycle and of an assignment that the input of a talent is made of.
Payable(c, a) ==
  /\ c.type \in Pipelines /\ c.cpa \in Nat /\ c.kpbs \in Seq(Nat)
  /\ a.tier \in Nat /\ a.status \in AssignmentStatuses

LEMMA InputIs ==
  ASSUME NEW c, NEW a, Payable(c, a), NEW m \in Nat
  PROVE  LET t == TalentInput(c, a, m)
             traffic == c.type = "direct_traffic"
         IN  /\ t \in Input
             /\ t.budget = a.tier /\ t.status = a.status /\ t.pipeline = c.type
             /\ traffic => t.destinations = <<[conversions |-> m, cost |-> c.cpa]>>
             /\ ~traffic =>
                  /\ t.leads = m /\ t.cap = c.cpa
                  /\ t.bonuses = [k \in DOMAIN c.kpbs |-> [amount |-> c.kpbs[k], triggers |-> m]]
<1> DEFINE In(x) == TalentInput(c, a, x)
           bonuses(x) == [k \in DOMAIN c.kpbs |-> [amount |-> c.kpbs[k], triggers |-> x]]
           traffic == c.type = "direct_traffic"
<1>2. /\ c.type \in Pipelines /\ c.cpa \in Nat /\ c.kpbs \in Seq(Nat)
      /\ a.tier \in Nat /\ a.status \in AssignmentStatuses
  BY DEF Payable
<1>3. /\ In(m) \in Input
      /\ In(m).budget = a.tier /\ In(m).status = a.status /\ In(m).pipeline = c.type
      /\ traffic => In(m).destinations = <<[conversions |-> m, cost |-> c.cpa]>>
      /\ ~traffic => In(m).leads = m /\ In(m).cap = c.cpa /\ In(m).bonuses = bonuses(m)
  <2>1. <<[conversions |-> m, cost |-> c.cpa]>> \in Destinations /\ <<>> \in Destinations /\ <<>> \in Bonuses
    BY <1>2 DEF Destinations, Bonuses
  <2>2. bonuses(m) \in Bonuses
    <3> DEFINE l == Len(c.kpbs)
    <3>1. l \in Nat /\ DOMAIN c.kpbs = 1 .. l /\ \A k \in 1 .. l : c.kpbs[k] \in Nat
      BY <1>2
    <3> HIDE DEF l
    <3>2. bonuses(m) \in [1 .. l -> [amount : Nat, triggers : Nat]]
      BY <3>1
    <3>3. QED
      BY <3>1, <3>2, SeqOfFunction DEF Bonuses
  <2>3. In(m) = [pipeline     |-> c.type,
                 budget       |-> a.tier,
                 status       |-> a.status,
                 destinations |-> IF traffic THEN <<[conversions |-> m, cost |-> c.cpa]>> ELSE <<>>,
                 leads        |-> IF traffic THEN 0 ELSE m,
                 cap          |-> IF traffic THEN 0 ELSE c.cpa,
                 bonuses      |-> IF traffic THEN <<>> ELSE bonuses(m)]
    BY DEF TalentInput
  <2> HIDE DEF bonuses, In
  <2>4. QED
    BY <1>2, <2>1, <2>2, <2>3 DEF Input
<1>4. QED
  BY <1>3, Zenon

LEMMA InputTyped ==
  ASSUME TypeOK, NEW i \in 1 .. Len(Assigned), NEW n \in Nat, NEW cpa \in Nat
  PROVE  TalentInput([cycle EXCEPT !.cpa = cpa], Assigned[i], n) \in Input
<1> DEFINE terms == [cycle EXCEPT !.cpa = cpa]
<1>1. cycle \in [type : Pipelines, pool : Int, cpa : Nat, kpbs : Seq(Nat), assigned : Assignments]
  BY SettlementAssumption DEF TypeOK
<1>2. Assigned[i] \in [talent : Talents, tier : Nat, status : AssignmentStatuses]
  <2>1. Assigned \in Seq([talent : Talents, tier : Nat, status : AssignmentStatuses])
    BY CycleTyped DEF Assignments
  <2>2. QED
    BY <2>1, SeqElement
<1>3. terms.type \in Pipelines /\ terms.cpa \in Nat /\ terms.kpbs \in Seq(Nat)
  BY <1>1
<1> HIDE DEF terms
<1>4. Payable(terms, Assigned[i])
  BY <1>2, <1>3 DEF Payable
<1>5. TalentInput(terms, Assigned[i], n) \in Input
  BY <1>4, InputIs
<1>6. QED
  BY <1>5 DEF terms

LEMMA DueInputTyped ==
  ASSUME TypeOK, NEW i \in 1 .. Len(Assigned), NEW n \in Nat
  PROVE  TalentInput(cycle, Assigned[i], n) \in Input
<1>1. cycle \in [type : Pipelines, pool : Int, cpa : Nat, kpbs : Seq(Nat), assigned : Assignments]
  BY SettlementAssumption DEF TypeOK
<1>2. cycle.cpa \in Nat /\ cycle = [cycle EXCEPT !.cpa = cycle.cpa]
  BY <1>1
<1>3. TalentInput([cycle EXCEPT !.cpa = cycle.cpa], Assigned[i], n) \in Input
  BY <1>2, InputTyped
<1>4. QED
  BY <1>2, <1>3

LEMMA TotalTyped ==
  ASSUME NEW n \in Nat, NEW f \in [1 .. n -> Nat]
  PROVE  SumFunction(f) \in Nat
<1>1. IsFiniteSet(1 .. n)
  BY FS_Interval
<1>2. DOMAIN f = 1 .. n /\ \A i \in 1 .. n : f[i] \in Nat
  OBVIOUS
<1>3. SumFunctionOnSet(f, 1 .. n) \in Nat
  BY <1>1, <1>2, SumOfNats
<1>4. QED
  BY <1>2, <1>3 DEF SumFunction

LEMMA Rounded == ASSUME NEW n \in Nat, NEW d \in Nat \ {0} PROVE MoneyRound(n, d) \in Nat
BY DEF MoneyRound

\* Rounding the n-th part of b to more than c leaves room for n times c.
LEMMA RoundedAbove ==
  ASSUME NEW b \in Nat, NEW n \in Nat \ {0}, NEW c \in Nat, MoneyRound(b, n) > c
  PROVE  n * c <= b
<1> DEFINE q == (2 * b + n) \div (2 * n)
<1>1. 2 * b + n \in Nat /\ 2 * n \in Nat \ {0}
  OBVIOUS
<1>2. \A x \in Nat, y \in Nat \ {0} : x \div y \in Nat /\ (x \div y) * y <= x
  OBVIOUS
<1>3. q \in Nat /\ q * (2 * n) <= 2 * b + n /\ q >= c + 1
  <2>1. q \in Nat /\ q * (2 * n) <= 2 * b + n
    BY <1>1, <1>2
  <2>2. QED
    BY <2>1 DEF MoneyRound
<1> HIDE DEF q
<1>4. (c + 1) * (2 * n) <= q * (2 * n)
  BY <1>3
<1>5. (c + 1) * (2 * n) = 2 * (n * c) + 2 * n /\ n * c \in Nat /\ q * (2 * n) \in Nat
  BY <1>3
<1>6. QED
  BY <1>3, <1>4, <1>5

\* Rounding is monotone in what is divided.
LEMMA RoundedMore ==
  ASSUME NEW m \in Nat, NEW n \in Nat, NEW d \in Nat \ {0}, m <= n
  PROVE  MoneyRound(m, d) <= MoneyRound(n, d)
<1>1. \A x, y \in Nat, z \in Nat \ {0} : x <= y => x \div z <= y \div z
  <2>1. SUFFICES ASSUME NEW x \in Nat, NEW y \in Nat, NEW z \in Nat \ {0}, x <= y,
                        x \div z > y \div z
                 PROVE  FALSE
    OBVIOUS
  <2> DEFINE p == x \div z
             q == y \div z
  <2>2. p \in Nat /\ q \in Nat /\ p * z <= x /\ y < (q + 1) * z
    OBVIOUS
  <2>3. p >= q + 1
    BY <2>1, <2>2
  <2> HIDE DEF p, q
  <2>4. (q + 1) * z <= p * z
    BY <2>2, <2>3
  <2>5. (q + 1) * z \in Nat /\ p * z \in Nat
    BY <2>2
  <2>6. QED
    BY <2>1, <2>2, <2>4, <2>5
<1>2. 2 * m + d \in Nat /\ 2 * n + d \in Nat /\ 2 * d \in Nat \ {0} /\ 2 * m + d <= 2 * n + d
  OBVIOUS
<1>3. QED
  BY <1>1, <1>2 DEF MoneyRound

\* Rounding adds at most a half.
LEMMA RoundedClose ==
  ASSUME NEW n \in Nat, NEW d \in Nat \ {0}
  PROVE  2 * (MoneyRound(n, d) * d) <= 2 * n + d
<1>1. \A x \in Nat, y \in Nat \ {0} : x \div y \in Nat /\ (x \div y) * y <= x
  OBVIOUS
<1>2. 2 * n + d \in Nat /\ 2 * d \in Nat \ {0}
  OBVIOUS
<1> DEFINE q == MoneyRound(n, d)
<1>3. q \in Nat /\ q * (2 * d) <= 2 * n + d
  BY <1>1, <1>2 DEF MoneyRound
<1> HIDE DEF q
<1>4. q * (2 * d) = 2 * (q * d)
  BY <1>3
<1>5. QED
  BY <1>3, <1>4 DEF q

LEMMA ProductTyped == ASSUME NEW m \in Nat, NEW n \in Nat PROVE m * n \in Nat
OBVIOUS

LEMMA TrafficTyped ==
  ASSUME NEW t \in Input
  PROVE  TrafficPayout(t).total \in Nat /\ TrafficPayout(t).total <= t.budget
<1> DEFINE ds == t.destinations
           value == Total(ds, LAMBDA d : d.conversions * d.cost)
           units == Total(ds, LAMBDA d : d.conversions)
           paid == {i \in DOMAIN ds : ds[i].cost # 0}
           first == CHOOSE i \in paid : \A j \in paid : i <= j
           cap == IF paid = {} THEN 0 ELSE ds[first].cost
           over == units > 0 /\ cap > 0 /\ MoneyRound(t.budget, units) > cap
<1>1. ds \in Seq([conversions : Nat, cost : Nat]) /\ t.budget \in Nat
  BY DEF Input, Destinations
<1>2. /\ Len(ds) \in Nat /\ DOMAIN ds = 1 .. Len(ds)
      /\ \A i \in 1 .. Len(ds) : ds[i].conversions \in Nat /\ ds[i].cost \in Nat
  <2> HIDE DEF ds
  <2>1. \A i \in 1 .. Len(ds) : ds[i] \in [conversions : Nat, cost : Nat]
    BY <1>1, SeqElement
  <2>2. QED
    BY <1>1, <2>1
<1> HIDE DEF ds
<1>3. units \in Nat
  <2>1. [i \in DOMAIN ds |-> ds[i].conversions] \in [1 .. Len(ds) -> Nat]
    BY <1>2
  <2>2. QED
    BY <1>2, <2>1, TotalTyped DEF Total
<1>4. value \in Nat
  <2>1. [i \in DOMAIN ds |-> ds[i].conversions * ds[i].cost] \in [1 .. Len(ds) -> Nat]
    BY <1>2, ProductTyped
  <2>2. QED
    BY <1>2, <2>1, TotalTyped DEF Total
<1>5. cap \in Nat
  <2>1. CASE paid = {}
    BY <2>1
  <2>2. CASE paid # {}
    <3>1. paid \in SUBSET Nat
      BY <1>2
    <3>2. first \in paid
      BY <2>2, <3>1, LeastNat
    <3>3. QED
      BY <1>2, <2>2, <3>2
  <2>3. QED
    BY <2>1, <2>2
<1>6. TrafficPayout(t).total = (IF over THEN units * cap ELSE Smaller(value, t.budget)) + 0
  BY DEF TrafficPayout, Gross, ds
<1> HIDE DEF units, value, cap
<1>7. units * cap \in Nat /\ Smaller(value, t.budget) \in Nat /\ Smaller(value, t.budget) <= t.budget
  BY <1>1, <1>3, <1>4, <1>5, ProductTyped DEF Smaller
<1>8. over => units * cap <= t.budget
  BY <1>1, <1>3, <1>5, RoundedAbove
<1> HIDE DEF over
<1>9. QED
  BY <1>6, <1>7, <1>8

LEMMA LeadTyped ==
  ASSUME NEW t \in Input
  PROVE  LeadPayout(t).total \in Nat /\ LeadPayout(t).total <= t.budget
<1> DEFINE base == CASE t.leads = 0 -> 0
                     [] t.leads > 0 /\ MoneyRound(t.budget, t.leads) <= t.cap -> t.budget
                     [] OTHER -> t.leads * t.cap
           bs == t.bonuses
           kpb == Total(bs, LAMBDA b : b.amount * b.triggers)
<1>1. /\ bs \in Seq([amount : Nat, triggers : Nat])
      /\ t.budget \in Nat /\ t.leads \in Nat /\ t.cap \in Nat
  BY DEF Input, Bonuses
<1>2. /\ Len(bs) \in Nat /\ DOMAIN bs = 1 .. Len(bs)
      /\ \A i \in 1 .. Len(bs) : bs[i].amount \in Nat /\ bs[i].triggers \in Nat
  <2> HIDE DEF bs
  <2>1. \A i \in 1 .. Len(bs) : bs[i] \in [amount : Nat, triggers : Nat]
    BY <1>1, SeqElement
  <2>2. QED
    BY <1>1, <2>1
<1>3. base \in Nat /\ base <= t.budget
  <2>1. t.leads > 0 /\ ~(MoneyRound(t.budget, t.leads) <= t.cap) => t.leads * t.cap <= t.budget
    <3>1. SUFFICES ASSUME t.leads > 0, ~(MoneyRound(t.budget, t.leads) <= t.cap)
                   PROVE  t.leads * t.cap <= t.budget
      OBVIOUS
    <3> DEFINE n == t.leads
    <3>2. n \in Nat \ {0} /\ t.budget \in Nat /\ t.cap \in Nat
      BY <1>1, <3>1
    <3> HIDE DEF n
    <3>3. MoneyRound(t.budget, n) \in Nat
      BY <3>2, Rounded
    <3>4. MoneyRound(t.budget, n) > t.cap
      BY <3>1, <3>2, <3>3 DEF n
    <3>5. n * t.cap <= t.budget
      BY <3>2, <3>4, RoundedAbove
    <3>6. QED
      BY <3>5 DEF n
  <2>2. t.leads * t.cap \in Nat
    BY <1>1, ProductTyped
  <2>3. QED
    BY <1>1, <2>1, <2>2
<1> HIDE DEF bs
<1>4. kpb \in Nat
  <2>1. [i \in DOMAIN bs |-> bs[i].amount * bs[i].triggers] \in [1 .. Len(bs) -> Nat]
    BY <1>2, ProductTyped
  <2>2. QED
    BY <1>2, <2>1, TotalTyped DEF Total
<1>5. LeadPayout(t).total = base + KpbWithin(t.budget, base, kpb)
  BY DEF LeadPayout, Gross, bs
<1> HIDE DEF base, kpb
<1>6. KpbWithin(t.budget, base, kpb) \in Nat /\ base + KpbWithin(t.budget, base, kpb) <= t.budget
  BY <1>1, <1>3, <1>4 DEF KpbWithin, Larger
<1>7. QED
  BY <1>3, <1>5, <1>6

LEMMA GrossTyped ==
  ASSUME NEW t \in Input
  PROVE  GrossOf(t).total \in Nat /\ GrossOf(t).total <= t.budget
BY TrafficTyped, LeadTyped DEF GrossOf, Gross, Input

LEMMA NetTyped == ASSUME NEW t \in Input PROVE Net(t) \in Nat
BY GrossTyped, Rounded DEF Net

LEMMA PayoutTyped ==
  ASSUME TypeOK, NEW s \in Seq(Input), NEW i \in 1 .. Len(s)
  PROVE  ComputeCyclePayout(s, cycle.pool)[i].payout \in Nat
<1> DEFINE demand == Demand(s)
<1>1. cycle.pool \in Int
  BY SettlementAssumption DEF TypeOK
<1>2. DOMAIN s = 1 .. Len(s) /\ Len(s) \in Nat /\ \A j \in 1 .. Len(s) : Net(s[j]) \in Nat
  BY SeqElement, NetTyped
<1>3. demand \in Nat
  <2>1. [j \in DOMAIN s |-> Net(s[j])] \in [1 .. Len(s) -> Nat]
    BY <1>2
  <2>2. QED
    BY <1>2, <2>1, TotalTyped DEF Demand, Total
<1>4. ComputeCyclePayout(s, cycle.pool)[i].payout = Scaled(Net(s[i]), demand, cycle.pool)
  BY <1>2 DEF ComputeCyclePayout
<1> DEFINE net == Net(s[i])
           pool == cycle.pool
<1>5. net \in Nat /\ pool \in Int
  BY <1>1, <1>2
<1> HIDE DEF demand, net, pool
<1>6. CASE demand > pool /\ pool > 0
  <2>1. net * pool \in Nat /\ demand \in Nat \ {0}
    BY <1>3, <1>5, <1>6, ProductTyped
  <2>2. QED
    BY <1>4, <1>6, <2>1, Rounded DEF Scaled, net, pool
<1>7. CASE ~(demand > pool /\ pool > 0)
  BY <1>4, <1>5, <1>7 DEF Scaled, net, pool
<1>8. QED
  BY <1>6, <1>7

LEMMA PayoutsTyped ==
  ASSUME TypeOK, NEW s \in Seq(Input), Len(s) = Len(Assigned)
  PROVE  /\ Payouts(s) \in Seq(Payout) /\ Len(Payouts(s)) = Len(Assigned)
         /\ \A i \in 1 .. Len(Assigned) : Payouts(s)[i].talent = Assigned[i].talent
<1> DEFINE results == ComputeCyclePayout(s, cycle.pool)
<1>1. DOMAIN results = 1 .. Len(Assigned) /\ Len(Assigned) \in Nat
  BY CycleTyped DEF ComputeCyclePayout
<1>2. \A i \in 1 .. Len(Assigned) : results[i].payout \in Nat
  BY PayoutTyped DEF results
<1> HIDE DEF results
<1>3. Payouts(s) = [i \in 1 .. Len(Assigned) |->
                      [talent |-> Assigned[i].talent, payout |-> results[i].payout]]
  BY <1>1 DEF Payouts, results
<1>4. \A i \in 1 .. Len(Assigned) :
        [talent |-> Assigned[i].talent, payout |-> results[i].payout] \in Payout
  BY <1>2, CycleTyped DEF Payout
<1>5. Payouts(s) \in [1 .. Len(Assigned) -> Payout]
  BY <1>3, <1>4
<1>6. QED
  BY <1>1, <1>3, <1>5

LEMMA CountSound == ASSUME Sound, NEW r \in Requests, Count(r) PROVE Sound'
<1>1. /\ TypeOK /\ Step(r) /\ pc[r] = "count" /\ Goto(r, "bonus")
      /\ UNCHANGED <<rows, op, active, todo, stale, raced>>
  BY DEF Sound, Step, Count
<1>2. /\ inputs[r] \in Seq(Input) /\ Len(inputs[r]) \in Nat /\ Len(Assigned) \in Nat
      /\ Len(inputs[r]) < Len(Assigned)
  <2>1. inputs[r] \in Seq(Input) /\ Len(Assigned) \in Nat
    BY <1>1, CycleTyped DEF TypeOK
  <2>2. Len(inputs[r]) < Len(Assigned)
    BY <1>1 DEF Sound, CallsSound, Progress
  <2>3. QED
    BY <2>1, <2>2
<1> DEFINE i == Len(inputs[r]) + 1
<1>3. i \in 1 .. Len(Assigned) /\ Counting(r) = Assigned[i]
  BY <1>2 DEF Counting
<1>4. PICK misread \in {"nothing"} \cup IF failures < MaxFailures THEN {"count", "cost"} ELSE {} :
        /\ inputs' = [inputs EXCEPT ![r] = Append(@,
             TalentInput([cycle EXCEPT !.cpa = IF misread = "cost" THEN 0 ELSE @], Counting(r),
                         IF misread = "count" THEN 0 ELSE CountOf(Counting(r).talent)))]
        /\ failures' = IF misread = "nothing" THEN failures ELSE failures + 1
  BY DEF Count
<1> DEFINE cpa == IF misread = "cost" THEN 0 ELSE cycle.cpa
           n == IF misread = "count" THEN 0 ELSE CountOf(Counting(r).talent)
           input == TalentInput([cycle EXCEPT !.cpa = cpa], Counting(r), n)
<1>5. cycle \in [type : Pipelines, pool : Int, cpa : Nat, kpbs : Seq(Nat), assigned : Assignments]
  BY <1>1, SettlementAssumption DEF TypeOK
<1>6. cpa \in Nat /\ n \in Nat
  BY <1>1, <1>5, CountTyped
<1>7. [cycle EXCEPT !.cpa = IF misread = "cost" THEN 0 ELSE @] = [cycle EXCEPT !.cpa = cpa]
  BY <1>5
<1>8. inputs' = [inputs EXCEPT ![r] = Append(@, input)]
  BY <1>4, <1>7
<1> HIDE DEF cpa, n
<1>9. input \in Input
  BY <1>1, <1>3, <1>6, InputTyped
<1> HIDE DEF input
<1>10. inputs' \in [Requests -> Seq(Input)] /\ inputs'[r] = Append(inputs[r], input)
  <2>1. Append(inputs[r], input) \in Seq(Input)
    BY <1>2, <1>9
  <2>2. inputs \in [Requests -> Seq(Input)]
    BY <1>1 DEF TypeOK
  <2>3. QED
    BY <1>8, <2>1, <2>2
<1>11. Len(inputs'[r]) = i
  BY <1>2, <1>10
<1>12. /\ pc' \in [Requests -> Running \cup Answers \cup {"idle"}] /\ pc'[r] = "bonus"
       /\ "bonus" \in LabelsOf(op[r].kind)
  <2>1. op[r].kind = "finalise"
    BY <1>1, OpKinds DEF Sound, CallsSound, TypeOK, LabelsOf, Answers
  <2>2. QED
    BY <1>1, <2>1, GotoDoes DEF Running, LabelsOf
<1>13. Progress(r)'
  BY <1>1, <1>3, <1>11, <1>12, SameCycle DEF Progress, rows
<1>14. failures' \in 0 .. MaxFailures
  <2>1. failures' = failures \/ (failures < MaxFailures /\ failures' = failures + 1)
    BY <1>4
  <2>2. QED
    BY <1>1, <2>1, FailuresCounted
<1>15. QED
  BY <1>1, <1>10, <1>12, <1>13, <1>14, SoundAgain DEF TypeOK, rows

\* The bonuses of the last assignment with the conversions counted again.
Recounted(r, n) ==
  [k \in DOMAIN inputs[r][n].bonuses |->
     [inputs[r][n].bonuses[k] EXCEPT !.triggers = CountOf(Assigned[n].talent)]]

LEMMA BonusesDo ==
  ASSUME Sound, NEW r \in Requests, CountBonuses(r)
  PROVE  \E n \in 1 .. Len(Assigned), bonuses \in Bonuses :
           /\ n = Len(inputs[r]) /\ inputs[r][n] \in Input
           /\ inputs' \in [Requests -> Seq(Input)] /\ Len(inputs'[r]) = n
           /\ inputs'[r] = [inputs[r] EXCEPT ![n] = [inputs[r][n] EXCEPT !.bonuses = bonuses]]
           /\ \/ failures' = failures /\ bonuses = Recounted(r, n)
              \/ failures < MaxFailures /\ failures' = failures + 1
           /\ \/ n < Len(Assigned) /\ Goto(r, "count") /\ UNCHANGED todo
              \/ n = Len(Assigned) /\ Goto(r, "store") /\ todo' = [todo EXCEPT ![r] = Payouts(inputs'[r])]
<1> DEFINE n == Len(inputs[r])
           triggers == CountOf(Assigned[n].talent)
           read == Recounted(r, n)
<1>1. /\ TypeOK /\ Step(r) /\ pc[r] = "bonus"
      /\ UNCHANGED <<rows, op, active, stale, raced>>
  BY DEF Sound, Step, CountBonuses
<1>2. /\ inputs[r] \in Seq(Input) /\ n \in 1 .. Len(Assigned) /\ Len(Assigned) \in Nat
  BY <1>1, CycleTyped DEF Sound, CallsSound, Progress, TypeOK
<1>3. inputs[r][n] \in Input
  BY <1>2
<1>4. read \in Bonuses
  <2>1. inputs[r][n].bonuses \in Bonuses
    BY <1>3 DEF Input
  <2>2. triggers \in Nat
    BY <1>1, CountTyped
  <2> HIDE DEF triggers
  <2> DEFINE old == inputs[r][n].bonuses
  <2> HIDE DEF old
  <2>3. \A k \in 1 .. Len(old) : [old[k] EXCEPT !.triggers = triggers] \in [amount : Nat, triggers : Nat]
    <3>1. \A k \in 1 .. Len(old) : old[k] \in [amount : Nat, triggers : Nat]
      BY <2>1, SeqElement DEF old, Bonuses
    <3>2. QED
      BY <2>2, <3>1
  <2>4. [k \in 1 .. Len(old) |-> [old[k] EXCEPT !.triggers = triggers]] \in Bonuses
    <3>1. Len(old) \in Nat
      <4>1. old \in Bonuses
        BY <2>1 DEF old
      <4>2. \A s \in Bonuses : Len(s) \in Nat
        BY DEF Bonuses
      <4>3. QED
        BY <4>1, <4>2
    <3>2. QED
      BY <2>3, <3>1, SeqOfFunction DEF Bonuses
  <2>5. DOMAIN old = 1 .. Len(old)
    BY <2>1 DEF old, Bonuses
  <2>6. QED
    BY <2>4, <2>5 DEF old, triggers, Recounted
<1>5. PICK bonuses \in {read} \cup IF failures < MaxFailures THEN {<<>>} ELSE {} :
        LET counted == [inputs[r] EXCEPT ![n].bonuses = bonuses]
        IN  /\ inputs' = [inputs EXCEPT ![r] = counted]
            /\ failures' = IF bonuses = read THEN failures ELSE failures + 1
            /\ IF n < Len(Assigned)
                 THEN Goto(r, "count") /\ UNCHANGED todo
                 ELSE Goto(r, "store") /\ todo' = [todo EXCEPT ![r] = Payouts(counted)]
  BY DEF CountBonuses, Recounted
<1> DEFINE counted == [inputs[r] EXCEPT ![n].bonuses = bonuses]
<1>7. bonuses \in Bonuses
  <2> HIDE DEF read
  <2>1. <<>> \in Bonuses
    BY DEF Bonuses
  <2>2. QED
    BY <1>4, <1>5, <2>1
<1>8. counted \in Seq(Input) /\ Len(counted) = n
  <2>1. [inputs[r][n] EXCEPT !.bonuses = bonuses] \in Input
    BY <1>3, <1>7 DEF Input
  <2>2. counted = [inputs[r] EXCEPT ![n] = [inputs[r][n] EXCEPT !.bonuses = bonuses]]
    OBVIOUS
  <2>3. QED
    BY <1>2, <2>1, <2>2
<1>9. /\ inputs' = [inputs EXCEPT ![r] = counted]
      /\ IF n < Len(Assigned)
           THEN Goto(r, "count") /\ UNCHANGED todo
           ELSE Goto(r, "store") /\ todo' = [todo EXCEPT ![r] = Payouts(counted)]
  BY <1>5
<1>10. \/ failures' = failures /\ bonuses = read
       \/ failures < MaxFailures /\ failures' = failures + 1
  <2> HIDE DEF read
  <2>1. QED
    BY <1>5
<1>11. counted = [inputs[r] EXCEPT ![n] = [inputs[r][n] EXCEPT !.bonuses = bonuses]]
  OBVIOUS
<1> HIDE DEF counted, read
<1>12. inputs' \in [Requests -> Seq(Input)] /\ inputs'[r] = counted
  BY <1>1, <1>8, <1>9 DEF TypeOK
<1>13. \/ n < Len(Assigned) /\ Goto(r, "count") /\ UNCHANGED todo
       \/ n = Len(Assigned) /\ Goto(r, "store") /\ todo' = [todo EXCEPT ![r] = Payouts(inputs'[r])]
  BY <1>2, <1>9, <1>12
<1> HIDE DEF n
<1>14. n \in 1 .. Len(Assigned) /\ bonuses \in Bonuses /\ n = Len(inputs[r])
  BY <1>2, <1>7 DEF n
<1>15. QED
  BY <1>3, <1>8, <1>10, <1>11, <1>12, <1>13, <1>14 DEF read

LEMMA BonusesSound == ASSUME Sound, NEW r \in Requests, CountBonuses(r) PROVE Sound'
<1>1. /\ TypeOK /\ Step(r) /\ pc[r] = "bonus" /\ Len(Assigned) \in Nat
      /\ UNCHANGED <<rows, op, active, stale, raced>>
  BY CycleTyped DEF Sound, Step, CountBonuses
<1>2. PICK n \in 1 .. Len(Assigned) :
        /\ inputs' \in [Requests -> Seq(Input)] /\ Len(inputs'[r]) = n
        /\ failures' = failures \/ (failures < MaxFailures /\ failures' = failures + 1)
        /\ \/ n < Len(Assigned) /\ Goto(r, "count") /\ UNCHANGED todo
           \/ n = Len(Assigned) /\ Goto(r, "store") /\ todo' = [todo EXCEPT ![r] = Payouts(inputs'[r])]
  BY BonusesDo
<1>3. failures' \in 0 .. MaxFailures
  BY <1>1, <1>2, FailuresCounted
<1>4. /\ op[r].kind = "finalise"
      /\ {"count", "store"} \subseteq LabelsOf(op[r].kind)
  <2>1. op[r].kind = "finalise"
    BY <1>1, OpKinds DEF Sound, CallsSound, TypeOK, LabelsOf, Answers
  <2>2. QED
    BY <2>1 DEF LabelsOf
<1>5. CASE n < Len(Assigned) /\ Goto(r, "count") /\ UNCHANGED todo
  <2>1. pc' \in [Requests -> Running \cup Answers \cup {"idle"}] /\ pc'[r] = "count"
    BY <1>1, <1>5, GotoDoes DEF Running
  <2>2. Progress(r)'
    BY <1>1, <1>2, <1>5, <2>1, SameCycle DEF Progress, rows
  <2>3. QED
    BY <1>1, <1>2, <1>3, <1>4, <1>5, <2>1, <2>2, SoundAgain DEF TypeOK, rows
<1>6. CASE n = Len(Assigned) /\ Goto(r, "store") /\ todo' = [todo EXCEPT ![r] = Payouts(inputs'[r])]
  <2>1. pc' \in [Requests -> Running \cup Answers \cup {"idle"}] /\ pc'[r] = "store"
    BY <1>1, <1>6, GotoDoes DEF Running
  <2>2. /\ Payouts(inputs'[r]) \in Seq(Payout)
        /\ Len(Payouts(inputs'[r])) = Len(Assigned)
    BY <1>1, <1>2, <1>6, PayoutsTyped
  <2>3. todo' \in [Requests -> Seq(Payout)] /\ todo'[r] = Payouts(inputs'[r])
    BY <1>1, <1>6, <2>2 DEF TypeOK
  <2>4. Progress(r)'
    BY <1>1, <2>1, <2>2, <2>3, SameCycle DEF Progress, rows
  <2>5. QED
    BY <1>1, <1>2, <1>3, <1>4, <2>1, <2>3, <2>4, SoundAgain DEF TypeOK, rows
<1>7. QED
  BY <1>2, <1>5, <1>6, Zenon

-----------------------------------------------------------------------------
\* A record, once stored, stays that of its talent, at its amount, and paid.
LEMMA RecordsKept ==
  ASSUME TypeOK, PaidInv, [Next]_vars, "" \in DOMAIN records
  PROVE  /\ "" \in DOMAIN records'
         /\ records'[""].talent = records[""].talent /\ records'[""].payout = records[""].payout
         /\ records[""].paid => records'[""].paid
<1>1. records[""] \in RecordRow
  BY DEF TypeOK
<1>2. CASE UNCHANGED records
  BY <1>2
<1>3. ASSUME NEW r \in Requests, Approve(r) PROVE
        records'[""] = [[records[""] EXCEPT !.status = "approved"] EXCEPT !.approved = TRUE]
        /\ DOMAIN records' = DOMAIN records
  BY <1>3 DEF Approve
<1>4. ASSUME NEW r \in Requests, MarkPaid(r) PROVE
        records'[""] = [[records[""] EXCEPT !.status = "paid"] EXCEPT !.paid = TRUE]
        /\ DOMAIN records' = DOMAIN records
  BY <1>4 DEF MarkPaid
<1>5. ASSUME NEW r \in Requests, Approve(r) \/ MarkPaid(r) PROVE
        /\ "" \in DOMAIN records'
        /\ records'[""].talent = records[""].talent /\ records'[""].payout = records[""].payout
        /\ records[""].paid => records'[""].paid
  BY <1>1, <1>3, <1>4, <1>5 DEF RecordRow
<1>6. ASSUME NEW r \in Requests, CreateRecord(r) PROVE FALSE
  BY <1>6 DEF CreateRecord, RecordTaken
<1>7. ASSUME NEW r \in Requests, Step(r), ~Approve(r), ~MarkPaid(r) PROVE UNCHANGED records
  BY <1>6, <1>7 DEF Step, Begin, ReadLink, ReadCycle, ReadCampaign, LogEvent, LogEventConflict,
     LogEventUnheard, PushEvent, CheckCycle, Count, CountBonuses, CreateRecordConflict,
     RecordsDone, EmitFinalised, FindRecord, MailPaid, Fail, rows
<1>8. CASE SetStatus
  BY <1>8 DEF SetStatus
<1>9. CASE UNCHANGED vars
  BY <1>9 DEF vars, rows
<1>10. QED
  BY <1>2, <1>5, <1>7, <1>8, <1>9 DEF Next

LEMMA StepSound == ASSUME Sound, PaidInv, NEW r \in Requests, Step(r) PROVE Sound'
<1>1. pc[r] \in {"approve", "pay"} => "" \in DOMAIN records
  BY DEF PaidInv
<1>2. CASE Begin(r)
  BY <1>2, BeginSound
<1>3. CASE ReadCycle(r) \/ LogEvent(r) \/ LogEventUnheard(r) \/ PushEvent(r)
  BY <1>3, EventSound
<1>4. CASE Approve(r) \/ MarkPaid(r) \/ MailPaid(r)
  BY <1>1, <1>4, PaySound
<1>5. CASE Count(r)
  BY <1>5, CountSound
<1>6. CASE CountBonuses(r)
  BY <1>6, BonusesSound
<1>7. CASE CreateRecord(r)
  BY <1>7, CreateSound
<1>8. CASE \/ ReadLink(r) \/ ReadCampaign(r) \/ LogEventConflict(r) \/ CheckCycle(r)
           \/ CreateRecordConflict(r) \/ RecordsDone(r) \/ EmitFinalised(r) \/ FindRecord(r) \/ Fail(r)
  BY <1>8, MoveSound
<1>9. QED
  BY <1>2, <1>3, <1>4, <1>5, <1>6, <1>7, <1>8 DEF Step

LEMMA NextSound == Sound /\ PaidInv /\ [Next]_vars => Sound'
<1> SUFFICES ASSUME Sound, PaidInv, [Next]_vars PROVE Sound'
  OBVIOUS
<1>1. CASE SetStatus
  <2>1. /\ UNCHANGED <<cycle, events, records, pushed, mailed, pc, op, active, inputs, todo, raced, failures>>
        /\ cycleActive' \in BOOLEAN /\ campaignActive' \in BOOLEAN /\ stale' \subseteq Requests
    BY <1>1 DEF SetStatus, Sound, TypeOK
  <2>2. /\ Assigned' = Assigned /\ TalentsOfCycle' = TalentsOfCycle /\ EventRow' = EventRow
        /\ RecordRow' = RecordRow /\ Ops' = Ops /\ Payout' = Payout
    BY <2>1, SameCycle
  <2>3. TypeOK'
    BY <2>1, <2>2 DEF Sound, TypeOK
  <2>4. CallsSound'
    BY <2>1, <2>2 DEF Sound, CallsSound, Progress
  <2>5. QED
    BY <2>3, <2>4 DEF Sound
<1>2. CASE UNCHANGED vars
  <2>1. UNCHANGED <<rows, pc, op, active, inputs, todo, stale, raced, failures>>
    BY <1>2 DEF vars, ghosts
  <2>2. /\ Assigned' = Assigned /\ TalentsOfCycle' = TalentsOfCycle /\ EventRow' = EventRow
        /\ RecordRow' = RecordRow /\ Ops' = Ops /\ Payout' = Payout
    BY <2>1, SameCycle DEF rows
  <2>3. TypeOK'
    BY <2>1, <2>2 DEF Sound, TypeOK, rows
  <2>4. CallsSound'
    BY <2>1, <2>2 DEF Sound, CallsSound, Progress, rows
  <2>5. QED
    BY <2>3, <2>4 DEF Sound
<1>3. QED
  BY <1>1, <1>2, StepSound DEF Next

\* A call that waits to write a record, or to tell of it, keeps its record.
LEMMA WaitingPaid ==
  ASSUME Sound, PaidInv, [Next]_vars, NEW q \in Requests, pc'[q] = pc[q], op'[q] = op[q]
  PROVE  /\ pc'[q] \in {"approve", "pay", "mail"} =>
              "" \in DOMAIN records' /\ records'[""].talent = op'[q].talent
         /\ pc'[q] = "mail" => records'[""].paid
BY RecordsKept DEF PaidInv, Sound

LEMMA MailedPaid ==
  ASSUME Sound, PaidInv, [Next]_vars, mailed' = mailed
  PROVE  \A talent \in mailed' :
           "" \in DOMAIN records' /\ records'[""].talent = talent /\ records'[""].paid
BY RecordsKept DEF PaidInv, Sound

LEMMA NextPaid == Sound /\ PaidInv /\ [Next]_vars => PaidInv'
<1> SUFFICES ASSUME Sound, PaidInv, [Next]_vars PROVE PaidInv'
  OBVIOUS
<1>1. TypeOK
  BY DEF Sound
<1>2. ASSUME NEW r \in Requests, Step(r), mailed' = mailed,
             /\ pc'[r] \in {"approve", "pay", "mail"} =>
                  "" \in DOMAIN records' /\ records'[""].talent = op'[r].talent
             /\ pc'[r] = "mail" => records'[""].paid
      PROVE  PaidInv'
  BY <1>1, <1>2, StepWho, WaitingPaid, MailedPaid DEF PaidInv
<1>3. ASSUME NEW r \in Requests, Step(r), mailed' = mailed, pc'[r] \notin {"approve", "pay", "mail"}
      PROVE  PaidInv'
  BY <1>2, <1>3
<1>4. ASSUME NEW r \in Requests, FindRecord(r) PROVE PaidInv'
  <2>1. Step(r) /\ mailed' = mailed /\ op' = op /\ pc[r] = "find"
        /\ Goto(r, IF HasRecord(op[r].talent) THEN op[r].kind ELSE "refused")
    BY <1>4 DEF Step, FindRecord, rows
  <2>2. op[r].kind \in {"approve", "pay"}
    BY <1>1, <2>1, OpKinds DEF Sound, CallsSound, LabelsOf, Answers, TypeOK
  <2>3. CASE HasRecord(op[r].talent)
    <3>1. pc'[r] \in {"approve", "pay"}
      BY <1>1, <2>1, <2>2, <2>3, GotoDoes
    <3>2. "" \in DOMAIN records /\ records[""].talent = op[r].talent
      BY <1>1, <2>3 DEF HasRecord, TypeOK
    <3>3. "" \in DOMAIN records' /\ records'[""].talent = op'[r].talent
      BY <1>1, <2>1, <3>2, RecordsKept
    <3>4. QED
      BY <1>2, <2>1, <3>1, <3>3
  <2>4. CASE ~HasRecord(op[r].talent)
    BY <1>1, <1>3, <2>1, <2>4, GotoDoes
  <2>5. QED
    BY <2>3, <2>4
<1>5. ASSUME NEW r \in Requests, MarkPaid(r) PROVE PaidInv'
  <2>1. Step(r) /\ mailed' = mailed /\ op' = op /\ pc[r] = "pay" /\ pc'[r] = "mail"
    BY <1>1, <1>5, GotoDoes DEF Step, MarkPaid
  <2>2. "" \in DOMAIN records /\ records[""].talent = op[r].talent /\ records[""] \in RecordRow
    BY <1>1, <2>1 DEF PaidInv, TypeOK
  <2>3. "" \in DOMAIN records' /\ records'[""].talent = op'[r].talent
    BY <1>1, <2>1, <2>2, RecordsKept
  <2>4. records'[""] = [[records[""] EXCEPT !.status = "paid"] EXCEPT !.paid = TRUE]
    BY <1>5, <2>2 DEF MarkPaid
  <2>5. records'[""].paid
    BY <2>2, <2>4 DEF RecordRow
  <2>6. QED
    BY <1>2, <2>1, <2>3, <2>5
<1>6. ASSUME NEW r \in Requests, MailPaid(r) PROVE PaidInv'
  <2>1. Step(r) /\ op' = op /\ records' = records /\ pc[r] = "mail" /\ pc'[r] = "ok"
        /\ mailed' \subseteq mailed \cup {op[r].talent}
    BY <1>1, <1>6, GotoDoes DEF Step, MailPaid
  <2>2. "" \in DOMAIN records /\ records[""].talent = op[r].talent /\ records[""].paid
    BY <2>1 DEF PaidInv
  <2>3. \A q \in Requests \ {r} : pc'[q] = pc[q]
    BY <1>1, <2>1, StepWho
  <2>4. QED
    BY <2>1, <2>2, <2>3 DEF PaidInv
<1>7. ASSUME NEW r \in Requests, Begin(r) PROVE PaidInv'
  <2>1. Step(r) /\ mailed' = mailed
    BY <1>7 DEF Step, Begin, rows
  <2>2. pc'[r] \in {"link", "check", "find"}
    BY <1>1, <1>7, GotoDoes DEF Begin, Ops
  <2>3. QED
    BY <1>3, <2>1, <2>2
<1>8. ASSUME NEW r \in Requests, CreateRecord(r) PROVE PaidInv'
  <2>1. Step(r) /\ mailed' = mailed /\ pc' = pc /\ pc[r] = "store"
    BY <1>8 DEF Step, CreateRecord
  <2>2. QED
    BY <1>3, <2>1
<1>9. ASSUME NEW r \in Requests,
             \/ ReadLink(r) \/ ReadCycle(r) \/ ReadCampaign(r) \/ LogEvent(r) \/ LogEventConflict(r)
             \/ LogEventUnheard(r) \/ PushEvent(r) \/ CheckCycle(r) \/ Count(r) \/ CountBonuses(r)
             \/ CreateRecordConflict(r) \/ RecordsDone(r) \/ EmitFinalised(r) \/ Approve(r) \/ Fail(r)
      PROVE  PaidInv'
  <2>1. Step(r) /\ mailed' = mailed
    BY <1>9 DEF Step, ReadLink, ReadCycle, ReadCampaign, LogEvent, LogEventConflict,
       LogEventUnheard, PushEvent, CheckCycle, Count, CountBonuses, CreateRecordConflict,
       RecordsDone, EmitFinalised, Approve, Fail, rows
  <2>2. \E label \in {"refused", "cycle", "campaign", "insert", "push", "already", "failed", "ok",
                      "count", "bonus", "store", "emit"} : Goto(r, label)
    <3>1. CASE CountBonuses(r)
      BY <3>1 DEF CountBonuses
    <3>2. CASE ~CountBonuses(r)
      BY <1>9, <3>2 DEF ReadLink, ReadCycle, ReadCampaign, LogEvent, LogEventConflict,
         LogEventUnheard, PushEvent, CheckCycle, Count, CreateRecordConflict,
         RecordsDone, EmitFinalised, Approve, Fail
    <3>3. QED
      BY <3>1, <3>2
  <2>3. pc'[r] \notin {"approve", "pay", "mail"}
    BY <1>1, <2>2, GotoDoes
  <2>4. QED
    BY <1>3, <2>1, <2>3, Zenon
<1>10. CASE SetStatus
  <2>1. UNCHANGED <<mailed, records, pc, op>>
    BY <1>10 DEF SetStatus
  <2>2. QED
    BY <2>1 DEF PaidInv
<1>11. CASE UNCHANGED vars
  <2>1. UNCHANGED <<mailed, records, pc, op>>
    BY <1>11 DEF vars, rows
  <2>2. QED
    BY <2>1 DEF PaidInv
<1>12. QED
  BY <1>4, <1>5, <1>6, <1>7, <1>8, <1>9, <1>10, <1>11 DEF Next, Step

-----------------------------------------------------------------------------
\* Nothing but LogEvent writes an event, and only one that finds none.
LEMMA EventsKept ==
  ASSUME TypeOK, NEW r \in Requests, Step(r)
  PROVE  \/ events' = events
         \/ /\ LogEvent(r) \/ LogEventUnheard(r)
            /\ DOMAIN events = {} /\ StoreEvent(r)
<1>1. CASE LogEvent(r) \/ LogEventUnheard(r)
  BY <1>1 DEF LogEvent, LogEventUnheard, EventTaken, TypeOK
<1>2. CASE ~(LogEvent(r) \/ LogEventUnheard(r))
  BY <1>2 DEF Step, Begin, ReadLink, ReadCycle, ReadCampaign, LogEventConflict, PushEvent,
     CheckCycle, Count, CountBonuses, CreateRecord, CreateRecordConflict, RecordsDone,
     EmitFinalised, FindRecord, Approve, MarkPaid, MailPaid, Fail, rows
<1>3. QED
  BY <1>1, <1>2

\* What is left to show of a step that stores no event.
LEMMA LogAgain ==
  ASSUME Sound, LogInv, NEW r \in Requests, Step(r), events' = events,
         (Logged(r))' => Logged(r) /\ op'[r] = op[r],
         \A key \in pushed' \ pushed : "" \in DOMAIN events /\ events[""].key = key,
         r \notin stale => /\ pc'[r] = "campaign" /\ active'[r] => cycleActive
                           /\ pc'[r] = "insert" => cycleActive /\ campaignActive
  PROVE  LogInv'
<1>1. /\ UNCHANGED <<cycle, cycleActive, campaignActive, stale>>
      /\ \A q \in Requests \ {r} :
           /\ pc'[q] = pc[q] /\ op'[q] = op[q] /\ active'[q] = active[q]
  BY StepWho DEF Sound
<1>2. \A q \in Requests : (Logged(q))' => Logged(q) /\ op'[q] = op[q]
  BY <1>1 DEF Logged
<1>3. \A q \in Requests : (Logged(q))' =>
        /\ "" \in DOMAIN events' /\ events'[""].key = op'[q].key
        /\ \A p \in Requests : (Logged(p))' => p = q
  BY <1>2 DEF LogInv
<1>4. \A key \in pushed' : "" \in DOMAIN events' /\ events'[""].key = key
  BY DEF LogInv
<1>5. LateEventNeedsRace'
  BY <1>1 DEF LogInv, LateEventNeedsRace
<1>6. \A q \in Requests \ stale' :
        /\ pc'[q] = "campaign" /\ active'[q] => cycleActive'
        /\ pc'[q] = "insert" => cycleActive' /\ campaignActive'
  BY <1>1 DEF LogInv
<1>7. QED
  BY <1>3, <1>4, <1>5, <1>6 DEF LogInv

LEMMA StoreEventLog ==
  ASSUME Sound, LogInv, NEW r \in Requests, LogEvent(r) \/ LogEventUnheard(r)
  PROVE  LogInv'
<1>1. /\ TypeOK /\ Step(r) /\ pc[r] = "insert" /\ StoreEvent(r) /\ DOMAIN events = {}
      /\ UNCHANGED <<pushed, op, active>>
  BY DEF Sound, TypeOK, Step, LogEvent, LogEventUnheard, EventTaken
<1>2. op[r].kind = "event"
  BY <1>1, OpKinds DEF Sound, TypeOK, CallsSound, LabelsOf, Answers
<1>3. pc'[r] \in {"push", "failed"}
  BY <1>1, GotoDoes DEF LogEvent, LogEventUnheard
<1>4. /\ UNCHANGED <<cycle, cycleActive, campaignActive, stale>>
      /\ \A q \in Requests \ {r} : pc'[q] = pc[q] /\ op'[q] = op[q]
  BY <1>1, StepWho
<1>5. DOMAIN events' = {""} /\ events'[""].key = op[r].key
      /\ events'[""].late = ~(cycleActive /\ campaignActive)
  BY <1>1 DEF StoreEvent, Stored
<1>6. \A q \in Requests \ {r} : ~(Logged(q))'
  BY <1>1, <1>4 DEF LogInv, Logged
<1>7. \A q \in Requests : (Logged(q))' =>
        /\ "" \in DOMAIN events' /\ events'[""].key = op'[q].key
        /\ \A p \in Requests : (Logged(p))' => p = q
  BY <1>1, <1>5, <1>6
<1>8. pushed' = {}
  BY <1>1 DEF LogInv
<1>9. LateEventNeedsRace'
  BY <1>1, <1>4, <1>5 DEF LogInv, LateEventNeedsRace
<1>10. \A q \in Requests \ stale' :
        /\ pc'[q] = "campaign" /\ active'[q] => cycleActive'
        /\ pc'[q] = "insert" => cycleActive' /\ campaignActive'
  BY <1>1, <1>3, <1>4 DEF LogInv
<1>11. QED
  BY <1>7, <1>8, <1>9, <1>10 DEF LogInv

LEMMA StepLog == ASSUME Sound, Sound', LogInv, NEW r \in Requests, Step(r) PROVE LogInv'
<1>1. TypeOK /\ op[r] \in Ops \cup {NoOp} /\ pc[r] \in LabelsOf(op[r].kind)
      /\ op[r].kind \in {"none", "event", "finalise", "approve", "pay"}
  BY OpKinds DEF Sound, TypeOK, CallsSound
<1>2. CASE LogEvent(r) \/ LogEventUnheard(r)
  BY <1>2, StoreEventLog
<1>3. CASE ReadCycle(r)
  <2>1. /\ pc'[r] = "campaign" /\ active'[r] = cycleActive
        /\ UNCHANGED <<pushed, events, op>>
    BY <1>1, <1>3, GotoDoes DEF ReadCycle, TypeOK, rows
  <2>2. QED
    BY <1>3, <2>1, LogAgain DEF Step, Logged
<1>4. CASE ReadCampaign(r)
  <2>1. /\ pc[r] = "campaign" /\ UNCHANGED <<pushed, events, op, active>>
        /\ pc'[r] = (IF active[r] /\ campaignActive THEN "insert" ELSE "refused")
    BY <1>1, <1>4, GotoDoes DEF ReadCampaign, TypeOK, rows
  <2>2. QED
    BY <1>4, <2>1, LogAgain DEF Step, Logged, LogInv
<1>5. CASE PushEvent(r)
  <2>1. /\ pc[r] = "push" /\ pc'[r] = "ok" /\ UNCHANGED <<events, op, active>>
        /\ pushed' \subseteq pushed \cup {op[r].key}
    BY <1>1, <1>5, GotoDoes DEF PushEvent, TypeOK
  <2>2. op[r].kind = "event"
    BY <1>1, <2>1 DEF LabelsOf, Answers
  <2>3. "" \in DOMAIN events /\ events[""].key = op[r].key
    BY <2>1, <2>2 DEF LogInv, Logged
  <2>4. QED
    BY <1>5, <2>1, <2>2, <2>3, LogAgain DEF Step, Logged
<1>6. CASE Begin(r)
  <2>1. pc'[r] \in {"link", "check", "find"} /\ UNCHANGED <<events, pushed>>
    BY <1>1, <1>6, GotoDoes DEF Begin, Ops, rows
  <2>2. QED
    BY <1>6, <2>1, LogAgain DEF Step, Logged
<1>7. CASE ReadLink(r) \/ LogEventConflict(r) \/ CheckCycle(r) \/ Fail(r)
  <2>1. UNCHANGED <<events, pushed, op>>
    BY <1>7 DEF ReadLink, LogEventConflict, CheckCycle, Fail, rows
  <2>2. pc'[r] \in {"cycle", "refused", "already", "count", "failed"}
    BY <1>1, <1>7, GotoDoes DEF ReadLink, LogEventConflict, CheckCycle, Fail
  <2>3. QED
    BY <1>7, <2>1, <2>2, LogAgain DEF Step, Logged
<1>8. CASE \/ Count(r) \/ CountBonuses(r) \/ CreateRecord(r) \/ CreateRecordConflict(r)
           \/ RecordsDone(r) \/ EmitFinalised(r) \/ FindRecord(r) \/ Approve(r) \/ MarkPaid(r) \/ MailPaid(r)
  <2>1. UNCHANGED <<events, pushed, op>>
    BY <1>8 DEF Count, CountBonuses, CreateRecord, CreateRecordConflict, RecordsDone, rows,
       EmitFinalised, FindRecord, Approve, MarkPaid, MailPaid
  <2>2. pc[r] \in {"count", "bonus", "store", "emit", "find", "approve", "pay", "mail"}
    BY <1>8 DEF Count, CountBonuses, CreateRecord, CreateRecordConflict, RecordsDone,
       EmitFinalised, FindRecord, Approve, MarkPaid, MailPaid
  <2>3. op[r].kind \in {"finalise", "approve", "pay"}
    BY <1>1, <2>2 DEF LabelsOf, Answers
  <2>4. Step(r)
    BY <1>8 DEF Step
  <2>5. pc'[r] \notin {"campaign", "insert"}
    BY <2>1, <2>3 DEF Sound, CallsSound, LabelsOf, Answers
  <2>6. QED
    BY <2>1, <2>3, <2>4, <2>5, LogAgain DEF Logged
<1>9. QED
  BY <1>2, <1>3, <1>4, <1>5, <1>6, <1>7, <1>8 DEF Step

LEMMA NextLog == Sound /\ Sound' /\ LogInv /\ [Next]_vars => LogInv'
<1> SUFFICES ASSUME Sound, Sound', LogInv, [Next]_vars PROVE LogInv'
  OBVIOUS
<1>1. CASE SetStatus
  <2>1. /\ UNCHANGED <<events, pushed, pc, op, active>>
        /\ stale' = stale \cup {q \in Requests : pc[q] \in {"campaign", "insert"}}
    BY <1>1 DEF SetStatus
  <2>2. \A q \in Requests \ stale' : pc'[q] \notin {"campaign", "insert"}
    BY <2>1
  <2>3. LateEventNeedsRace'
    BY <2>1 DEF LogInv, LateEventNeedsRace
  <2>4. QED
    BY <2>1, <2>2, <2>3 DEF LogInv, Logged
<1>2. CASE UNCHANGED vars
  BY <1>2 DEF LogInv, Logged, LateEventNeedsRace, vars, rows, ghosts
<1>3. QED
  BY <1>1, <1>2, StepLog DEF Next

-----------------------------------------------------------------------------
LEMMA RecordsFound ==
  ASSUME Sound, PaidInv, [Next]_vars, NEW talent, HasRecord(talent)
  PROVE  HasRecord(talent)'
<1>1. "" \in DOMAIN records /\ records[""].talent = talent
  BY DEF HasRecord, Sound, TypeOK
<1>2. "" \in DOMAIN records' /\ records'[""].talent = talent
  BY <1>1, RecordsKept DEF Sound
<1>3. QED
  BY <1>2 DEF HasRecord

\* What CompleteInv says of one call.
CompleteFor(r) ==
  op[r].kind = "finalise" =>
    /\ pc[r] = "store" =>
         /\ \A i \in 1 .. Len(todo[r]) : todo[r][i].talent = Assigned[Handled(r) + i].talent
         /\ \A i \in 1 .. Handled(r) : HasRecord(Assigned[i].talent)
    /\ pc[r] \in {"emit", "ok"} => \A talent \in TalentsOfCycle : HasRecord(talent)

LEMMA CompleteKept ==
  ASSUME Sound, PaidInv, [Next]_vars, NEW r \in Requests, CompleteFor(r), cycle' = cycle,
         pc'[r] = pc[r], op'[r] = op[r], todo'[r] = todo[r]
  PROVE  CompleteFor(r)'
<1>1. Assigned' = Assigned /\ TalentsOfCycle' = TalentsOfCycle /\ (Handled(r))' = Handled(r)
  BY SameCycle DEF Handled
<1>2. \A talent : HasRecord(talent) => HasRecord(talent)'
  BY RecordsFound
<1>3. QED
  BY <1>1, <1>2 DEF CompleteFor

LEMMA StepComplete ==
  ASSUME Sound, Sound', PaidInv, NEW r \in Requests, Step(r), CompleteFor(r)
  PROVE  CompleteFor(r)'
<1>1. /\ TypeOK /\ [Next]_vars /\ cycle' = cycle
      /\ Assigned' = Assigned /\ TalentsOfCycle' = TalentsOfCycle
      /\ op[r] \in Ops \cup {NoOp} /\ pc[r] \in LabelsOf(op[r].kind)
  BY StepWho, SameCycle DEF Sound, TypeOK, CallsSound, Next
<1>2. CASE pc'[r] \notin {"store", "emit", "ok"} \/ op'[r].kind # "finalise"
  BY <1>2 DEF CompleteFor
<1>3. CASE CountBonuses(r)
  <2>1. PICK n \in 1 .. Len(Assigned) :
          /\ inputs' \in [Requests -> Seq(Input)] /\ Len(inputs'[r]) = n
          /\ \/ n < Len(Assigned) /\ Goto(r, "count") /\ UNCHANGED todo
             \/ n = Len(Assigned) /\ Goto(r, "store") /\ todo' = [todo EXCEPT ![r] = Payouts(inputs'[r])]
    BY <1>3, BonusesDo
  <2>2. CASE Goto(r, "count")
    BY <1>1, <1>2, <2>2, GotoDoes
  <2>3. CASE n = Len(Assigned) /\ Goto(r, "store") /\ todo' = [todo EXCEPT ![r] = Payouts(inputs'[r])]
    <3>1. /\ Len(Payouts(inputs'[r])) = Len(Assigned) /\ Len(Assigned) \in Nat
          /\ \A i \in 1 .. Len(Assigned) : Payouts(inputs'[r])[i].talent = Assigned[i].talent
      BY <1>1, <2>1, <2>3, PayoutsTyped, CycleTyped
    <3>2. pc'[r] = "store" /\ todo'[r] = Payouts(inputs'[r])
      BY <1>1, <2>3, GotoDoes DEF TypeOK
    <3>3. (Handled(r))' = 0
      BY <1>1, <3>1, <3>2 DEF Handled
    <3>4. QED
      BY <1>1, <3>1, <3>2, <3>3 DEF CompleteFor
  <2>4. QED
    BY <2>1, <2>2, <2>3
<1>4. CASE CreateRecord(r)
  <2> DEFINE p == Head(todo[r])
  <2>1. /\ pc[r] = "store" /\ todo[r] # <<>> /\ pc' = pc /\ op' = op
        /\ records' = Stored(NewRecord(p)) /\ todo' = [todo EXCEPT ![r] = Tail(@)]
    BY <1>4 DEF CreateRecord
  <2>2. todo[r] \in Seq(Payout) /\ Len(todo[r]) <= Len(Assigned) /\ Len(Assigned) \in Nat
    BY <1>1, <2>1, CycleTyped DEF Sound, CallsSound, Progress, TypeOK
  <2>3. /\ Len(todo[r]) \in Nat \ {0} /\ p = todo[r][1]
        /\ todo'[r] = Tail(todo[r]) /\ Len(todo'[r]) = Len(todo[r]) - 1
        /\ \A i \in 1 .. Len(todo'[r]) : todo'[r][i] = todo[r][i + 1]
    <3>1. /\ Len(todo[r]) \in Nat \ {0} /\ p = todo[r][1]
          /\ Len(Tail(todo[r])) = Len(todo[r]) - 1
          /\ \A i \in 1 .. Len(Tail(todo[r])) : Tail(todo[r])[i] = todo[r][i + 1]
      BY <2>1, <2>2
    <3>2. todo'[r] = Tail(todo[r])
      BY <1>1, <2>1 DEF TypeOK
    <3>3. QED
      BY <3>1, <3>2
  <2>4. PICK k \in Nat : Handled(r) = k /\ (Handled(r))' = k + 1
    <3>1. Handled(r) = Len(Assigned) - Len(todo[r]) /\ (Handled(r))' = Len(Assigned) - Len(todo'[r])
      BY <1>1 DEF Handled
    <3>2. Handled(r) \in Nat /\ (Handled(r))' = Handled(r) + 1
      BY <2>2, <2>3, <3>1
    <3>3. QED
      BY <3>2
  <2> HIDE DEF p
  <2>5. SUFFICES ASSUME op[r].kind = "finalise"
                 PROVE  /\ \A i \in 1 .. Len(todo'[r]) : todo'[r][i].talent = Assigned[k + 1 + i].talent
                        /\ \A i \in 1 .. k + 1 : HasRecord(Assigned[i].talent)'
    BY <1>1, <2>1, <2>4 DEF CompleteFor
  <2>6. /\ \A i \in 1 .. Len(todo[r]) : todo[r][i].talent = Assigned[k + i].talent
        /\ \A i \in 1 .. k : HasRecord(Assigned[i].talent)
    BY <2>1, <2>4, <2>5 DEF CompleteFor
  <2>7. \A i \in 1 .. Len(todo'[r]) : todo'[r][i].talent = Assigned[k + 1 + i].talent
    <3>1. SUFFICES ASSUME NEW i \in 1 .. Len(todo'[r])
                   PROVE  todo'[r][i].talent = Assigned[k + 1 + i].talent
      OBVIOUS
    <3>2. i + 1 \in 1 .. Len(todo[r]) /\ k + (i + 1) = k + 1 + i
      BY <2>3, <2>4
    <3>3. QED
      BY <2>3, <2>6, <3>2
  <2>8. p.talent = Assigned[k + 1].talent
    BY <2>3, <2>6
  <2>9. HasRecord(Assigned[k + 1].talent)'
    <3>1. "" \in DOMAIN records' /\ records'[""].talent = p.talent
      BY <2>1 DEF Stored, NewRecord
    <3>2. QED
      BY <1>1, <2>8, <3>1 DEF HasRecord
  <2>10. \A i \in 1 .. k : HasRecord(Assigned[i].talent)'
    BY <1>1, <2>6, RecordsFound
  <2>11. \A i \in 1 .. k + 1 : i = k + 1 \/ i \in 1 .. k
    BY <2>4
  <2>12. QED
    BY <2>7, <2>9, <2>10, <2>11
<1>5. CASE RecordsDone(r)
  <2>1. /\ pc[r] = "store" /\ todo[r] = <<>> /\ pc'[r] = "emit" /\ op' = op /\ records' = records
    BY <1>1, <1>5, GotoDoes DEF RecordsDone, rows
  <2>2. Handled(r) = Len(Assigned) /\ DOMAIN Assigned = 1 .. Len(Assigned)
    BY <1>1, <2>1, CycleTyped DEF Handled
  <2>3. op[r].kind = "finalise" => \A talent \in TalentsOfCycle : HasRecord(talent)
    BY <2>1, <2>2 DEF CompleteFor, TalentsOfCycle
  <2>4. QED
    BY <1>1, <2>1, <2>3 DEF CompleteFor, HasRecord
<1>6. CASE EmitFinalised(r)
  <2>1. pc[r] = "emit" /\ pc'[r] = "ok" /\ op' = op /\ records' = records
    BY <1>1, <1>6, GotoDoes DEF EmitFinalised, rows
  <2>2. QED
    BY <1>1, <2>1 DEF CompleteFor, HasRecord
<1>7. CASE Begin(r)
  <2>1. pc'[r] \in {"link", "check", "find"}
    BY <1>1, <1>7, GotoDoes DEF Begin, Ops
  <2>2. QED
    BY <1>2, <2>1
<1>8. CASE \/ ReadLink(r) \/ ReadCycle(r) \/ ReadCampaign(r) \/ LogEvent(r) \/ LogEventConflict(r)
           \/ LogEventUnheard(r) \/ PushEvent(r) \/ FindRecord(r) \/ Approve(r) \/ MarkPaid(r) \/ MailPaid(r)
  <2>1. /\ op'[r] = op[r]
        /\ pc[r] \in {"link", "cycle", "campaign", "insert", "push", "find", "approve", "pay", "mail"}
    BY <1>8 DEF ReadLink, ReadCycle, ReadCampaign, LogEvent, LogEventConflict,
       LogEventUnheard, PushEvent, FindRecord, Approve, MarkPaid, MailPaid
  <2>2. op[r].kind # "finalise"
    BY <1>1, <2>1 DEF LabelsOf, Answers
  <2>3. QED
    BY <1>2, <2>1, <2>2
<1>9. CASE CheckCycle(r) \/ Count(r) \/ CreateRecordConflict(r) \/ Fail(r)
  <2>1. pc'[r] \in {"count", "refused", "bonus", "failed"}
    BY <1>1, <1>9, GotoDoes DEF CheckCycle, Count, CreateRecordConflict, Fail
  <2>2. QED
    BY <1>2, <2>1
<1>10. QED
  BY <1>3, <1>4, <1>5, <1>6, <1>7, <1>8, <1>9 DEF Step

LEMMA NextComplete == Sound /\ Sound' /\ PaidInv /\ CompleteInv /\ [Next]_vars => CompleteInv'
<1> SUFFICES ASSUME Sound, Sound', PaidInv, CompleteInv, [Next]_vars, NEW q \in Requests
             PROVE  CompleteFor(q)'
  BY DEF CompleteInv, CompleteFor
<1>1. CompleteFor(q)
  BY DEF CompleteInv, CompleteFor
<1>2. ASSUME NEW r \in Requests, Step(r) PROVE CompleteFor(q)'
  <2>1. CASE q = r
    BY <1>1, <1>2, <2>1, StepComplete
  <2>2. CASE q # r
    BY <1>1, <1>2, <2>2, StepWho, CompleteKept DEF Sound
  <2>3. QED
    BY <2>1, <2>2
<1>3. CASE SetStatus
  BY <1>1, <1>3, CompleteKept DEF SetStatus
<1>4. CASE UNCHANGED vars
  BY <1>1, <1>4, CompleteKept DEF vars, rows
<1>5. QED
  BY <1>2, <1>3, <1>4 DEF Next

-----------------------------------------------------------------------------
\* What DueInv says of one call, and of the record.
DueFor(r) ==
  /\ pc[r] \in {"count", "bonus"} =>
       \A i \in 1 .. Len(inputs[r]) : inputs[r][i] = DueInput(i)
  /\ pc[r] = "store" =>
       \A i \in 1 .. Len(todo[r]) :
         todo[r][i].payout = DuePayouts[Handled(r) + i].payout

RecordDue ==
  "" \in DOMAIN records =>
    \E i \in 1 .. Len(Assigned) :
      /\ records[""].talent = Assigned[i].talent
      /\ records[""].payout = DuePayouts[i].payout

LEMMA DueParts ==
  DueInv <=> (~raced /\ failures = 0 => RecordDue /\ \A r \in Requests : DueFor(r))
BY DEF DueInv, DueFor, RecordDue

LEMMA SameDue ==
  ASSUME cycle' = cycle, events' = events
  PROVE  /\ Assigned' = Assigned /\ DuePayouts' = DuePayouts
         /\ \A i : DueInput(i)' = DueInput(i)
BY DEF DuePayouts, DueInput, Payouts, Conversions, Assigned

LEMMA DueKept ==
  ASSUME NEW r \in Requests, DueFor(r), cycle' = cycle, events' = events,
         pc'[r] = pc[r], inputs'[r] = inputs[r], todo'[r] = todo[r]
  PROVE  DueFor(r)'
<1>1. /\ Assigned' = Assigned /\ DuePayouts' = DuePayouts
      /\ \A i : DueInput(i)' = DueInput(i)
  BY SameDue
<1>2. (Handled(r))' = Handled(r)
  BY <1>1 DEF Handled
<1>3. QED
  BY <1>1, <1>2 DEF DueFor

LEMMA RecordDueKept ==
  ASSUME Sound, PaidInv, [Next]_vars, RecordDue, cycle' = cycle, events' = events,
         "" \in DOMAIN records \/ "" \notin DOMAIN records'
  PROVE  RecordDue'
<1>1. Assigned' = Assigned /\ DuePayouts' = DuePayouts
  BY SameDue
<1>2. QED
  BY <1>1, RecordsKept DEF RecordDue, Sound

\* What is due, as a sequence of inputs.
LEMMA DueTyped ==
  ASSUME TypeOK
  PROVE  /\ \A i \in 1 .. Len(Assigned) : DueInput(i) \in Input
         /\ [i \in 1 .. Len(Assigned) |-> DueInput(i)] \in Seq(Input)
         /\ Len([i \in 1 .. Len(Assigned) |-> DueInput(i)]) = Len(Assigned)
         /\ DuePayouts = Payouts([i \in 1 .. Len(Assigned) |-> DueInput(i)])
<1>1. ASSUME NEW i \in 1 .. Len(Assigned) PROVE DueInput(i) \in Input
  <2>1. Conversions(Assigned[i].talent) \in Nat
    BY CountTyped DEF CountOf
  <2>2. QED
    BY <2>1, DueInputTyped DEF DueInput
<1>2. Len(Assigned) \in Nat /\ DOMAIN Assigned = 1 .. Len(Assigned)
  BY CycleTyped
<1>3. [i \in 1 .. Len(Assigned) |-> DueInput(i)] \in [1 .. Len(Assigned) -> Input]
  BY <1>1
<1>4. /\ [i \in 1 .. Len(Assigned) |-> DueInput(i)] \in Seq(Input)
      /\ Len([i \in 1 .. Len(Assigned) |-> DueInput(i)]) = Len(Assigned)
  BY <1>2, <1>3, SeqOfFunction
<1>5. DuePayouts = Payouts([i \in 1 .. Len(Assigned) |-> DueInput(i)])
  BY <1>2 DEF DuePayouts, DueInput
<1>6. QED
  BY <1>1, <1>4, <1>5

\* Counting the conversions again changes nothing if they are the same.
LEMMA RecountedSame ==
  ASSUME TypeOK, NEW r \in Requests, NEW n \in 1 .. Len(Assigned), inputs[r][n] = DueInput(n)
  PROVE  [inputs[r][n] EXCEPT !.bonuses = Recounted(r, n)] = inputs[r][n]
<1> DEFINE conversions == Conversions(Assigned[n].talent)
           old == inputs[r][n].bonuses
<1>1. inputs[r][n] \in Input
  BY DueTyped
<1>2. \/ old = <<>>
      \/ old = [k \in DOMAIN cycle.kpbs |-> [amount |-> cycle.kpbs[k], triggers |-> conversions]]
  BY DEF DueInput, TalentInput
<1>3. \A k \in DOMAIN old : [old[k] EXCEPT !.triggers = conversions] = old[k]
  <2>1. CASE old = <<>>
    BY <2>1
  <2>2. CASE old = [k \in DOMAIN cycle.kpbs |-> [amount |-> cycle.kpbs[k], triggers |-> conversions]]
    BY <2>2
  <2>3. QED
    BY <1>2, <2>1, <2>2
<1>4. old = [k \in DOMAIN old |-> old[k]]
  BY <1>1 DEF Input, Bonuses
<1> HIDE DEF old, conversions
<1>5. Recounted(r, n) = [k \in DOMAIN old |-> [old[k] EXCEPT !.triggers = conversions]]
  BY DEF Recounted, CountOf, old, conversions
<1>6. Recounted(r, n) = old
  BY <1>3, <1>4, <1>5
<1>7. [inputs[r][n] EXCEPT !.bonuses = old] = inputs[r][n]
  BY <1>1 DEF Input, old
<1>8. QED
  BY <1>6, <1>7

LEMMA CountDue ==
  ASSUME Sound, NEW r \in Requests, DueFor(r), Count(r), failures' = failures
  PROVE  DueFor(r)'
<1>1. /\ TypeOK /\ pc[r] = "count" /\ pc'[r] = "bonus" /\ cycle' = cycle /\ events' = events
  BY GotoDoes DEF Sound, Count, rows
<1>2. inputs[r] \in Seq(Input) /\ Len(inputs[r]) < Len(Assigned) /\ Len(Assigned) \in Nat
      /\ failures \in Nat
  <2>1. Len(inputs[r]) < Len(Assigned)
    BY <1>1 DEF Sound, CallsSound, Progress
  <2>2. inputs[r] \in Seq(Input) /\ failures \in Nat
    BY <1>1, FailuresNat DEF TypeOK
  <2>3. QED
    BY <1>1, <2>1, <2>2, CycleTyped
<1> DEFINE i == Len(inputs[r]) + 1
<1>3. i \in 1 .. Len(Assigned) /\ Counting(r) = Assigned[i]
  BY <1>2 DEF Counting
<1>4. inputs' = [inputs EXCEPT ![r] = Append(@,
             TalentInput([cycle EXCEPT !.cpa = @], Counting(r), CountOf(Counting(r).talent)))]
  <2>1. PICK misread \in {"nothing"} \cup IF failures < MaxFailures THEN {"count", "cost"} ELSE {} :
          /\ inputs' = [inputs EXCEPT ![r] = Append(@,
               TalentInput([cycle EXCEPT !.cpa = IF misread = "cost" THEN 0 ELSE @], Counting(r),
                           IF misread = "count" THEN 0 ELSE CountOf(Counting(r).talent)))]
          /\ failures' = IF misread = "nothing" THEN failures ELSE failures + 1
    BY DEF Count
  <2>2. misread = "nothing"
    BY <1>2, <2>1
  <2>3. QED
    BY <2>1, <2>2
<1>5. cycle \in [type : Pipelines, pool : Int, cpa : Nat, kpbs : Seq(Nat), assigned : Assignments]
  BY <1>1, SettlementAssumption DEF TypeOK
<1>6. [cycle EXCEPT !.cpa = @] = cycle
  BY <1>5
<1>7. inputs' = [inputs EXCEPT ![r] = Append(@, DueInput(i))]
  BY <1>3, <1>4, <1>6 DEF DueInput, CountOf
<1>8. inputs'[r] = Append(inputs[r], DueInput(i))
  BY <1>1, <1>7 DEF TypeOK
<1>9. \A j \in 1 .. Len(inputs[r]) : inputs[r][j] = DueInput(j)
  BY <1>1 DEF DueFor
<1>10. \A j \in 1 .. Len(inputs'[r]) : inputs'[r][j] = DueInput(j)
  <2>1. Len(inputs'[r]) = i
    BY <1>2, <1>8
  <2>2. inputs'[r][i] = DueInput(i) /\ \A j \in 1 .. Len(inputs[r]) : inputs'[r][j] = inputs[r][j]
    BY <1>2, <1>8
  <2>3. \A j \in 1 .. i : j = i \/ j \in 1 .. Len(inputs[r])
    BY <1>2
  <2>4. QED
    BY <1>9, <2>1, <2>2, <2>3
<1>11. QED
  BY <1>1, <1>10, SameDue DEF DueFor

LEMMA BonusesDue ==
  ASSUME Sound, NEW r \in Requests, DueFor(r), CountBonuses(r), failures' = failures
  PROVE  DueFor(r)'
<1>1. /\ TypeOK /\ pc[r] = "bonus" /\ cycle' = cycle /\ events' = events
      /\ failures \in Nat /\ inputs[r] \in Seq(Input)
      /\ Len(Assigned) \in Nat
  <2>1. TypeOK /\ pc[r] = "bonus" /\ cycle' = cycle /\ events' = events
    BY DEF Sound, CountBonuses, rows
  <2>2. failures \in Nat /\ inputs[r] \in Seq(Input)
    BY <2>1, FailuresNat DEF TypeOK
  <2>3. QED
    BY <2>1, <2>2, CycleTyped
<1>2. PICK n \in 1 .. Len(Assigned) :
      \E bonuses \in Bonuses :
           /\ n = Len(inputs[r]) /\ inputs[r][n] \in Input
           /\ inputs' \in [Requests -> Seq(Input)] /\ Len(inputs'[r]) = n
           /\ inputs'[r] = [inputs[r] EXCEPT ![n] = [inputs[r][n] EXCEPT !.bonuses = bonuses]]
           /\ \/ failures' = failures /\ bonuses = Recounted(r, n)
              \/ failures < MaxFailures /\ failures' = failures + 1
           /\ \/ n < Len(Assigned) /\ Goto(r, "count") /\ UNCHANGED todo
              \/ n = Len(Assigned) /\ Goto(r, "store") /\ todo' = [todo EXCEPT ![r] = Payouts(inputs'[r])]
  BY BonusesDo
<1>3. PICK bonuses \in Bonuses :
           /\ inputs'[r] = [inputs[r] EXCEPT ![n] = [inputs[r][n] EXCEPT !.bonuses = bonuses]]
           /\ \/ failures' = failures /\ bonuses = Recounted(r, n)
              \/ failures < MaxFailures /\ failures' = failures + 1
  BY <1>2
<1>4. n = Len(inputs[r]) /\ bonuses = Recounted(r, n)
  BY <1>1, <1>2, <1>3
<1>5. \A i \in 1 .. n : inputs[r][i] = DueInput(i)
  BY <1>1, <1>2 DEF DueFor
<1>6. inputs'[r] = inputs[r]
  <2>1. inputs'[r] = [inputs[r] EXCEPT ![n] = [inputs[r][n] EXCEPT !.bonuses = Recounted(r, n)]]
    BY <1>3, <1>4
  <2>2. [inputs[r][n] EXCEPT !.bonuses = Recounted(r, n)] = inputs[r][n]
    BY <1>1, <1>5, RecountedSame
  <2>3. QED
    BY <1>1, <2>1, <2>2
<1>7. CASE n < Len(Assigned) /\ Goto(r, "count") /\ UNCHANGED todo
  BY <1>1, <1>2, <1>5, <1>6, <1>7, GotoDoes, SameDue DEF DueFor
<1>8. CASE n = Len(Assigned) /\ Goto(r, "store") /\ todo' = [todo EXCEPT ![r] = Payouts(inputs'[r])]
  <2>1. inputs[r] = [i \in 1 .. Len(Assigned) |-> DueInput(i)]
    <3>1. inputs[r] = [i \in 1 .. Len(Assigned) |-> inputs[r][i]]
      BY <1>1, <1>4, <1>8, SeqIsFunction
    <3>2. QED
      BY <1>5, <1>8, <3>1
  <2>2. pc'[r] = "store" /\ todo'[r] = DuePayouts
    BY <1>1, <1>6, <1>8, <2>1, GotoDoes, DueTyped DEF TypeOK
  <2>3. Len(DuePayouts) = Len(Assigned)
    BY <1>1, DueTyped, PayoutsTyped
  <2>4. Assigned' = Assigned /\ DuePayouts' = DuePayouts
    BY <1>1, SameDue
  <2>5. (Handled(r))' = 0
    BY <1>1, <2>2, <2>3, <2>4 DEF Handled
  <2>6. QED
    BY <1>1, <2>2, <2>3, <2>4, <2>5 DEF DueFor
<1>9. QED
  BY <1>2, <1>7, <1>8

LEMMA CreateDue ==
  ASSUME Sound, CompleteInv, NEW r \in Requests, DueFor(r), CreateRecord(r)
  PROVE  DueFor(r)' /\ RecordDue'
<1>1. /\ TypeOK /\ pc[r] = "store" /\ todo[r] # <<>> /\ pc' = pc
      /\ cycle' = cycle /\ events' = events
      /\ records' = Stored(NewRecord(Head(todo[r]))) /\ todo' = [todo EXCEPT ![r] = Tail(@)]
  BY DEF Sound, CreateRecord
<1>2. op[r].kind = "finalise"
  BY <1>1, OpKinds DEF Sound, TypeOK, CallsSound, LabelsOf, Answers
<1>3. todo[r] \in Seq(Payout) /\ Len(todo[r]) <= Len(Assigned) /\ Len(Assigned) \in Nat
  <2>1. todo[r] \in Seq(Payout) /\ Len(todo[r]) <= Len(Assigned)
    BY <1>1 DEF Sound, CallsSound, Progress, TypeOK
  <2>2. QED
    BY <1>1, <2>1, CycleTyped
<1>4. /\ Len(todo[r]) \in Nat \ {0} /\ Head(todo[r]) = todo[r][1]
      /\ Len(Tail(todo[r])) = Len(todo[r]) - 1
      /\ \A i \in 1 .. Len(Tail(todo[r])) : Tail(todo[r])[i] = todo[r][i + 1]
  BY <1>1, <1>3
<1>5. todo'[r] = Tail(todo[r])
  BY <1>1 DEF TypeOK
<1>6. Assigned' = Assigned /\ DuePayouts' = DuePayouts
  BY <1>1, SameDue
<1>7. PICK k \in Nat : Handled(r) = k /\ (Handled(r))' = k + 1 /\ k + 1 \in 1 .. Len(Assigned)
  <2>1. Handled(r) = Len(Assigned) - Len(todo[r]) /\ (Handled(r))' = Len(Assigned) - Len(todo'[r])
    BY <1>6 DEF Handled
  <2>2. /\ Handled(r) \in Nat /\ (Handled(r))' = Handled(r) + 1
        /\ Handled(r) + 1 \in 1 .. Len(Assigned)
    <3> DEFINE m == Len(Assigned)
               n == Len(todo[r])
    <3>1. m \in Nat /\ n \in Nat \ {0} /\ n <= m /\ Handled(r) = m - n /\ (Handled(r))' = m - (n - 1)
      BY <1>3, <1>4, <1>5, <2>1
    <3> HIDE DEF m, n
    <3>2. m - n \in Nat /\ m - (n - 1) = (m - n) + 1 /\ (m - n) + 1 \in 1 .. m
      BY <3>1
    <3>3. QED
      BY <3>1, <3>2 DEF m
  <2>3. QED
    BY <2>2
<1>8. \A i \in 1 .. Len(todo[r]) : todo[r][i].payout = DuePayouts[k + i].payout
  BY <1>1, <1>7 DEF DueFor
<1>9. \A i \in 1 .. Len(todo'[r]) : todo'[r][i].payout = DuePayouts[k + 1 + i].payout
  <2>1. SUFFICES ASSUME NEW i \in 1 .. Len(todo'[r])
                 PROVE  todo'[r][i].payout = DuePayouts[k + 1 + i].payout
    OBVIOUS
  <2>2. i + 1 \in 1 .. Len(todo[r]) /\ k + (i + 1) = k + 1 + i
    BY <1>4, <1>5, <1>7
  <2>3. todo'[r][i] = todo[r][i + 1]
    BY <1>4, <1>5
  <2>4. QED
    BY <1>8, <2>2, <2>3
<1>10. DueFor(r)'
  BY <1>1, <1>6, <1>7, <1>9 DEF DueFor
<1>11. /\ todo[r][1].payout = DuePayouts[k + 1].payout
       /\ todo[r][1].talent = Assigned[k + 1].talent
  <2>1. todo[r][1].talent = Assigned[k + 1].talent
    <3>1. \A i \in 1 .. Len(todo[r]) : todo[r][i].talent = Assigned[k + i].talent
      BY <1>1, <1>2, <1>7 DEF CompleteInv
    <3>2. QED
      BY <1>4, <1>7, <3>1
  <2>2. QED
    BY <1>4, <1>8, <2>1
<1>12. RecordDue'
  <2>1. records'[""].talent = todo[r][1].talent /\ records'[""].payout = todo[r][1].payout
    BY <1>1, <1>4 DEF Stored, NewRecord
  <2>2. QED
    BY <1>6, <1>7, <1>11, <2>1 DEF RecordDue
<1>13. QED
  BY <1>10, <1>12

\* What an event sets, unless nothing has been counted.
LEMMA StoredEarly ==
  ASSUME TypeOK, NEW r \in Requests, StoreEvent(r), ~raced'
  PROVE  /\ DOMAIN records = {}
         /\ \A q \in Requests : pc[q] \notin {"count", "bonus", "store", "emit"}
<1>1. records = <<>>
  BY DEF StoreEvent
<1>2. DOMAIN records = {}
  BY <1>1
<1>3. QED
  BY <1>2 DEF StoreEvent

LEMMA GhostsGrow ==
  ASSUME TypeOK, [Next]_vars, ~raced', failures' = 0
  PROVE  ~raced /\ failures = 0
<1>1. failures \in Nat
  BY FailuresNat
<1>2. CASE UNCHANGED vars
  BY <1>2 DEF vars, ghosts
<1>3. CASE SetStatus
  BY <1>3 DEF SetStatus
<1>4. ASSUME NEW r \in Requests, Step(r) PROVE failures' \in {failures, failures + 1} /\ (raced => raced')
  <2>1. CASE Count(r)
    BY <2>1 DEF Count
  <2>2. CASE CountBonuses(r)
    BY <2>2 DEF CountBonuses
  <2>3. CASE LogEvent(r) \/ LogEventUnheard(r)
    BY <2>3 DEF LogEvent, LogEventUnheard, StoreEvent
  <2>4. CASE Begin(r) \/ Fail(r)
    BY <2>4 DEF Begin, Fail, ghosts
  <2>5. CASE ~(\/ Count(r) \/ CountBonuses(r) \/ LogEvent(r) \/ LogEventUnheard(r)
               \/ Begin(r) \/ Fail(r))
    <3>1. UNCHANGED ghosts
      BY <1>4, <2>5 DEF Step, ReadLink, ReadCycle, ReadCampaign, LogEventConflict, PushEvent,
         CheckCycle, CreateRecord, CreateRecordConflict, RecordsDone, EmitFinalised, FindRecord,
         Approve, MarkPaid, MailPaid
    <3>2. QED
      BY <3>1 DEF ghosts
  <2>6. QED
    BY <2>1, <2>2, <2>3, <2>4, <2>5
<1>5. QED
  BY <1>1, <1>2, <1>3, <1>4 DEF Next

LEMMA StepDue ==
  ASSUME Sound, Sound', PaidInv, CompleteInv, DueInv, NEW r \in Requests, Step(r)
  PROVE  DueInv'
<1> SUFFICES ASSUME ~raced', failures' = 0
             PROVE  (RecordDue /\ \A q \in Requests : DueFor(q))'
  BY DEF DueInv, RecordDue, DueFor
<1>1. TypeOK /\ [Next]_vars
  BY DEF Sound, Next
<1>2. RecordDue /\ \A q \in Requests : DueFor(q) /\ failures = 0
  BY <1>1, GhostsGrow, DueParts
<1>3. /\ cycle' = cycle
      /\ \A q \in Requests \ {r} : pc'[q] = pc[q] /\ inputs'[q] = inputs[q] /\ todo'[q] = todo[q]
  BY <1>1, StepWho
<1>4. CASE LogEvent(r) \/ LogEventUnheard(r)
  <2>1. StoreEvent(r) /\ UNCHANGED records /\ pc'[r] \in {"push", "failed"}
    BY <1>1, <1>4, GotoDoes DEF LogEvent, LogEventUnheard
  <2>2. /\ DOMAIN records = {}
        /\ \A q \in Requests : pc[q] \notin {"count", "bonus", "store", "emit"}
    BY <1>1, <2>1, StoredEarly
  <2>3. QED
    BY <1>3, <2>1, <2>2 DEF RecordDue, DueFor
<1>5. CASE ~(LogEvent(r) \/ LogEventUnheard(r))
  <2>1. events' = events
    BY <1>1, <1>5, EventsKept
  <2>2. \A q \in Requests \ {r} : DueFor(q)'
    BY <1>2, <1>3, <2>1, DueKept
  <2>3. CASE CreateRecord(r)
    BY <1>2, <2>2, <2>3, CreateDue
  <2>4. CASE ~CreateRecord(r)
    <3>1. "" \in DOMAIN records \/ "" \notin DOMAIN records'
      <4>1. CASE Approve(r) \/ MarkPaid(r)
        BY <4>1 DEF Approve, MarkPaid
      <4>2. CASE ~(Approve(r) \/ MarkPaid(r))
        BY <1>5, <2>4, <4>2 DEF Step, Begin, ReadLink, ReadCycle, ReadCampaign, LogEventConflict, PushEvent,
           CheckCycle, Count, CountBonuses, CreateRecordConflict, RecordsDone,
           EmitFinalised, FindRecord, MailPaid, Fail, rows
      <4>3. QED
        BY <4>1, <4>2
    <3>2. RecordDue'
      BY <1>1, <1>2, <1>3, <2>1, <3>1, RecordDueKept
    <3>3. DueFor(r)'
      <4>1. CASE Count(r)
        BY <1>2, <4>1, CountDue
      <4>2. CASE CountBonuses(r)
        BY <1>2, <4>2, BonusesDue
      <4>3. CASE CheckCycle(r)
        <5>1. UNCHANGED inputs /\ pc[r] = "check" /\ pc'[r] \in {"count", "refused"}
          BY <1>1, <4>3, GotoDoes DEF CheckCycle
        <5>2. inputs'[r] = <<>>
          BY <5>1 DEF Sound, CallsSound, Progress
        <5>3. QED
          BY <5>1, <5>2 DEF DueFor
      <4>4. CASE ~(Count(r) \/ CountBonuses(r) \/ CheckCycle(r))
        <5>1. pc'[r] \notin {"count", "bonus", "store"}
          <6>1. CASE Begin(r)
            BY <1>1, <6>1, GotoDoes DEF Begin, Ops
          <6>2. CASE FindRecord(r)
            <7>1. op[r].kind \in {"approve", "pay"}
              BY <1>1, <6>2, OpKinds DEF FindRecord, Sound, CallsSound, TypeOK, LabelsOf, Answers
            <7>2. QED
              BY <1>1, <6>2, <7>1, GotoDoes DEF FindRecord
          <6>3. CASE ~(Begin(r) \/ FindRecord(r))
            <7>1. \E label \in Running \cup Answers :
                    label \notin {"count", "bonus", "store"} /\ Goto(r, label)
              BY <1>5, <2>4, <4>4, <6>3 DEF Step, ReadLink, ReadCycle, ReadCampaign,
                 LogEventConflict, PushEvent, CreateRecordConflict, RecordsDone,
                 EmitFinalised, Approve, MarkPaid, MailPaid, Fail, Running, Answers
            <7>2. QED
              BY <1>1, <7>1, GotoDoes
          <6>4. QED
            BY <6>1, <6>2, <6>3
        <5>2. QED
          BY <5>1 DEF DueFor
      <4>5. QED
        BY <4>1, <4>2, <4>3, <4>4
    <3>4. QED
      BY <2>2, <3>2, <3>3
  <2>5. QED
    BY <2>3, <2>4
<1>6. QED
  BY <1>4, <1>5

LEMMA NextDue ==
  Sound /\ Sound' /\ PaidInv /\ CompleteInv /\ DueInv /\ [Next]_vars => DueInv'
<1> SUFFICES ASSUME Sound, Sound', PaidInv, CompleteInv, DueInv, [Next]_vars PROVE DueInv'
  OBVIOUS
<1>1. ASSUME UNCHANGED <<cycle, events, records, pc, inputs, todo, raced, failures>> PROVE DueInv'
  <2>1. SUFFICES ASSUME ~raced', failures' = 0 PROVE (RecordDue /\ \A q \in Requests : DueFor(q))'
    BY DEF DueInv, RecordDue, DueFor
  <2>2. RecordDue /\ \A q \in Requests : DueFor(q)
    BY <1>1, <2>1, DueParts
  <2>3. \A q \in Requests : DueFor(q)'
    BY <1>1, <2>2, DueKept
  <2>4. Assigned' = Assigned /\ DuePayouts' = DuePayouts
    BY <1>1, SameDue
  <2>5. RecordDue'
    BY <1>1, <2>2, <2>4 DEF RecordDue
  <2>6. QED
    BY <2>3, <2>5
<1>2. CASE SetStatus
  BY <1>1, <1>2 DEF SetStatus
<1>3. CASE UNCHANGED vars
  BY <1>1, <1>3 DEF vars, rows, ghosts
<1>4. QED
  BY <1>2, <1>3, StepDue DEF Next

-----------------------------------------------------------------------------
SettlementInv == Sound /\ PaidInv /\ LogInv /\ CompleteInv /\ DueInv

LEMMA InitSettlement == Init => SettlementInv
<1> SUFFICES ASSUME Init PROVE SettlementInv
  OBVIOUS
<1>1. /\ DOMAIN events = {} /\ DOMAIN records = {} /\ pushed = {} /\ mailed = {}
      /\ \A r \in Requests : pc[r] = "idle" /\ op[r].kind = "none"
  BY DEF Init, NoOp
<1>2. PaidInv
  BY <1>1 DEF PaidInv
<1>3. LogInv
  BY <1>1 DEF LogInv, Logged, LateEventNeedsRace
<1>4. CompleteInv
  BY <1>1 DEF CompleteInv
<1>5. DueInv
  BY <1>1 DEF DueInv
<1>6. QED
  BY <1>2, <1>3, <1>4, <1>5, InitSound DEF SettlementInv

LEMMA NextSettlement == SettlementInv /\ [Next]_vars => SettlementInv'
<1> SUFFICES ASSUME SettlementInv, [Next]_vars PROVE SettlementInv'
  OBVIOUS
<1>1. Sound' /\ PaidInv'
  BY NextSound, NextPaid DEF SettlementInv
<1>2. QED
  BY <1>1, NextLog, NextComplete, NextDue DEF SettlementInv

LEMMA SettlementAlways == Spec => []SettlementInv
BY InitSettlement, NextSettlement, PTL DEF Spec

\* The state keeps its types: the payouts computed are amounts, and what a call
\* has counted fits the assignments of the cycle (ComputeCyclePayout,
\* internal/algo/payout.go).
THEOREM TypeCorrect == Spec => []TypeOK
<1>1. SettlementInv => TypeOK
  BY DEF SettlementInv, Sound
<1>2. QED
  BY <1>1, SettlementAlways, PTL

\* An event is acknowledged at most once for its key and then stored, the
\* dashboards show stored events only, and one of a cycle that is not running
\* needs a change between the reads and the write of its call (LogEvent).
THEOREM EventLogCorrect == Spec => []EventLogSound
<1>1. SettlementInv => EventLogSound
  <2>1. ASSUME LogInv PROVE LoggedOnce
    BY <2>1 DEF LogInv, Logged, LoggedOnce
  <2>2. QED
    BY <2>1 DEF SettlementInv, LogInv, EventLogSound
<1>2. QED
  BY <1>1, SettlementAlways, PTL

\* FinalisePayouts returns success only when every assigned talent has a record.
THEOREM FinalisedCorrect == Spec => []FinalisedIsComplete
<1>1. SettlementInv => FinalisedIsComplete
  BY DEF SettlementInv, CompleteInv, FinalisedIsComplete
<1>2. QED
  BY <1>1, SettlementAlways, PTL

LEMMA DueIsDue == ASSUME SettlementInv PROVE PayoutIsDue
<1> SUFFICES ASSUME ~raced, failures = 0, NEW id \in DOMAIN records, NEW i \in DOMAIN DuePayouts,
                    records[id].talent = DuePayouts[i].talent
             PROVE  records[id].payout = DuePayouts[i].payout
  BY DEF PayoutIsDue
<1>1. TypeOK /\ id = ""
  BY DEF SettlementInv, Sound, TypeOK
<1>2. PICK j \in 1 .. Len(Assigned) :
        /\ records[""].talent = Assigned[j].talent
        /\ records[""].payout = DuePayouts[j].payout
  BY <1>1 DEF SettlementInv, DueInv
<1>3. /\ DuePayouts \in Seq(Payout) /\ Len(DuePayouts) = Len(Assigned)
      /\ \A k \in 1 .. Len(Assigned) : DuePayouts[k].talent = Assigned[k].talent
  BY <1>1, DueTyped, PayoutsTyped
<1>4. i \in 1 .. Len(Assigned)
  BY <1>3
<1>5. i = j
  BY <1>1, <1>2, <1>3, <1>4, CycleTyped
<1>6. QED
  BY <1>1, <1>2, <1>5

\* A stored payout is the one due for the events stored, unless an event came
\* in after the counting began or a read failed (FinalisePayouts), and a talent
\* who was told of a payment has one (MarkPayoutPaid, ApprovePayout).
THEOREM PaymentsCorrect == Spec => []PaymentsSound
<1>1. SettlementInv => MailedIsPaid
  BY DEF SettlementInv, PaidInv, MailedIsPaid
<1>2. SettlementInv => PaymentsSound
  BY <1>1, DueIsDue DEF PaymentsSound
<1>3. QED
  BY <1>2, SettlementAlways, PTL

-----------------------------------------------------------------------------
(* What a cycle pays, for every input and every pool *)

\* No talent grosses more than the allocation, bonuses included, and what the
\* talent and the platform get is the gross (internal/algo/payout.go, P.2-P.5).
THEOREM AllocationKept == \A t \in Input : WithinAllocation(t)
<1>1. SUFFICES ASSUME NEW t \in Input PROVE WithinAllocation(t)
  OBVIOUS
<1> DEFINE g == GrossOf(t).total
<1>2. g \in Nat /\ g <= t.budget
  BY GrossTyped
<1>3. Commission(t) = MoneyRound(3 * g, 10) /\ Net(t) = MoneyRound(7 * g, 10)
  BY DEF Commission, Net
<1> HIDE DEF g
<1>4. MoneyRound(3 * g, 10) + MoneyRound(7 * g, 10) - g \in -1..1
  BY <1>2 DEF MoneyRound
<1>5. QED
  BY <1>2, <1>3, <1>4 DEF WithinAllocation, g

\* A bound of each part bounds the sum.
LEMMA SumBounded ==
  ASSUME NEW S, IsFiniteSet(S), NEW f, NEW g, NEW a \in Nat, NEW b \in Nat, NEW c \in Nat,
         \A x \in S : f[x] \in Nat /\ g[x] \in Nat /\ a * f[x] <= b * g[x] + c
  PROVE  a * SumFunctionOnSet(f, S) <= b * SumFunctionOnSet(g, S) + c * Cardinality(S)
<1> DEFINE Fine(U) == a * SumFunctionOnSet(f, U) <= b * SumFunctionOnSet(g, U) + c * Cardinality(U)
           D == {U \in SUBSET S : ~Fine(U)}
           B == {Cardinality(U) : U \in D}
<1>1. \A U \in SUBSET S : IsFiniteSet(U) /\ Cardinality(U) \in Nat
  BY FS_Subset, FS_CardinalityType
<1>2. SUFFICES ASSUME D # {} PROVE FALSE
  OBVIOUS
<1>3. B \in SUBSET Nat /\ B # {}
  BY <1>1, <1>2
<1>4. PICK m \in B : \A n \in B : m <= n
  BY <1>3, LeastNat
<1>5. PICK U \in D : Cardinality(U) = m
  BY <1>4
<1>6. U # {}
  <2>1. SUFFICES ASSUME U = {} PROVE Fine(U)
    BY <1>5
  <2>2. SumFunctionOnSet(f, U) = 0 /\ SumFunctionOnSet(g, U) = 0 /\ Cardinality(U) = 0
    BY <1>1, <1>5, <2>1, SumStep, FS_EmptySet
  <2>3. a * 0 <= b * 0 + c * 0
    OBVIOUS
  <2>4. QED
    BY <2>2, <2>3
<1> DEFINE V == Rest(U)
           x == Some(U)
<1>7. x \in S /\ V \in SUBSET S /\ Cardinality(V) = m - 1 /\ m \in Nat
  BY <1>1, <1>5, <1>6, RestSmaller
<1>8. Fine(V)
  <2>1. Cardinality(V) \notin B
    BY <1>1, <1>4, <1>7
  <2>2. V \notin D
    BY <2>1
  <2> HIDE DEF Fine, V
  <2>3. QED
    BY <1>7, <2>2
<1>9. /\ SumFunctionOnSet(f, U) = f[x] + SumFunctionOnSet(f, V)
      /\ SumFunctionOnSet(g, U) = g[x] + SumFunctionOnSet(g, V)
      /\ Cardinality(U) = Cardinality(V) + 1
  BY <1>1, <1>5, <1>6, <1>7, SumStep
<1>10. /\ SumFunctionOnSet(f, V) \in Nat /\ SumFunctionOnSet(g, V) \in Nat
       /\ Cardinality(V) \in Nat
  <2>1. IsFiniteSet(V) /\ (\A y \in V : f[y] \in Nat) /\ (\A y \in V : g[y] \in Nat)
    BY <1>1, <1>7
  <2>2. QED
    BY <1>1, <1>7, <2>1, SumOfNats
<1>11. f[x] \in Nat /\ g[x] \in Nat /\ a * f[x] <= b * g[x] + c
  BY <1>7
<1>12. \A p, q, k, u, v \in Nat :
         a * p <= b * q + c * k /\ a * u <= b * v + c => a * (u + p) <= b * (v + q) + c * (k + 1)
  <2>1. \A h, u, p \in Nat : h * (u + p) = h * u + h * p /\ h * u \in Nat /\ h * p \in Nat
    OBVIOUS
  <2>2. SUFFICES ASSUME NEW p \in Nat, NEW q \in Nat, NEW k \in Nat, NEW u \in Nat, NEW v \in Nat,
                        a * p <= b * q + c * k, a * u <= b * v + c
                 PROVE  a * (u + p) <= b * (v + q) + c * (k + 1)
    OBVIOUS
  <2>3. a * (u + p) = a * u + a * p /\ a * u \in Nat /\ a * p \in Nat
    BY <2>1
  <2>4. b * (v + q) = b * v + b * q /\ b * v \in Nat /\ b * q \in Nat
    BY <2>1
  <2>5. c * (k + 1) = c * k + c /\ c * k \in Nat
    BY <2>1
  <2>6. QED
    BY <2>2, <2>3, <2>4, <2>5
<1>13. Fine(U)
  <2> HIDE DEF V, x
  <2>1. QED
    BY <1>8, <1>9, <1>10, <1>11, <1>12
<1>14. QED
  BY <1>5, <1>13

LEMMA PayoutIs ==
  ASSUME NEW s \in Seq(Input), NEW pool \in Nat
  PROVE  LET paid == ComputeCyclePayout(s, pool)
         IN  /\ DOMAIN paid = 1 .. Len(s) /\ Len(s) \in Nat /\ paid \in Seq({paid[i] : i \in 1 .. Len(s)})
             /\ Len(paid) = Len(s)
             /\ Demand(s) \in Nat
             /\ Demand(s) = SumFunctionOnSet([i \in 1 .. Len(s) |-> Net(s[i])], 1 .. Len(s))
             /\ \A i \in 1 .. Len(s) :
                  /\ Net(s[i]) \in Nat /\ paid[i].net = Net(s[i])
                  /\ paid[i].payout = Scaled(Net(s[i]), Demand(s), pool)
<1> DEFINE paid == ComputeCyclePayout(s, pool)
           nets == [i \in 1 .. Len(s) |-> Net(s[i])]
<1>1. DOMAIN s = 1 .. Len(s) /\ Len(s) \in Nat /\ \A i \in 1 .. Len(s) : Net(s[i]) \in Nat
  BY SeqElement, NetTyped
<1>2. DOMAIN paid = 1 .. Len(s) /\ paid = [i \in 1 .. Len(s) |-> paid[i]]
  BY <1>1 DEF ComputeCyclePayout
<1>3. \A i \in 1 .. Len(s) : paid[i].net = Net(s[i]) /\ paid[i].payout = Scaled(Net(s[i]), Demand(s), pool)
  BY <1>1 DEF ComputeCyclePayout
<1>4. Demand(s) = SumFunctionOnSet(nets, 1 .. Len(s))
  BY <1>1 DEF Demand, Total, SumFunction
<1>5. nets \in [1 .. Len(s) -> Nat] /\ DOMAIN nets = 1 .. Len(s)
  BY <1>1
<1>6. Demand(s) \in Nat
  <2> HIDE DEF nets
  <2>1. SumFunction(nets) \in Nat
    BY <1>1, <1>5, TotalTyped
  <2>2. QED
    BY <1>4, <1>5, <2>1 DEF SumFunction
<1> HIDE DEF paid
<1>7. paid \in Seq({paid[i] : i \in 1 .. Len(s)}) /\ Len(paid) = Len(s)
  <2>1. paid \in [1 .. Len(s) -> {paid[i] : i \in 1 .. Len(s)}]
    BY <1>2
  <2>2. QED
    BY <1>1, <2>1, SeqOfFunction
<1>8. QED
  BY <1>1, <1>2, <1>3, <1>4, <1>6, <1>7 DEF paid

LEMMA Cancelled == ASSUME NEW d \in Nat \ {0}, NEW x \in Nat, NEW y \in Nat, d * x <= d * y PROVE x <= y
<1>1. SUFFICES ASSUME x > y PROVE FALSE
  OBVIOUS
<1>2. d * x >= d * (y + 1) /\ d * (y + 1) = d * y + d /\ d * y \in Nat /\ d * x \in Nat
  BY <1>1
<1>3. QED
  BY <1>2

\* However many talents share a pool, and however little it is, what is paid
\* exceeds it by no more than half a kobo for each (internal/algo/payout.go, P.7).
THEOREM PoolKept ==
  \A s \in Seq(Input), pool \in Nat : WithinPool(ComputeCyclePayout(s, pool), pool)
<1>1. SUFFICES ASSUME NEW s \in Seq(Input), NEW pool \in Nat, pool > 0
               PROVE  2 * Total(ComputeCyclePayout(s, pool), LAMBDA r : r.payout)
                        <= 2 * pool + Len(ComputeCyclePayout(s, pool))
  BY DEF WithinPool
<1> DEFINE paid == ComputeCyclePayout(s, pool)
           n == Len(s)
           demand == Demand(s)
           nets == [i \in 1 .. n |-> Net(s[i])]
           payouts == [i \in 1 .. n |-> paid[i].payout]
           P == SumFunctionOnSet(payouts, 1 .. n)
<1>2. /\ DOMAIN paid = 1 .. n /\ n \in Nat /\ Len(paid) = n
      /\ demand \in Nat /\ demand = SumFunctionOnSet(nets, 1 .. n)
      /\ \A i \in 1 .. n : Net(s[i]) \in Nat /\ paid[i].payout = Scaled(Net(s[i]), demand, pool)
  BY PayoutIs
<1>3. Total(paid, LAMBDA r : r.payout) = P
  BY <1>2 DEF Total, SumFunction
<1> HIDE DEF n, demand, paid
<1>4. CASE demand <= pool
  <2>1. payouts = nets
    BY <1>2, <1>4 DEF Scaled
  <2> HIDE DEF payouts, nets
  <2>2. P = demand
    BY <1>2, <2>1
  <2> HIDE DEF P
  <2>3. 2 * P <= 2 * pool + n
    BY <1>2, <1>4, <2>2
  <2>4. QED
    BY <1>2, <1>3, <2>3 DEF paid
<1>5. CASE demand > pool
  <2> DEFINE a == 2 * demand
             b == 2 * pool
  <2>1. demand \in Nat \ {0} /\ a \in Nat /\ b \in Nat
    BY <1>1, <1>2, <1>5
  <2>2. ASSUME NEW i \in 1 .. n
        PROVE  payouts[i] \in Nat /\ nets[i] \in Nat /\ a * payouts[i] <= b * nets[i] + demand
    <3> DEFINE net == Net(s[i])
               part == MoneyRound(net * pool, demand)
    <3>1. net \in Nat /\ payouts[i] = part /\ nets[i] = net
      BY <1>1, <1>2, <1>5 DEF Scaled
    <3> HIDE DEF net, payouts, nets
    <3>2. net * pool \in Nat
      BY <3>1, ProductTyped
    <3>3. part \in Nat /\ 2 * (part * demand) <= 2 * (net * pool) + demand
      BY <2>1, <3>2, Rounded, RoundedClose
    <3> HIDE DEF part
    <3>4. 2 * (part * demand) = a * part /\ 2 * (net * pool) = b * net
      BY <1>1, <2>1, <3>1, <3>3
    <3>5. QED
      BY <3>1, <3>3, <3>4
  <2>3. IsFiniteSet(1 .. n) /\ Cardinality(1 .. n) = n
    BY <1>2, FS_Interval
  <2>4. P \in Nat
    <3> HIDE DEF payouts
    <3>1. \A i \in 1 .. n : payouts[i] \in Nat
      BY <2>2
    <3>2. QED
      BY <2>3, <3>1, SumOfNats
  <2> HIDE DEF a, b, payouts, nets
  <2>5. a * P <= b * demand + demand * n
    BY <1>2, <2>1, <2>2, <2>3, SumBounded
  <2> HIDE DEF P
  <2>6. a * P = demand * (2 * P) /\ b * demand + demand * n = demand * (2 * pool + n)
    BY <1>1, <1>2, <2>1, <2>4 DEF a, b
  <2>7. 2 * P \in Nat /\ 2 * pool + n \in Nat
    BY <1>1, <1>2, <2>4
  <2>8. 2 * P <= 2 * pool + n
    BY <2>1, <2>5, <2>6, <2>7, Cancelled
  <2>9. QED
    BY <1>2, <1>3, <2>8 DEF paid
<1>6. QED
  BY <1>1, <1>2, <1>4, <1>5

\* A small pool never turns the order of the talents round (internal/algo/payout.go, P.7).
THEOREM OrderKept ==
  \A s \in Seq(Input), pool \in Nat : InOrder(ComputeCyclePayout(s, pool))
<1>1. SUFFICES ASSUME NEW s \in Seq(Input), NEW pool \in Nat,
                      NEW i \in 1 .. Len(s), NEW j \in 1 .. Len(s), Net(s[i]) <= Net(s[j])
               PROVE  Scaled(Net(s[i]), Demand(s), pool) <= Scaled(Net(s[j]), Demand(s), pool)
  <2>1. ASSUME NEW s \in Seq(Input), NEW pool \in Nat
        PROVE  LET paid == ComputeCyclePayout(s, pool)
               IN  /\ DOMAIN paid = 1 .. Len(s)
                   /\ \A i \in 1 .. Len(s) : /\ paid[i].net = Net(s[i])
                                             /\ paid[i].payout = Scaled(Net(s[i]), Demand(s), pool)
    BY <2>1, PayoutIs
  <2>2. QED
    BY <1>1, <2>1 DEF InOrder
<1> DEFINE m == Net(s[i])
           n == Net(s[j])
           demand == Demand(s)
<1>2. m \in Nat /\ n \in Nat /\ m <= n /\ demand \in Nat
  BY <1>1, PayoutIs
<1> HIDE DEF m, n, demand
<1>3. m * pool \in Nat /\ n * pool \in Nat /\ m * pool <= n * pool
  BY <1>2
<1>4. CASE demand > pool /\ pool > 0
  <2>1. MoneyRound(m * pool, demand) <= MoneyRound(n * pool, demand)
    BY <1>2, <1>3, <1>4, RoundedMore
  <2>2. QED
    BY <1>4, <2>1 DEF Scaled, m, n, demand
<1>5. CASE ~(demand > pool /\ pool > 0)
  BY <1>2, <1>5 DEF Scaled, m, n, demand
<1>6. QED
  BY <1>4, <1>5

\* What one conversion costs does not rise with the conversions.
LEMMA RoundedLess ==
  ASSUME NEW b \in Nat, NEW n \in Nat \ {0}
  PROVE  MoneyRound(b, n + 1) <= MoneyRound(b, n)
<1> DEFINE p == (2 * b + (n + 1)) \div (2 * (n + 1))
           q == (2 * b + n) \div (2 * n)
<1>1. \A x \in Nat, y \in Nat \ {0} : x \div y \in Nat /\ (x \div y) * y <= x /\ x < (x \div y + 1) * y
  OBVIOUS
<1>2. /\ 2 * b + n \in Nat /\ 2 * n \in Nat \ {0}
      /\ 2 * b + (n + 1) \in Nat /\ 2 * (n + 1) \in Nat \ {0}
  OBVIOUS
<1>3. p \in Nat /\ p * (2 * (n + 1)) <= 2 * b + (n + 1)
  BY <1>1, <1>2
<1>4. q \in Nat /\ 2 * b + n < (q + 1) * (2 * n)
  BY <1>1, <1>2
<1> HIDE DEF p, q
<1>5. SUFFICES ASSUME p >= q + 1 PROVE FALSE
  BY <1>3, <1>4 DEF MoneyRound, p, q
<1>6. (q + 1) * (2 * (n + 1)) <= p * (2 * (n + 1))
  BY <1>3, <1>4, <1>5
<1>7. (q + 1) * (2 * (n + 1)) = (q + 1) * (2 * n) + 2 * (q + 1) /\ (q + 1) * (2 * n) \in Nat
  BY <1>4
<1>8. p * (2 * (n + 1)) \in Nat
  BY <1>3
<1>9. QED
  BY <1>2, <1>3, <1>4, <1>6, <1>7, <1>8

LEMMA SumOfOne ==
  ASSUME NEW x \in Nat
  PROVE  SumFunction([i \in 1 .. 1 |-> x]) = x
<1> DEFINE f == [i \in 1 .. 1 |-> x]
<1>1. IsFiniteSet({1}) /\ 1 .. 1 = {1} /\ IsFiniteSet({})
  BY FS_Singleton, FS_EmptySet
<1>2. \A y \in {1} : f[y] \in Nat
  OBVIOUS
<1>3. SumFunctionOnSet(f, {1}) = f[1] + SumFunctionOnSet(f, {1} \ {1})
  <2> HIDE DEF f
  <2>1. QED
    BY <1>1, <1>2, SumOfNats
<1>4. SumFunctionOnSet(f, {}) = 0
  BY <1>1, SumStep
<1>5. QED
  BY <1>1, <1>3, <1>4 DEF SumFunction

\* With one destination the cap never cuts more than the budget does.
LEMMA TrafficOfOne ==
  ASSUME NEW t \in Input, NEW n \in Nat, NEW cost \in Nat,
         t.destinations = <<[conversions |-> n, cost |-> cost]>>
  PROVE  TrafficPayout(t).total = Smaller(n * cost, t.budget)
<1> DEFINE ds == t.destinations
           value == Total(ds, LAMBDA d : d.conversions * d.cost)
           units == Total(ds, LAMBDA d : d.conversions)
           paid == {i \in DOMAIN ds : ds[i].cost # 0}
           first == CHOOSE i \in paid : \A j \in paid : i <= j
           cap == IF paid = {} THEN 0 ELSE ds[first].cost
           over == units > 0 /\ cap > 0 /\ MoneyRound(t.budget, units) > cap
<1>1. DOMAIN ds = 1 .. 1 /\ ds[1].conversions = n /\ ds[1].cost = cost /\ t.budget \in Nat
  BY DEF Input
<1> HIDE DEF ds
<1>2. units = n
  BY <1>1, SumOfOne DEF Total
<1>3. value = n * cost
  <2>1. n * cost \in Nat
    BY ProductTyped
  <2>2. [i \in DOMAIN ds |-> ds[i].conversions * ds[i].cost] = [i \in 1 .. 1 |-> n * cost]
    BY <1>1
  <2>3. QED
    BY <2>1, <2>2, SumOfOne DEF Total
<1>4. cap = cost
  <2>1. CASE cost = 0
    BY <1>1, <2>1
  <2>2. CASE cost # 0
    <3>1. paid = {1}
      BY <1>1, <2>2
    <3>2. first = 1
      BY <3>1
    <3>3. QED
      BY <1>1, <3>1, <3>2
  <2>3. QED
    BY <2>1, <2>2
<1>5. TrafficPayout(t).total = (IF over THEN units * cap ELSE Smaller(value, t.budget)) + 0
  BY DEF TrafficPayout, Gross, ds
<1> HIDE DEF units, value, cap
<1>6. over => n * cost <= t.budget
  BY <1>1, <1>2, <1>4, RoundedAbove
<1>7. n * cost \in Nat
  BY ProductTyped
<1>8. QED
  <2>1. over \in BOOLEAN
    OBVIOUS
  <2> HIDE DEF over
  <2>2. QED
    BY <1>1, <1>2, <1>3, <1>4, <1>5, <1>6, <1>7 DEF Smaller

\* The base of a lead payout, by the leads.
LeadBase(b, n, cap) ==
  CASE n = 0 -> 0
    [] n > 0 /\ MoneyRound(b, n) <= cap -> b
    [] OTHER -> n * cap

LEMMA LeadBaseMore ==
  ASSUME NEW b \in Nat, NEW n \in Nat, NEW cap \in Nat
  PROVE  /\ LeadBase(b, n, cap) \in Nat /\ LeadBase(b, n, cap) <= b
         /\ LeadBase(b, n, cap) <= LeadBase(b, n + 1, cap)
<1>1. ASSUME NEW m \in Nat \ {0}
      PROVE  /\ MoneyRound(b, m) \in Nat /\ m * cap \in Nat
             /\ MoneyRound(b, m) > cap => m * cap <= b
  BY <1>1, Rounded, ProductTyped, RoundedAbove
<1>2. ASSUME NEW m \in Nat
      PROVE  LeadBase(b, m, cap) \in Nat /\ LeadBase(b, m, cap) <= b
  <2>1. CASE m = 0
    BY <2>1 DEF LeadBase
  <2>2. CASE m # 0
    <3>1. m \in Nat \ {0}
      BY <2>2
    <3>2. MoneyRound(b, m) \in Nat /\ m * cap \in Nat /\ (MoneyRound(b, m) > cap => m * cap <= b)
      BY <1>1, <3>1
    <3>3. QED
      BY <3>1, <3>2 DEF LeadBase
  <2>3. QED
    BY <2>1, <2>2
<1>3. LeadBase(b, n, cap) <= LeadBase(b, n + 1, cap)
  <2>1. LeadBase(b, n + 1, cap) \in Nat /\ n + 1 \in Nat \ {0}
    BY <1>2
  <2>2. CASE n = 0
    BY <2>1, <2>2 DEF LeadBase
  <2>3. CASE n # 0
    <3>1. n \in Nat \ {0}
      BY <2>3
    <3>2. /\ MoneyRound(b, n) \in Nat /\ MoneyRound(b, n + 1) \in Nat
          /\ MoneyRound(b, n + 1) <= MoneyRound(b, n)
      BY <1>1, <2>1, <3>1, RoundedLess
    <3>3. CASE MoneyRound(b, n) <= cap
      BY <3>1, <3>2, <3>3 DEF LeadBase
    <3>4. CASE MoneyRound(b, n) > cap
      <4>1. LeadBase(b, n, cap) = n * cap /\ n * cap <= b
        BY <1>1, <3>1, <3>2, <3>4 DEF LeadBase
      <4>2. LeadBase(b, n + 1, cap) \in {b, (n + 1) * cap}
        BY <2>1, <3>2 DEF LeadBase
      <4>3. n * cap \in Nat /\ (n + 1) * cap = n * cap + cap
        BY <3>1, ProductTyped
      <4>4. QED
        BY <4>1, <4>2, <4>3
    <3>5. QED
      BY <3>2, <3>3, <3>4
  <2>4. QED
    BY <2>2, <2>3
<1>4. QED
  BY <1>2, <1>3

\* The bonuses of n conversions.
BonusesOf(kpbs, n) == SumFunction([k \in DOMAIN kpbs |-> kpbs[k] * n])

LEMMA BonusesMore ==
  ASSUME NEW kpbs \in Seq(Nat), NEW n \in Nat
  PROVE  BonusesOf(kpbs, n) \in Nat /\ BonusesOf(kpbs, n) <= BonusesOf(kpbs, n + 1)
<1> DEFINE m == Len(kpbs)
           f == [k \in 1 .. m |-> kpbs[k] * n]
           g == [k \in 1 .. m |-> kpbs[k] * (n + 1)]
           one == 1
           none == 0
<1>1. m \in Nat /\ DOMAIN kpbs = 1 .. m /\ \A k \in 1 .. m : kpbs[k] \in Nat
  BY SeqElement
<1> HIDE DEF m
<1>2. IsFiniteSet(1 .. m) /\ Cardinality(1 .. m) \in Nat
  <2>1. IsFiniteSet(1 .. m)
    BY <1>1, FS_Interval
  <2>2. QED
    BY <2>1, FS_CardinalityType
<1>3. ASSUME NEW k \in 1 .. m
      PROVE  f[k] \in Nat /\ g[k] \in Nat /\ f[k] <= g[k]
  <2>1. kpbs[k] \in Nat
    BY <1>1
  <2>2. \A x \in Nat : x * n \in Nat /\ x * (n + 1) \in Nat /\ x * n <= x * (n + 1)
    OBVIOUS
  <2>3. QED
    BY <2>1, <2>2
<1>4. BonusesOf(kpbs, n) = SumFunctionOnSet(f, 1 .. m) /\ BonusesOf(kpbs, n + 1) = SumFunctionOnSet(g, 1 .. m)
  BY <1>1 DEF BonusesOf, SumFunction
<1> HIDE DEF f, g
<1>5. SumFunctionOnSet(f, 1 .. m) \in Nat /\ SumFunctionOnSet(g, 1 .. m) \in Nat
  <2>1. (\A k \in 1 .. m : f[k] \in Nat) /\ (\A k \in 1 .. m : g[k] \in Nat)
    BY <1>3
  <2>2. QED
    BY <1>2, <2>1, SumOfNats
<1>6. one * SumFunctionOnSet(f, 1 .. m) <= one * SumFunctionOnSet(g, 1 .. m) + none * Cardinality(1 .. m)
  <2>1. \A k \in 1 .. m : f[k] \in Nat /\ g[k] \in Nat /\ one * f[k] <= one * g[k] + none
    BY <1>3
  <2>2. one \in Nat /\ none \in Nat
    OBVIOUS
  <2> HIDE DEF one, none
  <2>3. QED
    BY <1>2, <2>1, <2>2, SumBounded
<1>7. QED
  BY <1>2, <1>4, <1>5, <1>6

\* A lead payout is the base and the bonuses, up to the allocation.
LEMMA LeadOf ==
  ASSUME NEW t \in Input, NEW n \in Nat, NEW kpbs \in Seq(Nat),
         t.leads = n, t.bonuses = [k \in DOMAIN kpbs |-> [amount |-> kpbs[k], triggers |-> n]]
  PROVE  LeadPayout(t).total = Smaller(LeadBase(t.budget, n, t.cap) + BonusesOf(kpbs, n), t.budget)
<1> DEFINE base == LeadBase(t.budget, n, t.cap)
           kpb == Total(t.bonuses, LAMBDA b : b.amount * b.triggers)
<1>1. t.budget \in Nat /\ t.cap \in Nat
  BY DEF Input
<1>2. kpb = BonusesOf(kpbs, n)
  <2>1. DOMAIN t.bonuses = DOMAIN kpbs
        /\ \A k \in DOMAIN kpbs : t.bonuses[k].amount = kpbs[k] /\ t.bonuses[k].triggers = n
    OBVIOUS
  <2>2. [k \in DOMAIN t.bonuses |-> t.bonuses[k].amount * t.bonuses[k].triggers]
          = [k \in DOMAIN kpbs |-> kpbs[k] * n]
    BY <2>1
  <2>3. QED
    BY <2>2 DEF Total, BonusesOf
<1>3. LeadPayout(t).total = base + KpbWithin(t.budget, base, kpb)
  BY DEF LeadPayout, Gross, LeadBase
<1>4. base \in Nat /\ base <= t.budget
  BY <1>1, LeadBaseMore
<1>5. kpb \in Nat
  BY <1>2, BonusesMore
<1> HIDE DEF base, kpb
<1>6. QED
  BY <1>1, <1>2, <1>3, <1>4, <1>5 DEF KpbWithin, Larger, Smaller, base

\* One more conversion never pays less, whatever the terms.
LEMMA PaysMore ==
  ASSUME NEW c, NEW a, Payable(c, a), NEW n \in Nat
  PROVE  Net(TalentInput(c, a, n)) <= Net(TalentInput(c, a, n + 1))
<1> DEFINE In(m) == TalentInput(c, a, m)
           bonuses(m) == [k \in DOMAIN c.kpbs |-> [amount |-> c.kpbs[k], triggers |-> m]]
           traffic == c.type = "direct_traffic"
<1>2. /\ c.type \in Pipelines /\ c.cpa \in Nat /\ c.kpbs \in Seq(Nat)
      /\ a.tier \in Nat /\ a.status \in AssignmentStatuses
  BY DEF Payable
<1>3. ASSUME NEW m \in Nat
      PROVE  /\ In(m) \in Input
             /\ In(m).budget = a.tier /\ In(m).status = a.status /\ In(m).pipeline = c.type
             /\ traffic => In(m).destinations = <<[conversions |-> m, cost |-> c.cpa]>>
             /\ ~traffic => In(m).leads = m /\ In(m).cap = c.cpa /\ In(m).bonuses = bonuses(m)
  BY InputIs
<1> HIDE DEF In, bonuses
<1>4. n + 1 \in Nat
  OBVIOUS
<1> DEFINE Pays(m) == IF traffic THEN Smaller(m * c.cpa, a.tier)
                      ELSE Smaller(LeadBase(a.tier, m, c.cpa) + BonusesOf(c.kpbs, m), a.tier)
<1>5. ASSUME NEW m \in Nat
      PROVE  GrossOf(In(m)).total = IF a.status = "removed_forfeit" THEN 0 ELSE Pays(m)
  <2> DEFINE t == In(m)
  <2>1. /\ t \in Input /\ t.budget = a.tier /\ t.status = a.status /\ t.pipeline = c.type
        /\ traffic => t.destinations = <<[conversions |-> m, cost |-> c.cpa]>>
        /\ ~traffic => t.leads = m /\ t.cap = c.cpa /\ t.bonuses = bonuses(m)
    BY <1>3
  <2> HIDE DEF t
  <2>2. ASSUME traffic PROVE TrafficPayout(t).total = Pays(m)
    <3>1. t.destinations = <<[conversions |-> m, cost |-> c.cpa]>> /\ c.cpa \in Nat
      BY <1>2, <2>1, <2>2
    <3>2. TrafficPayout(t).total = Smaller(m * c.cpa, t.budget)
      BY <2>1, <3>1, TrafficOfOne
    <3>3. QED
      BY <2>1, <2>2, <3>2
  <2>3. ASSUME ~traffic PROVE LeadPayout(t).total = Pays(m)
    <3>1. t.bonuses = [k \in DOMAIN c.kpbs |-> [amount |-> c.kpbs[k], triggers |-> m]]
      BY <2>1, <2>3 DEF bonuses
    <3>2. t.leads = m /\ t.cap = c.cpa
      BY <2>1, <2>3
    <3>3. LeadPayout(t).total = Smaller(LeadBase(t.budget, m, t.cap) + BonusesOf(c.kpbs, m), t.budget)
      BY <1>2, <2>1, <3>1, <3>2, LeadOf
    <3>4. QED
      BY <2>1, <2>3, <3>2, <3>3
  <2> HIDE DEF Pays
  <2>4. GrossOf(t).total = IF t.status = "removed_forfeit" THEN 0
                           ELSE IF t.pipeline = "direct_traffic" THEN TrafficPayout(t).total
                           ELSE LeadPayout(t).total
    BY DEF GrossOf, Gross
  <2>5. QED
    BY <2>1, <2>2, <2>3, <2>4 DEF t
<1>6. Pays(n) <= Pays(n + 1)
  <2>1. n * c.cpa \in Nat /\ (n + 1) * c.cpa = n * c.cpa + c.cpa
    <3>1. \A x, y \in Nat : (x + 1) * y = x * y + y
      OBVIOUS
    <3>2. c.cpa \in Nat
      BY <1>2
    <3>3. n * c.cpa \in Nat
      BY <3>2, ProductTyped
    <3>4. QED
      BY <3>1, <3>2, <3>3
  <2>2. /\ LeadBase(a.tier, n, c.cpa) \in Nat /\ LeadBase(a.tier, n + 1, c.cpa) \in Nat
        /\ LeadBase(a.tier, n, c.cpa) <= LeadBase(a.tier, n + 1, c.cpa)
    BY <1>2, <1>4, LeadBaseMore
  <2>3. /\ BonusesOf(c.kpbs, n) \in Nat /\ BonusesOf(c.kpbs, n + 1) \in Nat
        /\ BonusesOf(c.kpbs, n) <= BonusesOf(c.kpbs, n + 1)
    BY <1>2, <1>4, BonusesMore
  <2>4. \A x, y, z \in Nat : x <= y => Smaller(x, z) <= Smaller(y, z)
    BY DEF Smaller
  <2>5. CASE traffic
    <3>1. (n + 1) * c.cpa \in Nat /\ n * c.cpa <= (n + 1) * c.cpa
      BY <1>2, <2>1
    <3>2. Smaller(n * c.cpa, a.tier) <= Smaller((n + 1) * c.cpa, a.tier)
      BY <1>2, <2>1, <2>4, <3>1
    <3>3. QED
      BY <2>5, <3>2
  <2>6. CASE ~traffic
    <3> DEFINE x == LeadBase(a.tier, n, c.cpa) + BonusesOf(c.kpbs, n)
               y == LeadBase(a.tier, n + 1, c.cpa) + BonusesOf(c.kpbs, n + 1)
    <3>1. x \in Nat /\ y \in Nat /\ x <= y
      BY <2>2, <2>3
    <3>2. Smaller(x, a.tier) <= Smaller(y, a.tier)
      <4> HIDE DEF x, y
      <4>1. QED
        BY <1>2, <2>4, <3>1
    <3>3. QED
      BY <2>6, <3>2
  <2>7. QED
    BY <2>5, <2>6
<1>7. GrossOf(In(n)).total <= GrossOf(In(n + 1)).total
  <2> HIDE DEF Pays
  <2>1. QED
    BY <1>4, <1>5, <1>6
<1> DEFINE g == GrossOf(In(n)).total
           h == GrossOf(In(n + 1)).total
<1>8. g \in Nat /\ h \in Nat
  BY <1>3, <1>4, GrossTyped
<1> HIDE DEF g, h
<1>9. MoneyRound(7 * g, 10) <= MoneyRound(7 * h, 10)
  <2>1. 7 * g \in Nat /\ 7 * h \in Nat /\ 7 * g <= 7 * h
    BY <1>7, <1>8 DEF g, h
  <2>2. QED
    BY <2>1, RoundedMore
<1>10. QED
  BY <1>9 DEF Net, g, h, In

\* One more conversion never pays a talent less, although a cap replaces the
\* allocation on the way (internal/algo/payout.go, P.2 and P.3).
THEOREM ConversionsPay ==
  \A c \in CycleTerms : \A i \in DOMAIN c.assigned, n \in Nat : OneMoreNeverCosts(c, c.assigned[i], n)
<1>1. SUFFICES ASSUME NEW c \in CycleTerms, NEW i \in DOMAIN c.assigned, NEW n \in Nat
               PROVE  OneMoreNeverCosts(c, c.assigned[i], n)
  OBVIOUS
<1>2. c \in [type : Pipelines, pool : Int, cpa : Nat, kpbs : Seq(Nat), assigned : Assignments]
  BY SettlementAssumption
<1>3. c.assigned \in Seq([talent : Talents, tier : Nat, status : AssignmentStatuses]) /\ i \in 1 .. Len(c.assigned)
  BY <1>2 DEF Assignments
<1>4. c.assigned[i] \in [talent : Talents, tier : Nat, status : AssignmentStatuses]
  BY <1>3, SeqElement
<1>5. Payable(c, c.assigned[i])
  BY <1>2, <1>4 DEF Payable
<1>6. QED
  BY <1>5, PaysMore DEF OneMoreNeverCosts

-----------------------------------------------------------------------------
(* What the tiers share out of a budget, and the configuration that is *)
(* suggested for the next cycle                                        *)

LEMMA MaxOf == ASSUME NEW m \in Int, NEW n \in Int PROVE Max({m, n}) = IF m >= n THEN m ELSE n
<1> DEFINE x == IF m >= n THEN m ELSE n
<1>1. x \in {m, n} /\ \A y \in {m, n} : x >= y
  OBVIOUS
<1>2. ASSUME NEW z \in {m, n}, \A y \in {m, n} : z >= y PROVE z = x
  BY <1>2
<1> HIDE DEF x
<1>3. QED
  BY <1>1, <1>2 DEF Max, x

LEMMA MinOf == ASSUME NEW m \in Int, NEW n \in Int PROVE Min({m, n}) = IF m <= n THEN m ELSE n
<1> DEFINE x == IF m <= n THEN m ELSE n
<1>1. x \in {m, n} /\ \A y \in {m, n} : x =< y
  OBVIOUS
<1>2. ASSUME NEW z \in {m, n}, \A y \in {m, n} : z =< y PROVE z = x
  BY <1>2
<1> HIDE DEF x
<1>3. QED
  BY <1>1, <1>2 DEF Min, x

LEMMA Division ==
  ASSUME NEW x \in Int, NEW k \in Nat \ {0}
  PROVE  x \div k \in Int /\ x % k \in 0 .. k - 1 /\ x % k = x - k * (x \div k)
OBVIOUS

LEMMA TimesWhole ==
  ASSUME NEW q \in Int, NEW k \in Nat \ {0}
  PROVE  q * k \in Int /\ (q * k) % k = 0
<1> DEFINE d == (q * k) \div k
           r == (q * k) % k
<1>1. d \in Int /\ r \in 0 .. k - 1 /\ r = q * k - k * d
  <2>1. q * k \in Int
    OBVIOUS
  <2>2. QED
    BY <2>1, Division
<1> HIDE DEF d, r
<1>2. r = k * (q - d)
  BY <1>1
<1>3. CASE q - d = 0
  BY <1>2, <1>3 DEF r
<1>4. CASE q - d >= 1
  <2>1. k * (q - d) >= k
    BY <1>1, <1>4
  <2>2. QED
    BY <1>1, <1>2, <2>1
<1>5. CASE q - d <= -1
  <2>1. k * (q - d) <= -k
    BY <1>1, <1>5
  <2>2. QED
    BY <1>1, <1>2, <2>1
<1>6. QED
  BY <1>1, <1>3, <1>4, <1>5

\* Rounding a multiple down leaves it, and its neighbours are multiples.
LEMMA Multiples ==
  ASSUME NEW m \in Int, NEW k \in Nat \ {0}, m % k = 0
  PROVE  (m \div k) * k = m /\ (m + k) % k = 0 /\ (m - k) % k = 0
<1> DEFINE q == m \div k
<1>1. q \in Int /\ m = q * k
  BY Division
<1> HIDE DEF q
<1>2. (q + 1) * k = m + k /\ (q - 1) * k = m - k
  BY <1>1
<1>3. ((q + 1) * k) % k = 0 /\ ((q - 1) * k) % k = 0
  BY <1>1, TimesWhole
<1>4. QED
  BY <1>1, <1>2, <1>3 DEF q

\* What Validate says, with the remainders behind a name.
Multiple(m, k) == m % k = 0

Valid(c) ==
  /\ c.tier_increment > 0 /\ c.min_tier > 0 /\ c.min_tier <= c.max_tier_cap
  /\ Multiple(c.min_tier, c.tier_increment) /\ Multiple(c.max_tier_cap, c.tier_increment)
  /\ c.budget_share_pct > 0 /\ c.budget_share_pct <= 10000
  /\ c.score_cap_pct > 0 /\ c.score_cap_pct <= 1000

LEMMA ValidIs == ASSUME NEW c PROVE Validate(c) <=> Valid(c)
BY SMT DEF Validate, Valid, Multiple

LEMMA Neighbours ==
  ASSUME NEW m \in Int, NEW k \in Nat \ {0}, Multiple(m, k)
  PROVE  (m \div k) * k = m /\ Multiple(m + k, k) /\ Multiple(m - k, k)
<1>1. m % k = 0
  BY DEF Multiple
<1>2. (m \div k) * k = m /\ (m + k) % k = 0 /\ (m - k) % k = 0
  BY <1>1, Multiples
<1>3. QED
  BY <1>2, Zenon DEF Multiple

\* A valid configuration after another, with the same increment.
Follows(c, d) == d \in ConfigTerms /\ Valid(d) /\ d.tier_increment = c.tier_increment

LEMMA LowerCapFollows ==
  ASSUME NEW c \in ConfigTerms, Valid(c), NEW cap \in Int, Multiple(cap, c.tier_increment)
  PROVE  LET d == LowerCap(c, cap)
         IN  Follows(c, d) /\ d.min_tier = c.min_tier /\ d.max_tier_cap <= c.max_tier_cap
BY DEF LowerCap, Follows, Valid, ConfigTerms

LEMMA UtilizationFollows ==
  ASSUME NEW c \in ConfigTerms, Valid(c), NEW direction, NEW budget \in Int
  PROVE  LET d == ApplyUtilization(c, direction, budget)
         IN  /\ Follows(c, d) /\ d.min_tier = c.min_tier
             /\ d.max_tier_cap <= IF direction = "decrease" THEN c.max_tier_cap
                                  ELSE c.max_tier_cap + c.tier_increment
<1> DEFINE k == c.tier_increment
           funds == budget * c.budget_share_pct * 85
           divisor == 1000000 * k
           q == funds \div divisor
<1>1. k \in Nat \ {0} /\ c.max_tier_cap \in Int
  BY DEF Valid, ConfigTerms
<1>2. q * k \in Int /\ Multiple(q * k, k)
  <2>1. funds \in Int /\ divisor \in Nat \ {0}
    BY <1>1 DEF ConfigTerms
  <2> HIDE DEF funds, divisor, k
  <2>2. q \in Int
    BY <2>1, Division
  <2> HIDE DEF q
  <2>3. q * k \in Int /\ (q * k) % k = 0
    BY <1>1, <2>2, TimesWhole
  <2>4. QED
    BY <2>3, Zenon DEF Multiple
<1>3. CASE direction = "decrease"
  <2>1. ApplyUtilization(c, direction, budget) = LowerCap(c, q * k)
    BY <1>3 DEF ApplyUtilization
  <2> HIDE DEF q
  <2>2. QED
    BY <1>2, <1>3, <2>1, LowerCapFollows
<1>4. CASE direction = "increase"
  <2> DEFINE cap == c.max_tier_cap + k
             d == [c EXCEPT !.max_tier_cap = cap]
  <2>1. cap \in Int /\ Multiple(cap, k) /\ c.min_tier <= cap
    <3>1. Multiple(c.max_tier_cap, k) /\ c.min_tier <= c.max_tier_cap /\ c.min_tier \in Int
      BY DEF Valid, ConfigTerms
    <3>2. Multiple(cap, k)
      <4> HIDE DEF k
      <4>1. QED
        BY <1>1, <3>1, Neighbours
    <3>3. QED
      BY <1>1, <3>1, <3>2
  <2>2. ApplyUtilization(c, direction, budget) = d
    BY <1>4 DEF ApplyUtilization
  <2> HIDE DEF cap
  <2>3. Valid(d) /\ d \in ConfigTerms /\ d.tier_increment = k /\ d.min_tier = c.min_tier /\ d.max_tier_cap = cap
    BY <2>1 DEF Valid, ConfigTerms
  <2>4. cap <= c.max_tier_cap + k
    BY <1>1 DEF cap
  <2> HIDE DEF d
  <2>5. QED
    BY <1>4, <2>2, <2>3, <2>4 DEF Follows
<1>5. CASE direction \notin {"decrease", "increase"}
  <2>1. ApplyUtilization(c, direction, budget) = c
    BY <1>5 DEF ApplyUtilization
  <2>2. c.max_tier_cap <= c.max_tier_cap + k
    BY <1>1
  <2>3. QED
    BY <1>5, <2>1, <2>2 DEF Follows
<1>6. QED
  BY <1>3, <1>4, <1>5

LEMMA WasteFollows ==
  ASSUME NEW c \in ConfigTerms, Valid(c), NEW direction
  PROVE  LET d == ApplyWaste(c, direction)
         IN  Follows(c, d) /\ d.min_tier = c.min_tier /\ d.max_tier_cap = c.max_tier_cap
<1> DEFINE share == c.budget_share_pct
           less == (share * 90) \div 100
           more == (share * 105) \div 100
           Share(x) == x \in Int /\ x > 0 /\ x <= 10000
<1>1. share \in Int /\ share > 0 /\ share <= 10000
  BY DEF Valid, ConfigTerms
<1>2. less \in Int /\ more \in Int /\ less <= 10000 /\ more >= 1
  <2> HIDE DEF share
  <2>1. QED
    BY <1>1
<1> HIDE DEF less, more
<1>3. Share(Max({500, less})) /\ Share(Min({10000, more}))
  <2>1. /\ Max({500, less}) = IF 500 >= less THEN 500 ELSE less
        /\ Min({10000, more}) = IF 10000 <= more THEN 10000 ELSE more
    BY <1>2, MaxOf, MinOf
  <2>2. QED
    BY <1>2, <2>1
<1>4. \/ ApplyWaste(c, direction) = c
      \/ ApplyWaste(c, direction) = [c EXCEPT !.budget_share_pct = Max({500, less})]
      \/ ApplyWaste(c, direction) = [c EXCEPT !.budget_share_pct = Min({10000, more})]
  BY DEF ApplyWaste, less, more
<1>5. ASSUME NEW x, Share(x), ApplyWaste(c, direction) = [c EXCEPT !.budget_share_pct = x]
      PROVE  LET d == ApplyWaste(c, direction)
             IN  Follows(c, d) /\ d.min_tier = c.min_tier /\ d.max_tier_cap = c.max_tier_cap
  BY <1>5 DEF Follows, Valid, ConfigTerms
<1> HIDE DEF Share
<1>6. QED
  BY <1>3, <1>4, <1>5 DEF Follows

LEMMA UnassignmentFollows ==
  ASSUME NEW c \in ConfigTerms, Valid(c), NEW direction
  PROVE  LET d == ApplyUnassignment(c, direction)
         IN  /\ Follows(c, d) /\ d.max_tier_cap = c.max_tier_cap
             /\ d.min_tier \in {c.min_tier, c.min_tier - c.tier_increment}
<1>1. Multiple(c.min_tier - c.tier_increment, c.tier_increment)
  BY Neighbours DEF Valid, ConfigTerms
<1>2. QED
  BY <1>1 DEF ApplyUnassignment, Follows, Valid, ConfigTerms

LEMMA PerformanceFollows ==
  ASSUME NEW c \in ConfigTerms, Valid(c), NEW direction
  PROVE  LET d == ApplyPerformance(c, direction)
         IN  Follows(c, d) /\ d.min_tier = c.min_tier /\ d.max_tier_cap <= c.max_tier_cap
<1>0. c.max_tier_cap \in Int /\ c.tier_increment \in Nat \ {0} /\ c.score_cap_pct \in Int /\ c.score_cap_pct > 0
  BY DEF Valid, ConfigTerms
<1>1. CASE direction = "increase"
  <2> DEFINE x == Min({1000, c.score_cap_pct + 25})
  <2>1. x \in Int /\ x > 0 /\ x <= 1000
    <3>1. c.score_cap_pct + 25 \in Int /\ c.score_cap_pct + 25 >= 1
      BY <1>0
    <3>2. x = IF 1000 <= c.score_cap_pct + 25 THEN 1000 ELSE c.score_cap_pct + 25
      BY <3>1, MinOf
    <3>3. QED
      BY <3>1, <3>2
  <2>2. ApplyPerformance(c, direction) = [c EXCEPT !.score_cap_pct = x]
    BY <1>1 DEF ApplyPerformance
  <2> HIDE DEF x
  <2>3. QED
    BY <2>1, <2>2 DEF Follows, Valid, ConfigTerms
<1>2. CASE direction = "decrease"
  <2>1. c.max_tier_cap - c.tier_increment \in Int /\ Multiple(c.max_tier_cap - c.tier_increment, c.tier_increment)
    BY <1>0, Neighbours DEF Valid
  <2>2. ApplyPerformance(c, direction) = LowerCap(c, c.max_tier_cap - c.tier_increment)
    BY <1>2 DEF ApplyPerformance
  <2>3. QED
    BY <2>1, <2>2, LowerCapFollows
<1>3. CASE direction \notin {"increase", "decrease"}
  <2>1. ApplyPerformance(c, direction) = c
    BY <1>3 DEF ApplyPerformance
  <2>2. QED
    BY <1>0, <2>1 DEF Follows
<1>4. QED
  BY <1>1, <1>2, <1>3

LEMMA Clamped ==
  ASSUME NEW x \in Int, NEW low \in Int, NEW high \in Int, 0 < low, low <= high
  PROVE  Clamp(x, low, high) \in Int /\ Clamp(x, low, high) > 0 /\ Clamp(x, low, high) <= high
<1> DEFINE y == Min({x, high})
<1>1. y = (IF x <= high THEN x ELSE high)
  BY MinOf
<1>2. y \in Int /\ y <= high
  BY <1>1
<1> HIDE DEF y
<1>3. Max({low, y}) = IF low >= y THEN low ELSE y
  BY <1>2, MaxOf
<1>4. Clamp(x, low, high) = Max({low, y})
  BY DEF Clamp, y
<1>5. QED
  BY <1>2, <1>3, <1>4

\* The clamp moves no tier of a valid configuration.
LEMMA ClampFollows ==
  ASSUME NEW c \in ConfigTerms, Valid(c)
  PROVE  LET d == ClampConfig(c)
         IN  Follows(c, d) /\ d.min_tier = c.min_tier /\ d.max_tier_cap = c.max_tier_cap
<1> DEFINE k == c.tier_increment
           m == c.min_tier
           n == c.max_tier_cap
           share == Clamp(c.budget_share_pct, 500, 10000)
           score == Clamp(c.score_cap_pct, 50, 1000)
<1>1. /\ k \in Nat \ {0} /\ m \in Nat \ {0} /\ n \in Nat
      /\ Multiple(m, k) /\ Multiple(n, k) /\ m <= n
  BY DEF Valid, ConfigTerms
<1>2. c.budget_share_pct \in Int /\ c.score_cap_pct \in Int
  BY DEF ConfigTerms
<1> HIDE DEF k, m, n
<1>3. (m \div k) * k = m /\ (n \div k) * k = n
  BY <1>1, Neighbours
<1>4. m >= k
  <2> DEFINE q == m \div k
  <2>1. q \in Int /\ q * k = m
    BY <1>1, <1>3, Division
  <2> HIDE DEF q
  <2>2. q >= 1
    BY <1>1, <2>1
  <2>3. QED
    BY <1>1, <2>1, <2>2
<1>5. Max({m, k}) = m /\ Max({n, m}) = n
  <2>1. k \in Int /\ m \in Int /\ n \in Int
    BY <1>1
  <2>2. Max({m, k}) = (IF m >= k THEN m ELSE k) /\ Max({n, m}) = (IF n >= m THEN n ELSE m)
    BY <2>1, MaxOf
  <2>3. QED
    BY <1>1, <1>4, <2>1, <2>2
<1>6. share \in Int /\ share > 0 /\ share <= 10000 /\ score \in Int /\ score > 0 /\ score <= 1000
  <2> DEFINE x == c.budget_share_pct
             y == c.score_cap_pct
  <2>1. x \in Int /\ y \in Int
    BY <1>2
  <2> HIDE DEF x, y
  <2>2. Clamp(x, 500, 10000) \in Int /\ Clamp(x, 500, 10000) > 0 /\ Clamp(x, 500, 10000) <= 10000
    BY <2>1, Clamped
  <2>3. Clamp(y, 50, 1000) \in Int /\ Clamp(y, 50, 1000) > 0 /\ Clamp(y, 50, 1000) <= 1000
    BY <2>1, Clamped
  <2>4. QED
    BY <2>2, <2>3 DEF x, y
<1> HIDE DEF share, score
<1>7. ClampConfig(c) = [c EXCEPT !.min_tier = m, !.max_tier_cap = n,
                                 !.budget_share_pct = share, !.score_cap_pct = score]
  <2>1. ClampConfig(c) =
          [c EXCEPT !.min_tier = (Max({m, k}) \div k) * k,
                    !.max_tier_cap = Max({(n \div k) * k, (Max({m, k}) \div k) * k}),
                    !.budget_share_pct = share, !.score_cap_pct = score]
    BY DEF ClampConfig, k, m, n, share, score
  <2>2. QED
    BY <1>3, <1>5, <2>1
<1> DEFINE d == ClampConfig(c)
<1>8. /\ d \in ConfigTerms /\ d.tier_increment = k /\ d.min_tier = m /\ d.max_tier_cap = n
      /\ d.budget_share_pct = share /\ d.score_cap_pct = score
  <2>1. m \in Int /\ n \in Int
    BY <1>1
  <2>2. d \in ConfigTerms
    <3> DEFINE e1 == [c EXCEPT !.min_tier = m]
               e2 == [e1 EXCEPT !.max_tier_cap = n]
               e3 == [e2 EXCEPT !.budget_share_pct = share]
               e4 == [e3 EXCEPT !.score_cap_pct = score]
    <3>1. e1 \in ConfigTerms
      BY <2>1 DEF ConfigTerms
    <3>2. d = e4
      BY <1>7
    <3> HIDE DEF e1, d
    <3>3. e2 \in ConfigTerms
      BY <2>1, <3>1 DEF ConfigTerms
    <3> HIDE DEF e2
    <3>4. e3 \in ConfigTerms
      BY <1>6, <3>3 DEF ConfigTerms
    <3> HIDE DEF e3
    <3>5. e4 \in ConfigTerms
      BY <1>6, <3>4 DEF ConfigTerms
    <3>6. QED
      BY <3>2, <3>5
  <2>3. d.min_tier = m /\ d.max_tier_cap = n /\ d.tier_increment = k
    BY <1>7 DEF ConfigTerms, k
  <2>4. d.budget_share_pct = share /\ d.score_cap_pct = score
    BY <1>7 DEF ConfigTerms
  <2>5. QED
    BY <2>2, <2>3, <2>4
<1> HIDE DEF d
<1>9. Valid(d)
  BY <1>1, <1>6, <1>8 DEF Valid
<1>10. QED
  BY <1>8, <1>9 DEF Follows, d, k, m, n

\* Whatever the four adjustments make of each other, the configuration that is
\* suggested after a valid one is valid and one step from it: the cap rises by
\* an increment at most, and not at all where utilisation is low
\* (internal/algo/cap_suggest.go, suggestConfig and clampConfig).
THEOREM SuggestionCorrect ==
  \A c \in ConfigTerms, history \in Histories, budget \in Int :
    Validate(c) => OneStepFrom(c, history, SuggestConfig(c, history, budget))
<1>1. SUFFICES ASSUME NEW c \in ConfigTerms, NEW history \in Histories, NEW budget \in Int, Valid(c)
               PROVE  OneStepFrom(c, history, SuggestConfig(c, history, budget))
  BY ValidIs
<1> DEFINE utilisation == AnalyzeUtilization(history.utilization)
           waste == AnalyzeWaste(history.waste)
           unassignment == AnalyzeUnassignment(history.unassigned)
           performance == AnalyzePerformance(history.performance, c)
           utilised == ApplyUtilization(c, utilisation, budget)
           shared == ApplyWaste(utilised, waste)
           assigned == ApplyUnassignment(shared, unassignment)
           performed == ApplyPerformance(assigned, performance)
<1>2. SuggestConfig(c, history, budget) = ClampConfig(performed)
  BY DEF SuggestConfig
<1>3. utilisation = AnalyzeUtilization(history.utilization)
  OBVIOUS
<1> HIDE DEF utilisation, waste, unassignment, performance
<1>4. /\ Follows(c, utilised) /\ utilised.min_tier = c.min_tier
      /\ utilised.max_tier_cap <= IF utilisation = "decrease" THEN c.max_tier_cap
                                  ELSE c.max_tier_cap + c.tier_increment
  BY <1>1, UtilizationFollows
<1> HIDE DEF utilised
<1>5. Follows(utilised, shared) /\ shared.min_tier = utilised.min_tier /\ shared.max_tier_cap = utilised.max_tier_cap
  BY <1>4, WasteFollows DEF Follows
<1> HIDE DEF shared
<1>6. /\ Follows(shared, assigned) /\ assigned.max_tier_cap = shared.max_tier_cap
      /\ assigned.min_tier \in {shared.min_tier, shared.min_tier - shared.tier_increment}
  BY <1>5, UnassignmentFollows DEF Follows
<1> HIDE DEF assigned
<1>7. Follows(assigned, performed) /\ performed.min_tier = assigned.min_tier
      /\ performed.max_tier_cap <= assigned.max_tier_cap
  BY <1>6, PerformanceFollows DEF Follows
<1> HIDE DEF performed
<1>8. LET d == ClampConfig(performed)
      IN  Follows(performed, d) /\ d.min_tier = performed.min_tier /\ d.max_tier_cap = performed.max_tier_cap
  BY <1>7, ClampFollows DEF Follows
<1> DEFINE d == ClampConfig(performed)
<1>9. /\ Valid(d) /\ d.min_tier \in {c.min_tier, c.min_tier - c.tier_increment}
      /\ d.max_tier_cap = performed.max_tier_cap
  BY <1>4, <1>5, <1>6, <1>7, <1>8 DEF Follows
<1>10. performed.max_tier_cap <= IF utilisation = "decrease" THEN c.max_tier_cap
                                 ELSE c.max_tier_cap + c.tier_increment
  <2>1. /\ performed.max_tier_cap \in Int /\ utilised.max_tier_cap \in Int /\ c.max_tier_cap \in Int
        /\ c.tier_increment \in Int
    BY <1>1, <1>4, <1>7 DEF Follows, ConfigTerms
  <2>2. performed.max_tier_cap <= utilised.max_tier_cap
    BY <1>5, <1>6, <1>7
  <2>3. CASE utilisation = "decrease"
    BY <1>4, <2>1, <2>2, <2>3
  <2>4. CASE utilisation # "decrease"
    BY <1>4, <2>1, <2>2, <2>4
  <2>5. QED
    BY <2>3, <2>4
<1> HIDE DEF d
<1>11. QED
  BY <1>2, <1>3, <1>9, <1>10, ValidIs DEF OneStepFrom, d

\* Neither way to scale gives a tier more than its weight of the budget.
LEMMA ScaledCost ==
  ASSUME NEW d \in Nat, NEW t \in Nat \ {0}, NEW total \in Nat \ {0}, NEW budget \in Nat
  PROVE  LET q == IF total > budget THEN ((d * budget) * budget) \div (total * total * t)
                  ELSE (d * budget) \div (total * t)
         IN  q \in Nat /\ total * (q * t) <= budget * d
<1> DEFINE share == d * budget
           scaled == (share * budget) \div (total * total * t)
           plain == share \div (total * t)
<1>1. \A x \in Nat, y \in Nat \ {0} : x \div y \in Nat /\ (x \div y) * y <= x
  OBVIOUS
<1>2. \A x, y \in Nat \ {0} : x * y \in Nat \ {0}
  OBVIOUS
<1>3. share \in Nat /\ share * budget \in Nat /\ share = budget * d
  OBVIOUS
<1> HIDE DEF share
<1>4. total * t \in Nat \ {0} /\ total * total \in Nat \ {0} /\ total * total * t \in Nat \ {0}
  BY <1>2
<1>5. CASE total <= budget
  <2>1. plain \in Nat /\ plain * (total * t) <= share
    BY <1>1, <1>3, <1>4
  <2> HIDE DEF plain
  <2>2. plain * (total * t) = total * (plain * t)
    BY <2>1
  <2>3. QED
    BY <1>3, <1>5, <2>1, <2>2 DEF plain, share
<1>6. CASE total > budget
  <2>1. scaled \in Nat /\ scaled * (total * total * t) <= share * budget
    BY <1>1, <1>3, <1>4
  <2> HIDE DEF scaled
  <2> DEFINE cost == total * (scaled * t)
  <2>2. scaled * (total * total * t) = total * cost /\ cost \in Nat
    BY <2>1
  <2> HIDE DEF cost
  <2>3. share * budget <= total * share
    <3>1. total - budget \in Nat /\ (total - budget) * share \in Nat
      BY <1>3, <1>6
    <3>2. total * share = share * budget + (total - budget) * share
      BY <1>3
    <3>3. QED
      BY <1>3, <3>1, <3>2
  <2>4. total * cost <= total * share
    <3>1. total * cost \in Nat /\ total * share \in Nat
      BY <1>3, <2>2
    <3>2. QED
      BY <1>3, <2>1, <2>2, <2>3, <3>1
  <2>5. cost <= share
    BY <1>3, <2>2, <2>4, Cancelled
  <2>6. QED
    BY <1>3, <1>6, <2>1, <2>5 DEF cost, scaled, share
<1>7. QED
  BY <1>5, <1>6

\* Whoever asks for which tier, the slots that share out a budget never cost
\* more than it (internal/algo/waterfall.go, RunWaterfall).
THEOREM SharesCorrect ==
  \A c \in ConfigTerms, budget \in Nat, D \in SUBSET Int : \A talents \in [D -> Int] :
    Validate(c) /\ IsFiniteSet(D) => Affordable(RunWaterfall(c, budget, talents), budget)
<1>1. SUFFICES ASSUME NEW c \in ConfigTerms, NEW budget \in Nat, NEW D \in SUBSET Int,
                      NEW talents \in [D -> Int], Valid(c), IsFiniteSet(D)
               PROVE  Affordable(RunWaterfall(c, budget, talents), budget)
  BY ValidIs
<1> DEFINE demand == DemandOf(c, budget, talents)
           E == DOMAIN demand
           total == TotalDemand(demand)
           shares == RunWaterfall(c, budget, talents)
           costs == [t \in E |-> shares[t] * t]
           P == SumFunctionOnSet(costs, E)
<1>2. /\ E \subseteq D /\ \A t \in E : t \in Nat \ {0} /\ demand[t] \in Nat \ {0}
  <2> DEFINE F == {t \in DOMAIN talents : /\ talents[t] > 0 /\ t >= c.min_tier /\ t <= c.max_tier_cap
                                          /\ 10000 * t <= budget * c.budget_share_pct}
  <2>1. demand = [t \in F |-> talents[t] * t]
    BY DEF DemandOf
  <2>2. \A t \in F : t \in D /\ t >= c.min_tier /\ talents[t] > 0 /\ talents[t] \in Int /\ t \in Int
    OBVIOUS
  <2> HIDE DEF F, demand
  <2>3. c.min_tier \in Int /\ c.min_tier > 0
    BY <1>1 DEF Valid, ConfigTerms
  <2>4. \A x, y \in Nat \ {0} : x * y \in Nat \ {0}
    OBVIOUS
  <2>5. \A t \in F : t \in Nat \ {0} /\ talents[t] \in Nat \ {0}
    BY <2>2, <2>3
  <2>6. E = F /\ \A t \in F : demand[t] = talents[t] * t
    BY <2>1
  <2>7. QED
    BY <2>2, <2>4, <2>5, <2>6
<1>3. IsFiniteSet(E)
  BY <1>1, <1>2, FS_Subset
<1>4. shares = [t \in E |-> SlotCount(demand, budget, t)]
  BY DEF RunWaterfall
<1>5. total = SumFunctionOnSet(demand, E)
  BY DEF TotalDemand, SumFunction
<1>6. total \in Nat
  BY <1>2, <1>3, <1>5, SumOfNats
<1>7. Affordable(shares, budget) <=> P <= budget
  BY <1>4 DEF Affordable, SumFunction
<1>8. ASSUME NEW t \in E, total # 0
      PROVE  /\ SlotCount(demand, budget, t) \in Nat
             /\ total * (SlotCount(demand, budget, t) * t) <= budget * demand[t]
  <2> DEFINE d == demand[t]
             q == IF total > budget THEN ((d * budget) * budget) \div (total * total * t)
                  ELSE (d * budget) \div (total * t)
  <2>1. SlotCount(demand, budget, t) = q
    BY DEF SlotCount
  <2> HIDE DEF demand, E, total
  <2>2. d \in Nat /\ t \in Nat \ {0} /\ total \in Nat \ {0}
    BY <1>2, <1>6, <1>8
  <2> HIDE DEF d
  <2>3. q \in Nat /\ total * (q * t) <= budget * d
    BY <2>2, ScaledCost, Zenon
  <2> HIDE DEF q
  <2>4. QED
    BY <2>1, <2>3 DEF d
<1>9. \A t \in E : costs[t] = SlotCount(demand, budget, t) * t
  BY <1>4
<1> HIDE DEF demand, E, total, shares, costs
<1>10. CASE E = {}
  <2>1. P = 0
    BY <1>3, <1>10, SumStep
  <2>2. QED
    BY <1>7, <2>1 DEF shares
<1>11. CASE E # {}
  <2>1. total # 0
    <3>1. PICK t \in E : TRUE
      BY <1>11
    <3>2. total = demand[t] + SumFunctionOnSet(demand, E \ {t})
      BY <1>2, <1>3, <1>5, SumOfNats
    <3>3. IsFiniteSet(E \ {t}) /\ \A u \in E \ {t} : demand[u] \in Nat
      BY <1>2, <1>3, FS_Subset
    <3>4. SumFunctionOnSet(demand, E \ {t}) \in Nat
      BY <3>3, SumOfNats
    <3>5. QED
      BY <1>2, <3>2, <3>4
  <2>2. ASSUME NEW t \in E
        PROVE  costs[t] \in Nat /\ demand[t] \in Nat /\ total * costs[t] <= budget * demand[t] + 0
    <3>1. t \in Nat /\ demand[t] \in Nat
      BY <1>2
    <3>2. SlotCount(demand, budget, t) \in Nat /\ total * (SlotCount(demand, budget, t) * t) <= budget * demand[t]
      BY <1>8, <2>1
    <3>3. SlotCount(demand, budget, t) * t \in Nat /\ budget * demand[t] \in Nat
      BY <3>1, <3>2, ProductTyped
    <3>4. QED
      BY <1>9, <3>1, <3>2, <3>3
  <2>3. P \in Nat
    BY <1>3, <2>2, SumOfNats
  <2>4. Cardinality(E) \in Nat
    BY <1>3, FS_CardinalityType
  <2>5. total * P <= budget * total + 0 * Cardinality(E)
    BY <1>3, <1>5, <1>6, <2>2, SumBounded
  <2> HIDE DEF P
  <2>6. total * P <= total * budget
    <3>1. budget * total = total * budget /\ 0 * Cardinality(E) = 0 /\ total * budget \in Nat
      BY <1>6, <2>4
    <3>2. QED
      BY <2>5, <3>1
  <2>7. P <= budget
    BY <1>6, <2>1, <2>3, <2>6, Cancelled
  <2>8. QED
    BY <1>7, <2>7 DEF shares
<1>12. QED
  BY <1>10, <1>11

-----------------------------------------------------------------------------
(* Questions and answers *)

\* Every answer is the algorithm's, to a question that can be asked.
AnswerInv == question \in Questions /\ (answer = <<>> \/ answer = <<Answer>>)

LEMMA AnswersAlways == AlgorithmsSpec => []AnswerInv
<1>1. question \in Questions /\ answer = <<>> => AnswerInv
  BY DEF AnswerInv
<1>2. AnswerInv /\ [Compute]_<<question, answer>> => AnswerInv'
  <2> SUFFICES ASSUME AnswerInv, [Compute]_<<question, answer>> PROVE AnswerInv'
    OBVIOUS
  <2>1. question' = question
    BY DEF Compute
  <2>2. Answer' = Answer
    BY <2>1 DEF Answer, Inputs
  <2>3. answer' = answer \/ answer' = <<Answer>>
    BY DEF Compute
  <2>4. QED
    BY <2>1, <2>2, <2>3 DEF AnswerInv
<1>3. QED
  BY <1>1, <1>2, PTL DEF AlgorithmsSpec

\* An answered question of a kind has the answer of its algorithm.
LEMMA AnswerIs ==
  ASSUME AnswerInv, NEW kind, Answered(kind)
  PROVE  /\ question.kind = kind /\ answer = <<Answer>> /\ answer[1] = Answer
         /\ kind = "payouts" => question \in PayoutQuestions /\ Answer = ComputeCyclePayout(Inputs, question.cycle.pool)
         /\ kind = "rating" => /\ question \in RatingQuestions
                               /\ Answer = Anomaly(question.outputs, question.tier, question.cpa, question.days)
         /\ kind = "waterfall" => /\ question \in WaterfallQuestions
                                  /\ Answer = RunWaterfall(question.config, question.budget, question.talents)
         /\ kind = "suggestion" => /\ question \in SuggestionQuestions
                                   /\ Answer = SuggestConfig(question.config, question.history, question.budget)
<1>1. question.kind = kind /\ answer = <<Answer>> /\ answer[1] = Answer
  BY DEF AnswerInv, Answered
<1>2. question \in SlotQuestions \cup PayoutQuestions \cup RatingQuestions \cup WaterfallQuestions
                    \cup SuggestionQuestions
  BY DEF AnswerInv, Questions
<1>3. /\ kind = "payouts" => question \in PayoutQuestions
      /\ kind = "rating" => question \in RatingQuestions
      /\ kind = "waterfall" => question \in WaterfallQuestions
      /\ kind = "suggestion" => question \in SuggestionQuestions
  BY <1>1, <1>2 DEF SlotQuestions, PayoutQuestions, RatingQuestions, WaterfallQuestions, SuggestionQuestions
<1>4. /\ kind = "payouts" => Answer = ComputeCyclePayout(Inputs, question.cycle.pool)
      /\ kind = "rating" => Answer = Anomaly(question.outputs, question.tier, question.cpa, question.days)
      /\ kind = "waterfall" => Answer = RunWaterfall(question.config, question.budget, question.talents)
      /\ kind = "suggestion" => Answer = SuggestConfig(question.config, question.history, question.budget)
  BY <1>1 DEF Answer
<1>5. QED
  BY <1>1, <1>3, <1>4

\* A pool that is empty shares nothing out; otherwise the payouts are within it.
LEMMA PayoutsAnswered == ASSUME AnswerInv PROVE PayoutsSound
<1>1. SUFFICES ASSUME Answered("payouts")
               PROVE  /\ WithinPool(answer[1], question.cycle.pool)
                      /\ InOrder(answer[1])
                      /\ \A i \in DOMAIN answer[1] : LET a == question.assignments[i] IN
                           /\ WithinAllocation(Inputs[i])
                           /\ OneMoreNeverCosts(question.cycle, a, a.conversions)
  BY DEF PayoutsSound
<1> DEFINE pool == question.cycle.pool
           list == question.assignments
           paid == ComputeCyclePayout(Inputs, pool)
<1>2. question \in PayoutQuestions /\ answer[1] = paid
  BY <1>1, AnswerIs
<1>3. /\ question.cycle \in [type : Pipelines, pool : Int, cpa : Nat, kpbs : Seq(Nat)]
      /\ list \in Seq([tier : Nat, status : AssignmentStatuses, conversions : Nat])
  BY <1>2 DEF PayoutQuestions
<1>4. pool \in Int
  BY <1>3
<1>5. DOMAIN list = 1 .. Len(list) /\ Len(list) \in Nat
  BY <1>3
<1>6. ASSUME NEW i \in 1 .. Len(list)
      PROVE  Payable(question.cycle, list[i]) /\ list[i].conversions \in Nat
  <2>1. list[i] \in [tier : Nat, status : AssignmentStatuses, conversions : Nat]
    BY <1>3, SeqElement
  <2>2. QED
    BY <1>3, <2>1 DEF Payable
<1> HIDE DEF list
<1>7. \A i \in 1 .. Len(list) : Inputs[i] = TalentInput(question.cycle, list[i], list[i].conversions)
  BY <1>5 DEF Inputs, list
<1>8. \A i \in 1 .. Len(list) : Inputs[i] \in Input
  <2> TAKE i \in 1 .. Len(list)
  <2>1. TalentInput(question.cycle, list[i], list[i].conversions) \in Input
    BY <1>6, InputIs
  <2>2. QED
    BY <1>7, <2>1
<1>9. Inputs \in Seq(Input) /\ DOMAIN Inputs = 1 .. Len(list)
  <2>1. Inputs = [i \in 1 .. Len(list) |-> Inputs[i]]
    BY <1>5 DEF Inputs, list
  <2>2. Inputs \in [1 .. Len(list) -> Input]
    BY <1>8, <2>1
  <2>3. QED
    BY <1>5, <2>2, SeqOfFunction
<1>10. DOMAIN paid = 1 .. Len(list)
  BY <1>9 DEF ComputeCyclePayout
<1>11. WithinPool(paid, pool) /\ InOrder(paid)
  <2> HIDE DEF pool
  <2>1. CASE pool > 0
    <3>1. pool \in Nat
      BY <1>4, <2>1
    <3>2. QED
      BY <1>9, <3>1, PoolKept, OrderKept
  <2>2. CASE ~(pool > 0)
    <3>1. \A i \in DOMAIN paid : paid[i].payout = paid[i].net
      BY <2>2 DEF ComputeCyclePayout, Scaled
    <3>2. QED
      BY <2>2, <3>1, Zenon DEF WithinPool, InOrder
  <2>3. QED
    BY <2>1, <2>2
<1> HIDE DEF paid
<1>12. ASSUME NEW i \in DOMAIN answer[1]
       PROVE  WithinAllocation(Inputs[i]) /\ OneMoreNeverCosts(question.cycle, list[i], list[i].conversions)
  <2>1. i \in 1 .. Len(list)
    BY <1>2, <1>10
  <2>2. WithinAllocation(Inputs[i])
    BY <1>8, <2>1, AllocationKept
  <2>3. OneMoreNeverCosts(question.cycle, list[i], list[i].conversions)
    BY <1>6, <2>1, PaysMore DEF OneMoreNeverCosts
  <2>4. QED
    BY <2>2, <2>3
<1>13. QED
  BY <1>2, <1>11, <1>12 DEF list

\* Whatever the terms of a cycle and the conversions of its talents, the payouts
\* keep to the pool and to the allocations, keep the order of the talents, and
\* grow with the conversions (internal/algo/payout.go, P.2-P.7).
THEOREM PayoutsCorrect == AlgorithmsSpec => []PayoutsSound
<1>1. AnswerInv => PayoutsSound
  BY PayoutsAnswered
<1>2. QED
  BY <1>1, AnswersAlways, PTL

\* Whatever the configuration, the demand and the history, what is shared out
\* is within the budget and what is suggested is valid and a step away
\* (internal/algo/waterfall.go; cap_suggest.go, suggestConfig).
THEOREM ConfigurationCorrect == AlgorithmsSpec => []ConfigurationSound
<1>1. ASSUME AnswerInv, Answered("waterfall"), Validate(question.config)
      PROVE  Affordable(answer[1], question.budget)
  <2>1. question \in WaterfallQuestions /\ answer[1] = RunWaterfall(question.config, question.budget, question.talents)
    BY <1>1, AnswerIs
  <2>2. question.config \in ConfigTerms /\ question.budget \in Nat /\ question.talents \in TierDemands
    BY <2>1 DEF WaterfallQuestions
  <2>3. PICK D \in SUBSET Int : IsFiniteSet(D) /\ question.talents \in [D -> Int]
    BY <2>2 DEF TierDemands
  <2>4. QED
    BY <1>1, <2>1, <2>2, <2>3, SharesCorrect
<1>2. ASSUME AnswerInv, Answered("suggestion"), Validate(question.config)
      PROVE  OneStepFrom(question.config, question.history, answer[1])
  <2>1. /\ question \in SuggestionQuestions
        /\ answer[1] = SuggestConfig(question.config, question.history, question.budget)
    BY <1>2, AnswerIs
  <2>2. question.config \in ConfigTerms /\ question.budget \in Int /\ question.history \in Histories
    BY <2>1 DEF SuggestionQuestions
  <2>3. QED
    BY <1>2, <2>1, <2>2, SuggestionCorrect
<1>3. AnswerInv => ConfigurationSound
  BY <1>1, <1>2 DEF ConfigurationSound
<1>4. QED
  BY <1>3, AnswersAlways, PTL

-----------------------------------------------------------------------------
(* The rating of a talent *)

\* No day brings more than all days.
LEMMA DayWithinSum ==
  ASSUME NEW outputs \in Seq(Nat)
  PROVE  \A i \in 1 .. Len(outputs) : outputs[i] \in Nat /\ SumOf(outputs) \in Nat /\ outputs[i] <= SumOf(outputs)
<1> DEFINE S == 1 .. Len(outputs)
<1>1. DOMAIN outputs = S /\ Len(outputs) \in Nat /\ \A i \in S : outputs[i] \in Nat
  OBVIOUS
<1>2. IsFiniteSet(S)
  BY <1>1, FS_Interval
<1>3. SumOf(outputs) = SumFunctionOnSet(outputs, S)
  BY <1>1 DEF SumOf, SumFunction
<1> HIDE DEF S
<1>4. SumFunctionOnSet(outputs, S) \in Nat
  BY <1>1, <1>2, SumOfNats
<1>5. ASSUME NEW i \in S PROVE outputs[i] <= SumFunctionOnSet(outputs, S)
  <2>1. SumFunctionOnSet(outputs, S) = outputs[i] + SumFunctionOnSet(outputs, S \ {i})
    BY <1>1, <1>2, SumOfNats
  <2>2. IsFiniteSet(S \ {i}) /\ \A x \in S \ {i} : outputs[x] \in Nat
    BY <1>1, <1>2, FS_Subset
  <2>3. SumFunctionOnSet(outputs, S \ {i}) \in Nat
    BY <2>2, SumOfNats
  <2>4. outputs[i] \in Nat
    BY <1>1
  <2>5. QED
    BY <2>1, <2>3, <2>4
<1>6. QED
  BY <1>1, <1>3, <1>4, <1>5 DEF S

\* Measured against the tier, every day is a day without output.
LEMMA EveryDayIsZero ==
  ASSUME NEW outputs \in Seq(Nat), NEW tier \in Nat, NEW cpa \in Nat, cpa >= 10,
         SumOf(outputs) <= tier \div cpa
  PROVE  ZeroDays(outputs, tier) = Len(outputs)
<1> DEFINE q == tier \div cpa
<1>1. q \in Nat /\ cpa * q <= tier
  OBVIOUS
<1> HIDE DEF q
<1>2. 10 * q <= tier
  <2>1. (cpa - 10) * q \in Nat
    <3>1. cpa - 10 \in Nat
      OBVIOUS
    <3>2. QED
      BY <1>1, <3>1, ProductTyped
  <2>2. cpa * q = 10 * q + (cpa - 10) * q
    BY <1>1
  <2>3. QED
    BY <1>1, <2>1, <2>2
<1>3. Len(outputs) \in Nat /\ DOMAIN outputs = 1 .. Len(outputs)
  OBVIOUS
<1>4. \A i \in 1 .. Len(outputs) : 10 * outputs[i] <= tier
  <2> TAKE i \in 1 .. Len(outputs)
  <2>1. outputs[i] \in Nat /\ SumOf(outputs) \in Nat /\ outputs[i] <= SumOf(outputs)
    BY DayWithinSum
  <2>2. SumOf(outputs) <= q
    BY DEF q
  <2>3. QED
    BY <1>1, <1>2, <2>1, <2>2
<1>5. {i \in DOMAIN outputs : 10 * outputs[i] <= tier} = 1 .. Len(outputs)
  BY <1>3, <1>4
<1>6. Cardinality(1 .. Len(outputs)) = Len(outputs)
  <2> DEFINE n == Len(outputs)
  <2>1. 1 \in Int /\ n \in Int /\ (IF 1 > n THEN 0 ELSE n - 1 + 1) = n
    BY <1>3
  <2> HIDE DEF n
  <2>2. Cardinality(1 .. n) = n
    BY <2>1, FS_Interval
  <2>3. QED
    BY <2>2 DEF n
<1>7. QED
  BY <1>5, <1>6 DEF ZeroDays

\* However steady a talent converts within what the slot can pay for, the rating
\* sees a collapse (internal/jobs/daily_compute.go:83, 100).
THEOREM CollapseCorrect == AlgorithmsSpec => []OnlyCollapseIsSeen
<1>1. ASSUME AnswerInv, Answered("rating"), question.outputs # <<>>, question.cpa >= 10,
             SumOf(question.outputs) <= question.tier \div question.cpa
      PROVE  answer = <<"collapse">>
  <2> DEFINE outputs == question.outputs
             tier == question.tier
             cpa == question.cpa
             days == question.days
  <2>1. /\ question \in RatingQuestions /\ answer = <<Answer>>
        /\ Answer = Anomaly(outputs, tier, cpa, days)
    BY <1>1, AnswerIs
  <2>2. outputs \in Seq(Nat) /\ tier \in Nat /\ cpa \in Nat /\ outputs # <<>>
    BY <1>1, <2>1 DEF RatingQuestions
  <2>3. cpa >= 10 /\ SumOf(outputs) <= tier \div cpa
    BY <1>1
  <2> HIDE DEF outputs, tier, cpa, days
  <2>4. ZeroDays(outputs, tier) = Len(outputs)
    BY <2>2, <2>3, EveryDayIsZero
  <2>5. Len(outputs) \in Nat /\ Len(outputs) > 0
    BY <2>2
  <2>6. ~Breakout(outputs, tier, days, tier \div cpa)
    BY <2>4, <2>5 DEF Breakout
  <2>7. Collapsed(outputs, tier)
    <3>1. 10 * ZeroDays(outputs, tier) >= 3 * Len(outputs)
      BY <2>4, <2>5
    <3>2. QED
      BY <3>1, Zenon DEF Collapsed
  <2>8. Pattern(outputs, tier) = "collapse"
    BY <2>7, Zenon DEF Pattern
  <2>9. Anomaly(outputs, tier, cpa, days) = "collapse"
    BY <2>2, <2>6, <2>8 DEF Anomaly, Allocated
  <2>10. QED
    BY <2>1, <2>9
<1>2. AnswerInv => OnlyCollapseIsSeen
  BY <1>1 DEF OnlyCollapseIsSeen
<1>3. QED
  BY <1>2, AnswersAlways, PTL
=============================================================================
