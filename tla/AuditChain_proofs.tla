------------------------- MODULE AuditChain_proofs -------------------------
(***************************************************************************)
(* Proofs about AuditChain, for any set of calls and any number of         *)
(* failures: the invariants the runs check, and the refinement of AuditLog.*)
(***************************************************************************)
EXTENDS AuditChain, SequenceTheorems, TLAPS

\* Where the attempts that may still follow are counted.
Trying == {"idle", "read", "archive", "append"}

\* The loop of Record leaves before its counter passes MaxAttempts.
AttemptsLeft == \A r \in Requests : pc[r] \in Trying => attempt[r] < MaxAttempts

\* The entry of a call names a position of the chain as its predecessor: the
\* one the tip had when it was read, or the genesis.
DraftOnChain ==
  \A r \in Requests :
    /\ draft[r].req = r
    /\ pc[r] \in {"archive", "append"} =>
         /\ draft[r].seq \in 1 .. Len(log) + 1
         /\ draft[r].prev = HashAt(draft[r].seq - 1)

\* Every refused attempt of a call was overtaken by an append: a call that
\* read the tip has seen at least as many entries as it has lost attempts.
Overtaken ==
  \A r \in Requests :
    <<r, "tip_read">> \notin hit =>
      /\ attempt[r] <= Len(log)
      /\ pc[r] \in {"archive", "append"} => attempt[r] < draft[r].seq

\* Only a failure, or the last attempt, ends a call without an entry.
FailedWhy ==
  \A r \in Requests :
    pc[r] = "failed" /\ (\A kind \in FaultKinds : <<r, kind>> \notin hit)
      => attempt[r] = MaxAttempts

\* A call that goes to the append has archived its entry or met a failure.
ArchivedFirst ==
  \A r \in Requests :
    pc[r] = "append" => draft[r] \in archive \/ <<r, "archive">> \in hit

InLog(r) == \E i \in DOMAIN log : log[i].req = r

\* A call is in the log once it has appended, and not before.
AppendedWhen ==
  \A r \in Requests :
    /\ pc[r] \in Trying => ~InLog(r)
    /\ pc[r] = "push" => \E i \in DOMAIN log : log[i] = draft[r]
    /\ pc[r] = "done" => InLog(r)

Core == TypeOK /\ AttemptsLeft

-----------------------------------------------------------------------------
\* What one append does to the log and to the positions of the chain.
LEMMA CommitExtends ==
  ASSUME TypeOK, NEW e \in Entry, CommitEntry(e)
  PROVE  /\ log' \in Seq(Entry)
         /\ Len(log') = Len(log) + 1
         /\ log'[Len(log) + 1] = e
         /\ \A i \in 1 .. Len(log) : log'[i] = log[i]
         /\ HashAt(Len(log))' = HashOf(e)
         /\ \A n \in 0 .. Len(log) : HashAt(n)' = HashAt(n)
<1>1. log \in Seq(Entry) /\ log' = Append(log, e)
  BY DEF TypeOK, CommitEntry
<1>2. /\ log' \in Seq(Entry)
      /\ Len(log') = Len(log) + 1
      /\ log'[Len(log) + 1] = e
      /\ \A i \in 1 .. Len(log) : log'[i] = log[i]
  BY <1>1, AppendProperties
<1>3. Len(log) \in Nat
  BY <1>1, LenProperties
<1>4. HashAt(Len(log))' = HashOf(e)
  BY <1>2, <1>3 DEF HashAt, HashOf
<1>5. \A n \in 0 .. Len(log) : HashAt(n)' = HashAt(n)
  BY <1>2, <1>3 DEF HashAt, HashOf
<1>. QED  BY <1>2, <1>4, <1>5

LEMMA CoreInit == Init => Core
<1>. SUFFICES ASSUME Init PROVE Core
  OBVIOUS
<1>1. <<>> \in Seq(Entry)
  BY EmptySeq
<1>2. GenesisTip \in Tip
  BY DEF GenesisTip, Tip, Hashes
<1>3. \A r \in Requests : NoDraft(r) \in Entry
  BY DEF NoDraft, Entry, Hashes, Ids
<1>. QED
  BY <1>1, <1>2, <1>3
  DEF Init, Core, TypeOK, AttemptsLeft, Running, Trying, MaxAttempts

\* What an attempt builds from a tip is an entry.
LEMMA NewEntryType ==
  ASSUME TypeOK, NEW r \in Requests, NEW t \in Tip
  PROVE  NewEntry(r, t) \in Entry
  BY DEF TypeOK, Tip, NewEntry, Entry, Ids, MaxAttempts

LEMMA CoreStep == Core /\ [Next]_vars => Core'
<1>. SUFFICES ASSUME Core, [Next]_vars PROVE Core'
  OBVIOUS
<1>. USE DEF Core, Running, Trying, MaxAttempts, Goto
<1>0. CASE UNCHANGED vars
  BY <1>0 DEF vars, TypeOK, AttemptsLeft
<1>a. ASSUME NEW r \in Requests, Begin(r) PROVE Core'
  BY <1>a DEF Begin, TypeOK, AttemptsLeft
<1>b. ASSUME NEW r \in Requests, ReadTip(r) PROVE Core'
  <2>1. tip \in Tip /\ GenesisTip \in Tip
    BY DEF TypeOK, GenesisTip, Tip, Hashes
  <2>2. NewEntry(r, tip) \in Entry /\ NewEntry(r, GenesisTip) \in Entry
    BY <2>1, NewEntryType
  <2>3. draft' \in [Requests -> Entry]
    BY <1>b, <2>2 DEF ReadTip, TypeOK
  <2>4. hit' \subseteq Requests \X FaultKinds
    BY <1>b DEF ReadTip, Strike, TypeOK, FaultKinds
  <2>. QED  BY <1>b, <2>3, <2>4 DEF ReadTip, TypeOK, AttemptsLeft
<1>c. ASSUME NEW r \in Requests, ArchivePut(r) PROVE Core'
  BY <1>c DEF ArchivePut, Strike, TypeOK, AttemptsLeft, FaultKinds
<1>d. ASSUME NEW r \in Requests, CommitEntry(draft[r]) PROVE log' \in Seq(Entry) /\ tip' \in Tip
  <2>1. draft[r] \in Entry
    BY DEF TypeOK
  <2>2. log' \in Seq(Entry)
    BY <1>d, <2>1, CommitExtends
  <2>3. tip' \in Tip
    BY <1>d, <2>1 DEF CommitEntry, Tip, HashOf, Entry, Hashes
  <2>. QED  BY <2>2, <2>3
<1>e. ASSUME NEW r \in Requests, AppendOk(r) PROVE Core'
  BY <1>d, <1>e DEF AppendOk, TypeOK, AttemptsLeft
<1>f. ASSUME NEW r \in Requests, AppendMismatch(r) PROVE Core'
  <2>1. attempt[r] < 3
    BY <1>f DEF AppendMismatch, AttemptsLeft
  <2>2. attempt[r] \in 0 .. 3
    BY DEF TypeOK
  <2>3. attempt' \in [Requests -> 0 .. 3]
    BY <1>f, <2>1, <2>2 DEF AppendMismatch, TypeOK
  <2>4. AttemptsLeft'
    BY <1>f, <2>1, <2>2 DEF AppendMismatch, TypeOK, AttemptsLeft
  <2>. QED  BY <1>f, <2>3, <2>4 DEF AppendMismatch, TypeOK
<1>g. ASSUME NEW r \in Requests, AppendError(r) PROVE Core'
  BY <1>g DEF AppendError, Strike, TypeOK, AttemptsLeft, FaultKinds
<1>h. ASSUME NEW r \in Requests, AppendUnacknowledged(r) PROVE Core'
  BY <1>d, <1>h DEF AppendUnacknowledged, Strike, TypeOK, AttemptsLeft, FaultKinds
<1>i. ASSUME NEW r \in Requests, Push(r) PROVE Core'
  <2>1. pushed' \subseteq Ids
    BY <1>i DEF Push, TypeOK, Entry
  <2>. QED  BY <1>i, <2>1 DEF Push, TypeOK, AttemptsLeft
<1>. QED
  BY <1>0, <1>a, <1>b, <1>c, <1>e, <1>f, <1>g, <1>h, <1>i DEF Next, Step

\* Type correctness: every variable keeps its type, and in particular no
\* call of Record makes more than MaxAttempts attempts (recorder.go, Record).
THEOREM TypeCorrect == Spec => []TypeOK
<1>1. Spec => []Core
  BY CoreInit, CoreStep, PTL DEF Spec
<1>2. Core => TypeOK
  BY DEF Core
<1>. QED  BY <1>1, <1>2, PTL

-----------------------------------------------------------------------------
\* A step appends the entry of a call that was at its append, or leaves the log alone.
LEMMA LogStep ==
  ASSUME TypeOK, [Next]_vars
  PROVE  \/ UNCHANGED <<log, tip>>
         \/ \E r \in Requests : /\ pc[r] = "append"
                               /\ TipMatches(draft[r])
                               /\ CommitEntry(draft[r])
  BY DEF Next, Step, vars, Begin, ReadTip, ArchivePut, AppendOk, AppendMismatch,
         AppendError, AppendUnacknowledged, Push

LEMMA ChainInit == Init => ChainIntact
  BY DEF Init, ChainIntact, GenesisTip, HashAt

LEMMA ChainStep == TypeOK /\ ChainIntact /\ [Next]_vars => ChainIntact'
<1>. SUFFICES ASSUME TypeOK, ChainIntact, [Next]_vars PROVE ChainIntact'
  OBVIOUS
<1>1. CASE UNCHANGED <<log, tip>>
  BY <1>1 DEF ChainIntact, HashAt
<1>2. ASSUME NEW r \in Requests, TipMatches(draft[r]), CommitEntry(draft[r])
      PROVE  ChainIntact'
  <2>. DEFINE e == draft[r]
              n == Len(log)
  <2>1. e \in Entry /\ log \in Seq(Entry)
    BY DEF TypeOK
  <2>2. e.seq = n + 1 /\ e.prev = HashAt(n)
    BY <1>2 DEF TipMatches, ChainIntact
  <2>3. /\ log' \in Seq(Entry)
        /\ Len(log') = n + 1
        /\ log'[n + 1] = e
        /\ \A i \in 1 .. n : log'[i] = log[i]
        /\ HashAt(Len(log))' = HashOf(e)
        /\ \A i \in 0 .. n : HashAt(i)' = HashAt(i)
    BY <1>2, <2>1, CommitExtends
  <2>4. n \in Nat /\ DOMAIN log = 1 .. n /\ DOMAIN log' = 1 .. n + 1
    BY <2>1, <2>3, LenProperties
  <2>5. tip' = [hash |-> HashAt(Len(log)), seq |-> Len(log)]'
    BY <1>2, <2>2, <2>3 DEF CommitEntry
  <2>6. ASSUME NEW i \in DOMAIN log'
        PROVE  log'[i].seq = i /\ log'[i].prev = HashAt(i - 1)'
    <3>1. CASE i = n + 1
      BY <2>2, <2>3, <2>4, <3>1
    <3>2. CASE i \in 1 .. n
      <4>1. log[i].seq = i /\ log[i].prev = HashAt(i - 1)
        BY <2>4, <3>2 DEF ChainIntact
      <4>2. i - 1 \in 0 .. n
        BY <2>4, <3>2
      <4>. QED  BY <2>3, <3>2, <4>1, <4>2
    <3>. QED  BY <2>4, <3>1, <3>2
  <2>. QED  BY <2>5, <2>6 DEF ChainIntact
<1>. QED  BY <1>1, <1>2, LogStep

\* Whatever calls interleave and whatever fails, the chain AppendAuditLog
\* writes has no gap, no fork and no repetition, and the tip row is its last
\* entry (store/postgres/store.go, AppendAuditLog).
THEOREM ChainCorrect == Spec => []ChainIntact
<1>1. Core => TypeOK
  BY DEF Core
<1>2. Init => Core /\ ChainIntact
  BY CoreInit, ChainInit
<1>3. (Core /\ ChainIntact) /\ [Next]_vars => (Core /\ ChainIntact)'
  BY <1>1, CoreStep, ChainStep
<1>. QED  BY <1>2, <1>3, PTL DEF Spec

-----------------------------------------------------------------------------
\* The log and the chain's positions only grow.
LEMMA LogGrows ==
  ASSUME TypeOK, [Next]_vars
  PROVE  /\ Len(log) \in Nat
         /\ Len(log') \in Nat
         /\ Len(log) <= Len(log')
         /\ DOMAIN log = 1 .. Len(log)
         /\ DOMAIN log' = 1 .. Len(log')
         /\ \A i \in 1 .. Len(log) : log'[i] = log[i]
         /\ \A n \in 0 .. Len(log) : HashAt(n)' = HashAt(n)
<1>. log \in Seq(Entry)
  BY DEF TypeOK
<1>1. CASE UNCHANGED <<log, tip>>
  BY <1>1, LenProperties DEF HashAt
<1>2. ASSUME NEW r \in Requests, CommitEntry(draft[r])
      PROVE  /\ log' \in Seq(Entry)
             /\ Len(log') = Len(log) + 1
             /\ \A i \in 1 .. Len(log) : log'[i] = log[i]
             /\ \A n \in 0 .. Len(log) : HashAt(n)' = HashAt(n)
  <2>1. draft[r] \in Entry
    BY DEF TypeOK
  <2>. QED  BY <1>2, <2>1, CommitExtends
<1>. QED  BY <1>1, <1>2, LogStep, LenProperties

LEMMA DraftStep ==
  TypeOK /\ ChainIntact /\ DraftOnChain /\ [Next]_vars => DraftOnChain'
<1>. SUFFICES ASSUME TypeOK, ChainIntact, DraftOnChain, [Next]_vars,
                     NEW r \in Requests
              PROVE  /\ draft'[r].req = r
                     /\ pc'[r] \in {"archive", "append"} =>
                          /\ draft'[r].seq \in 1 .. Len(log') + 1
                          /\ draft'[r].prev = HashAt(draft[r].seq - 1)'
  BY DEF DraftOnChain
<1>. USE LogGrows
<1>1. CASE ReadTip(r)
  <2>1. UNCHANGED log /\ draft \in [Requests -> Entry]
    BY <1>1 DEF ReadTip, TypeOK
  <2>2. \/ draft'[r] = NewEntry(r, tip)
        \/ draft'[r] = NewEntry(r, GenesisTip)
    BY <1>1, <2>1 DEF ReadTip
  <2>3. draft'[r] = NewEntry(r, tip) =>
          /\ draft'[r].seq = Len(log) + 1
          /\ draft'[r].prev = HashAt(Len(log))
    BY DEF NewEntry, ChainIntact
  <2>4. draft'[r] = NewEntry(r, GenesisTip) =>
          draft'[r].seq = 1 /\ draft'[r].prev = HashAt(0)
    BY DEF NewEntry, GenesisTip, HashAt
  <2>5. \A n \in 0 .. Len(log) : HashAt(n)' = HashAt(n)
    OBVIOUS
  <2>6. draft'[r].req = r
    BY <2>2 DEF NewEntry
  <2>. QED  BY <2>1, <2>2, <2>3, <2>4, <2>5, <2>6
<1>2. CASE ~ReadTip(r)
  <2>1. draft'[r] = draft[r] /\ (pc'[r] \in {"archive", "append"} => pc[r] \in {"archive", "append"})
    BY <1>2 DEF Next, Step, vars, Begin, ReadTip, ArchivePut, AppendOk, AppendMismatch,
                AppendError, AppendUnacknowledged, Push, Goto, TypeOK
  <2>2. draft[r].req = r
    BY DEF DraftOnChain
  <2>3. ASSUME pc'[r] \in {"archive", "append"}
        PROVE  /\ draft'[r].seq \in 1 .. Len(log') + 1
               /\ draft'[r].prev = HashAt(draft[r].seq - 1)'
    <3>1. draft[r].seq \in 1 .. Len(log) + 1 /\ draft[r].prev = HashAt(draft[r].seq - 1)
      BY <2>1, <2>3 DEF DraftOnChain
    <3>2. PICK k \in 0 .. Len(log) : k = draft[r].seq - 1
      BY <3>1
    <3>3. HashAt(k)' = HashAt(k)
      OBVIOUS
    <3>4. HashAt(draft[r].seq - 1)' = HashAt(k)'
      BY <2>1, <3>2 DEF HashAt
    <3>. QED  BY <2>1, <3>1, <3>2, <3>3, <3>4
  <2>. QED  BY <2>1, <2>2, <2>3
<1>. QED  BY <1>1, <1>2

\* What a refused append of call r says of the log: it grew since the tip was read.
LEMMA MismatchMeansOvertaken ==
  ASSUME TypeOK, ChainIntact, DraftOnChain, NEW r \in Requests,
         pc[r] = "append", ~TipMatches(draft[r])
  PROVE  draft[r].seq <= Len(log)
<1>1. Len(log) \in Nat
  BY LenProperties DEF TypeOK
<1>2. draft[r].seq \in 1 .. Len(log) + 1 /\ draft[r].prev = HashAt(draft[r].seq - 1)
  BY DEF DraftOnChain
<1>3. ASSUME draft[r].seq = Len(log) + 1 PROVE FALSE
  <2>1. draft[r].prev = HashAt(Len(log))
    BY <1>1, <1>2, <1>3
  <2>. QED  BY <1>1, <1>3, <2>1 DEF TipMatches, ChainIntact
<1>. QED  BY <1>1, <1>2, <1>3

LEMMA OvertakenStep ==
  Core /\ ChainIntact /\ DraftOnChain /\ Overtaken /\ [Next]_vars => Overtaken'
<1>. SUFFICES ASSUME Core, ChainIntact, DraftOnChain, Overtaken, [Next]_vars,
                     NEW r \in Requests, <<r, "tip_read">> \notin hit'
              PROVE  /\ attempt'[r] <= Len(log')
                     /\ pc'[r] \in {"archive", "append"} => attempt'[r] < draft'[r].seq
  BY DEF Overtaken
<1>1. TypeOK /\ Len(log) \in Nat /\ Len(log') \in Nat /\ Len(log) <= Len(log')
  BY LogGrows DEF Core
<1>2. attempt[r] \in Nat /\ draft[r].seq \in Nat
  BY <1>1 DEF TypeOK, Entry
<1>3. hit \subseteq hit'
  BY DEF Next, Step, vars, Begin, ReadTip, ArchivePut, AppendOk, AppendMismatch,
         AppendError, AppendUnacknowledged, Push, Strike
<1>4. /\ attempt[r] <= Len(log)
      /\ pc[r] \in {"archive", "append"} => attempt[r] < draft[r].seq
  BY <1>3 DEF Overtaken
<1>5. CASE ReadTip(r)
  <2>1. draft'[r] = NewEntry(r, tip)
    BY <1>1, <1>5 DEF ReadTip, Strike, TypeOK
  <2>2. draft'[r].seq = Len(log) + 1
    BY <2>1 DEF NewEntry, ChainIntact
  <2>. QED  BY <1>1, <1>2, <1>4, <1>5, <2>2 DEF ReadTip
<1>6. CASE AppendMismatch(r)
  <2>1. draft[r].seq <= Len(log)
    BY <1>1, <1>6, MismatchMeansOvertaken DEF AppendMismatch
  <2>2. attempt'[r] = attempt[r] + 1 /\ UNCHANGED log
    BY <1>1, <1>6 DEF AppendMismatch, TypeOK
  <2>3. pc'[r] \notin {"archive", "append"}
    BY <1>1, <1>6 DEF AppendMismatch, TypeOK, Goto
  <2>4. attempt[r] < draft[r].seq
    BY <1>4, <1>6 DEF AppendMismatch
  <2>. QED  BY <1>1, <1>2, <2>1, <2>2, <2>3, <2>4
<1>7. CASE ~ReadTip(r) /\ ~AppendMismatch(r)
  <2>1. /\ attempt'[r] = attempt[r]
        /\ draft'[r] = draft[r]
        /\ pc'[r] \in {"archive", "append"} => pc[r] \in {"archive", "append"}
    BY <1>1, <1>7 DEF Next, Step, vars, Begin, ReadTip, ArchivePut, AppendOk, AppendMismatch,
                AppendError, AppendUnacknowledged, Push, Goto, TypeOK
  <2>. QED  BY <1>1, <1>2, <1>4, <2>1
<1>. QED  BY <1>5, <1>6, <1>7

LEMMA FailedStep == Core /\ FailedWhy /\ [Next]_vars => FailedWhy'
<1>. SUFFICES ASSUME Core, FailedWhy, [Next]_vars, NEW r \in Requests,
                     pc'[r] = "failed", \A kind \in FaultKinds : <<r, kind>> \notin hit'
              PROVE  attempt'[r] = MaxAttempts
  BY DEF FailedWhy
<1>1. TypeOK
  BY DEF Core
<1>2. CASE AppendMismatch(r)
  <2>1. attempt[r] \in 0 .. MaxAttempts /\ attempt[r] < MaxAttempts
    BY <1>1, <1>2 DEF AppendMismatch, Core, AttemptsLeft, Trying, TypeOK
  <2>2. attempt'[r] = attempt[r] + 1
    BY <1>1, <1>2 DEF AppendMismatch, TypeOK
  <2>3. ~(attempt[r] + 1 < MaxAttempts)
    BY <1>1, <1>2 DEF AppendMismatch, Goto, TypeOK
  <2>. QED  BY <2>1, <2>2, <2>3 DEF MaxAttempts
<1>3. CASE AppendError(r) \/ AppendUnacknowledged(r)
  <2>1. <<r, "store">> \in hit' \/ <<r, "commit">> \in hit'
    BY <1>3 DEF AppendError, AppendUnacknowledged, Strike
  <2>. QED  BY <2>1 DEF FaultKinds
<1>4. CASE ~AppendMismatch(r) /\ ~AppendError(r) /\ ~AppendUnacknowledged(r)
  <2>1. attempt'[r] = attempt[r] /\ pc[r] = "failed"
    BY <1>1, <1>4 DEF Next, Step, vars, Begin, ReadTip, ArchivePut, AppendOk, AppendMismatch,
                AppendError, AppendUnacknowledged, Push, Goto, TypeOK
  <2>2. \A kind \in FaultKinds : <<r, kind>> \notin hit
    BY DEF Next, Step, vars, Begin, ReadTip, ArchivePut, AppendOk, AppendMismatch,
           AppendError, AppendUnacknowledged, Push, Strike
  <2>. QED  BY <2>1, <2>2 DEF FailedWhy
<1>. QED  BY <1>2, <1>3, <1>4

Losing == Core /\ ChainIntact /\ DraftOnChain /\ Overtaken /\ FailedWhy

LEMMA LosingInit == Init => Losing
<1>1. Init => Core /\ ChainIntact
  BY CoreInit, ChainInit
<1>2. Init => DraftOnChain /\ Overtaken /\ FailedWhy
  BY DEF Init, DraftOnChain, Overtaken, FailedWhy, NoDraft
<1>. QED  BY <1>1, <1>2 DEF Losing

LEMMA LosingStep == Losing /\ [Next]_vars => Losing'
  BY CoreStep, ChainStep, DraftStep, OvertakenStep, FailedStep DEF Losing, Core

\* A call of Record that met no failure is given up only after MaxAttempts
\* entries were appended: contention among fewer calls loses nothing
\* (recorder.go, the loop of Record).
THEOREM LossCorrect == Spec => []LossNeedsContention
<1>1. Losing => LossNeedsContention
  <2>. SUFFICES ASSUME Losing PROVE LossNeedsContention
    OBVIOUS
  <2>1. \A r \in Requests : <<r, "tip_read">> \notin hit => attempt[r] <= Len(log)
    BY DEF Losing, Overtaken
  <2>2. \A r \in Requests :
          pc[r] = "failed" /\ (\A kind \in FaultKinds : <<r, kind>> \notin hit)
            => Len(log) >= MaxAttempts
    BY <2>1, LenProperties DEF Losing, FailedWhy, FaultKinds, Core, TypeOK, MaxAttempts
  <2>. QED  BY <2>1, <2>2 DEF LossNeedsContention
<1>. QED  BY <1>1, LosingInit, LosingStep, PTL DEF Spec

-----------------------------------------------------------------------------
Answering == Core /\ ChainIntact /\ DraftOnChain /\ AppendedWhen

LEMMA AnsweringInit == Init => Answering
<1>1. Init => Core /\ ChainIntact
  BY CoreInit, ChainInit
<1>2. Init => DraftOnChain /\ AppendedWhen
  BY DEF Init, DraftOnChain, AppendedWhen, InLog, Trying, NoDraft
<1>. QED  BY <1>1, <1>2 DEF Answering

\* After the append of call r, the log holds r and what it held before.
LEMMA CommitRecords ==
  ASSUME TypeOK, NEW r \in Requests, draft[r].req = r, CommitEntry(draft[r])
  PROVE  /\ DOMAIN log' = 1 .. Len(log) + 1
         /\ Len(log) \in Nat
         /\ log'[Len(log) + 1] = draft[r]
         /\ InLog(r)'
         /\ \A q \in Requests : q # r => (InLog(q)' <=> InLog(q))
<1>1. draft[r] \in Entry /\ log \in Seq(Entry)
  BY DEF TypeOK
<1>2. /\ log' \in Seq(Entry)
      /\ Len(log') = Len(log) + 1
      /\ log'[Len(log) + 1] = draft[r]
      /\ \A i \in 1 .. Len(log) : log'[i] = log[i]
  BY <1>1, CommitExtends
<1>3. Len(log) \in Nat /\ DOMAIN log = 1 .. Len(log) /\ DOMAIN log' = 1 .. Len(log) + 1
  BY <1>1, <1>2, LenProperties
<1>4. InLog(r)'
  BY <1>2, <1>3 DEF InLog
<1>5. ASSUME NEW q \in Requests, q # r PROVE InLog(q)' <=> InLog(q)
  <2>1. ASSUME InLog(q) PROVE InLog(q)'
    BY <1>2, <1>3, <2>1 DEF InLog
  <2>2. ASSUME InLog(q)' PROVE InLog(q)
    <3>1. PICK i \in 1 .. Len(log) + 1 : log'[i].req = q
      BY <1>3, <2>2 DEF InLog
    <3>2. i # Len(log) + 1
      BY <1>2, <1>5, <3>1
    <3>3. i \in 1 .. Len(log) /\ log[i].req = q
      BY <1>2, <1>3, <3>1, <3>2
    <3>. QED  BY <1>3, <3>3 DEF InLog
  <2>. QED  BY <2>1, <2>2
<1>. QED  BY <1>2, <1>3, <1>4, <1>5

LEMMA AppendedStep == Core /\ DraftOnChain /\ AppendedWhen /\ [Next]_vars => AppendedWhen'
<1>. SUFFICES ASSUME Core, DraftOnChain, AppendedWhen, [Next]_vars, NEW q \in Requests
              PROVE  /\ pc'[q] \in Trying => ~InLog(q)'
                     /\ pc'[q] = "push" => \E i \in DOMAIN log' : log'[i] = draft'[q]
                     /\ pc'[q] = "done" => InLog(q)'
  BY DEF AppendedWhen
<1>1. TypeOK /\ draft[q].req = q
  BY DEF Core, DraftOnChain
<1>2. /\ pc[q] \in Trying => ~InLog(q)
      /\ pc[q] = "push" => \E i \in DOMAIN log : log[i] = draft[q]
      /\ pc[q] = "done" => InLog(q)
  BY DEF AppendedWhen
<1>3. ASSUME NEW r \in Requests, AppendOk(r) \/ AppendUnacknowledged(r)
      PROVE  /\ pc'[q] \in Trying => ~InLog(q)'
             /\ pc'[q] = "push" => \E i \in DOMAIN log' : log'[i] = draft'[q]
             /\ pc'[q] = "done" => InLog(q)'
  <2>1. /\ CommitEntry(draft[r])
        /\ UNCHANGED draft
        /\ pc' = [pc EXCEPT ![r] = "push"] \/ pc' = [pc EXCEPT ![r] = "failed"]
    BY <1>3 DEF AppendOk, AppendUnacknowledged, Goto
  <2>2. draft[r].req = r
    BY DEF DraftOnChain
  <2>3. /\ DOMAIN log' = 1 .. Len(log) + 1
        /\ Len(log) \in Nat
        /\ log'[Len(log) + 1] = draft[r]
        /\ \A p \in Requests : p # r => (InLog(p)' <=> InLog(p))
    BY <1>1, <2>1, <2>2, CommitRecords
  <2>4. CASE q = r
    <3>1. pc'[q] \in {"push", "failed"}
      BY <1>1, <2>1, <2>4 DEF TypeOK
    <3>2. Len(log) + 1 \in DOMAIN log' /\ log'[Len(log) + 1] = draft'[q]
      BY <2>1, <2>3, <2>4
    <3>. QED  BY <3>1, <3>2 DEF Trying
  <2>5. CASE q # r
    <3>1. pc'[q] = pc[q] /\ draft'[q] = draft[q] /\ (InLog(q)' <=> InLog(q))
      BY <1>1, <2>1, <2>3, <2>5 DEF TypeOK
    <3>2. \A i \in DOMAIN log : i \in DOMAIN log' /\ log'[i] = log[i]
      BY <1>1, LogGrows
    <3>. QED  BY <1>2, <3>1, <3>2
  <2>. QED  BY <2>4, <2>5
<1>4. CASE \A r \in Requests : ~AppendOk(r) /\ ~AppendUnacknowledged(r)
  <2>1. UNCHANGED log
    BY <1>4 DEF Next, Step, vars, Begin, ReadTip, ArchivePut, AppendMismatch,
                AppendError, Push
  <2>2. /\ pc'[q] \in Trying => pc[q] \in Trying
        /\ pc'[q] = "push" => pc[q] = "push" /\ draft'[q] = draft[q]
        /\ pc'[q] = "done" => pc[q] \in {"push", "done"}
    BY <1>1, <1>4 DEF Next, Step, vars, Begin, ReadTip, ArchivePut, AppendMismatch,
                AppendError, Push, Goto, TypeOK, Trying
  <2>3. pc[q] = "push" => InLog(q)
    BY <1>1, <1>2 DEF InLog
  <2>4. InLog(q)' <=> InLog(q)
    BY <2>1 DEF InLog
  <2>. QED  BY <1>2, <2>1, <2>2, <2>3, <2>4
<1>. QED  BY <1>3, <1>4

LEMMA AnsweringStep == Answering /\ [Next]_vars => Answering'
  BY CoreStep, ChainStep, DraftStep, AppendedStep DEF Answering, Core

\* The calls of the log, as AuditLog sees them.
LEMMA MappedAppend ==
  ASSUME TypeOK, NEW r \in Requests, draft[r].req = r, CommitEntry(draft[r])
  PROVE  [i \in DOMAIN log' |-> log'[i].req] = Append([i \in DOMAIN log |-> log[i].req], r)
<1>. DEFINE before == [i \in 1 .. Len(log) |-> log[i].req]
            after  == [i \in 1 .. Len(log) + 1 |-> log'[i].req]
<1>1. draft[r] \in Entry /\ log \in Seq(Entry)
  BY DEF TypeOK
<1>2. /\ log' \in Seq(Entry)
      /\ Len(log') = Len(log) + 1
      /\ log'[Len(log) + 1] = draft[r]
      /\ \A i \in 1 .. Len(log) : log'[i] = log[i]
  BY <1>1, CommitExtends
<1>3. Len(log) \in Nat /\ DOMAIN log = 1 .. Len(log) /\ DOMAIN log' = 1 .. Len(log) + 1
  BY <1>1, <1>2, LenProperties
<1>4. before \in Seq(Requests) /\ Len(before) = Len(log)
  <2>1. \A i \in 1 .. Len(log) : log[i].req \in Requests
    <3>1. \A i \in 1 .. Len(log) : log[i] \in Entry
      BY <1>1, ElementOfSeq
    <3>. QED  BY <3>1 DEF Entry
  <2>. QED  BY <1>3, <2>1
<1>5. /\ Append(before, r) \in Seq(Requests)
      /\ Len(Append(before, r)) = Len(log) + 1
      /\ \A i \in 1 .. Len(log) : Append(before, r)[i] = before[i]
      /\ Append(before, r)[Len(log) + 1] = r
  BY <1>4, AppendProperties
<1>6. after \in Seq(Requests) /\ Len(after) = Len(log) + 1
  <2>1. \A i \in 1 .. Len(log) + 1 : log'[i].req \in Requests
    <3>1. \A i \in 1 .. Len(log) + 1 : log'[i] \in Entry
      BY <1>2, ElementOfSeq
    <3>. QED  BY <3>1 DEF Entry
  <2>. QED  BY <1>3, <2>1
<1>7. \A i \in 1 .. Len(log) + 1 : after[i] = Append(before, r)[i]
  BY <1>2, <1>3, <1>5
<1>8. after = Append(before, r)
  BY <1>3, <1>5, <1>6, <1>7, SeqEqual
<1>. QED  BY <1>3, <1>8

LEMMA RecordedMapped ==
  ASSUME NEW r \in Requests
  PROVE  Abstract!Recorded(r) <=> InLog(r)
  BY DEF Abstract!Recorded, InLog

LEMMA RefineInit == Init => Abstract!Init
<1>. SUFFICES ASSUME Init PROVE Abstract!Init
  OBVIOUS
<1>1. [i \in DOMAIN log |-> log[i].req] = <<>>
  BY DEF Init
<1>2. [r \in Requests |-> Answer(r)] = [r \in Requests |-> "none"]
  BY DEF Init, Answer
<1>. QED  BY <1>1, <1>2 DEF Abstract!Init

\* A step of a call changes no other call's answer.
LEMMA AnswerStep ==
  ASSUME TypeOK, NEW r \in Requests, NEW label, Goto(r, label)
  PROVE  /\ \A q \in Requests : q # r => Answer(q)' = Answer(q)
         /\ pc'[r] = label
  BY DEF Goto, Answer, TypeOK

LEMMA RefineStep == Answering /\ [Next]_vars => [Abstract!Next]_(Abstract!vars)
<1>. SUFFICES ASSUME Answering, [Next]_vars PROVE [Abstract!Next]_(Abstract!vars)
  OBVIOUS
<1>. DEFINE chain == [i \in DOMAIN log |-> log[i].req]
            answer == [r \in Requests |-> Answer(r)]
<1>1. TypeOK /\ AppendedWhen /\ \A r \in Requests : draft[r].req = r
  BY DEF Answering, Core, DraftOnChain
<1>2. CASE UNCHANGED <<log, pc>>
  <2>1. chain' = chain /\ answer' = answer
    BY <1>2 DEF Answer
  <2>. QED  BY <2>1 DEF Abstract!vars
<1>3. ASSUME NEW r \in Requests, UNCHANGED log, NEW label \in Running, Goto(r, label),
             pc[r] \in Running \cup {"idle"}
      PROVE  [Abstract!Next]_(Abstract!vars)
  <2>1. Answer(r)' = Answer(r)
    BY <1>1, <1>3, AnswerStep DEF Answer, Running
  <2>2. chain' = chain /\ answer' = answer
    BY <1>1, <1>3, <2>1, AnswerStep
  <2>. QED  BY <2>2 DEF Abstract!vars
<1>4. ASSUME NEW r \in Requests, AppendOk(r) PROVE Abstract!Commit(r)
  <2>1. chain' = Append(chain, r)
    BY <1>1, <1>4, MappedAppend DEF AppendOk
  <2>2. pc[r] = "append" /\ pc'[r] = "push" /\ \A q \in Requests : q # r => Answer(q)' = Answer(q)
    BY <1>1, <1>4, AnswerStep DEF AppendOk
  <2>3. answer' = answer /\ answer[r] = "none"
    BY <2>2 DEF Answer
  <2>4. ~Abstract!Recorded(r)
    BY <1>1, <2>2, RecordedMapped DEF AppendedWhen, Trying
  <2>. QED  BY <2>1, <2>3, <2>4 DEF Abstract!Commit
<1>5. ASSUME NEW r \in Requests, AppendUnacknowledged(r) PROVE Abstract!CommitUnheard(r)
  <2>1. chain' = Append(chain, r)
    BY <1>1, <1>5, MappedAppend DEF AppendUnacknowledged
  <2>2. pc[r] = "append" /\ pc'[r] = "failed" /\ \A q \in Requests : q # r => Answer(q)' = Answer(q)
    BY <1>1, <1>5, AnswerStep DEF AppendUnacknowledged
  <2>3. answer' = [answer EXCEPT ![r] = "error"] /\ answer[r] = "none"
    BY <2>2 DEF Answer
  <2>4. ~Abstract!Recorded(r)
    BY <1>1, <2>2, RecordedMapped DEF AppendedWhen, Trying
  <2>. QED  BY <2>1, <2>3, <2>4 DEF Abstract!CommitUnheard
<1>6. ASSUME NEW r \in Requests, UNCHANGED log, pc[r] = "append", Goto(r, "failed")
      PROVE  Abstract!Refuse(r)
  <2>1. chain' = chain
    BY <1>6
  <2>2. pc'[r] = "failed" /\ \A q \in Requests : q # r => Answer(q)' = Answer(q)
    BY <1>1, <1>6, AnswerStep
  <2>3. answer' = [answer EXCEPT ![r] = "error"] /\ answer[r] = "none"
    BY <1>6, <2>2 DEF Answer
  <2>. QED  BY <2>1, <2>3 DEF Abstract!Refuse
<1>7. ASSUME NEW r \in Requests, Push(r) PROVE Abstract!Confirm(r)
  <2>1. chain' = chain
    BY <1>7 DEF Push
  <2>2. pc[r] = "push" /\ pc'[r] = "done" /\ \A q \in Requests : q # r => Answer(q)' = Answer(q)
    BY <1>1, <1>7, AnswerStep DEF Push
  <2>3. answer' = [answer EXCEPT ![r] = "ok"] /\ answer[r] = "none"
    BY <2>2 DEF Answer
  <2>4. Abstract!Recorded(r)
    BY <1>1, <2>2, RecordedMapped DEF AppendedWhen, InLog
  <2>. QED  BY <2>1, <2>3, <2>4 DEF Abstract!Confirm
<1>8. ASSUME NEW r \in Requests, Begin(r) \/ ReadTip(r) \/ ArchivePut(r) \/ AppendMismatch(r) \/ AppendError(r)
      PROVE  [Abstract!Next]_(Abstract!vars)
  <2>1. CASE Begin(r) \/ ReadTip(r) \/ ArchivePut(r)
    BY <1>3, <2>1 DEF Begin, ReadTip, ArchivePut, Running
  <2>2. CASE AppendMismatch(r) /\ attempt[r] + 1 < MaxAttempts
    BY <1>3, <2>2 DEF AppendMismatch, Running
  <2>3. CASE AppendMismatch(r) /\ ~(attempt[r] + 1 < MaxAttempts)
    BY <1>6, <2>3 DEF AppendMismatch, Abstract!Next
  <2>4. CASE AppendError(r)
    BY <1>6, <2>4 DEF AppendError, Abstract!Next
  <2>. QED  BY <1>8, <2>1, <2>2, <2>3, <2>4
<1>9. UNCHANGED vars => UNCHANGED <<log, pc>>
  BY DEF vars
<1>. QED  BY <1>2, <1>4, <1>5, <1>7, <1>8, <1>9 DEF Next, Step, Abstract!Next

\* Recorder.Record implements the abstract log: an entry per call at most,
\* never a second one after a retry or a lost acknowledgement, and no success
\* without an entry (audit/recorder.go, Record; postgres/store.go, AppendAuditLog).
THEOREM RecorderRefinesLog == Spec => ImplementsAuditLog
<1>1. Init => Answering
  BY AnsweringInit
<1>2. Answering /\ [Next]_vars => Answering'
  BY AnsweringStep
<1>. QED  BY <1>1, <1>2, RefineInit, RefineStep, PTL DEF Spec, ImplementsAuditLog, Abstract!Spec

-----------------------------------------------------------------------------
Storing == Core /\ DraftOnChain /\ AppendedWhen /\ ArchivedFirst /\ ArchiveCovers /\ PushedIsCommitted

LEMMA StoringInit == Init => Storing
<1>1. Init => Core /\ DraftOnChain /\ AppendedWhen
  BY AnsweringInit DEF Answering
<1>2. Init => ArchivedFirst /\ ArchiveCovers /\ PushedIsCommitted
  BY DEF Init, ArchivedFirst, ArchiveCovers, PushedIsCommitted
<1>. QED  BY <1>1, <1>2 DEF Storing

\* The archive and the failures a call has met only grow.
LEMMA StoreGrows ==
  ASSUME [Next]_vars
  PROVE  archive \subseteq archive' /\ hit \subseteq hit'
  BY DEF Next, Step, vars, Begin, ReadTip, ArchivePut, AppendOk, AppendMismatch,
         AppendError, AppendUnacknowledged, Push, Strike

LEMMA ArchivedFirstStep == Core /\ ArchivedFirst /\ [Next]_vars => ArchivedFirst'
<1>. SUFFICES ASSUME Core, ArchivedFirst, [Next]_vars, NEW r \in Requests, pc'[r] = "append"
              PROVE  draft'[r] \in archive' \/ <<r, "archive">> \in hit'
  BY DEF ArchivedFirst
<1>. USE StoreGrows
<1>1. CASE ArchivePut(r)
  BY <1>1 DEF ArchivePut, Strike
<1>2. CASE ~ArchivePut(r)
  <2>1. pc[r] = "append" /\ draft'[r] = draft[r]
    BY <1>2 DEF Next, Step, vars, Begin, ReadTip, ArchivePut, AppendOk, AppendMismatch,
                AppendError, AppendUnacknowledged, Push, Goto, Core, TypeOK
  <2>. QED  BY <2>1 DEF ArchivedFirst
<1>. QED  BY <1>1, <1>2

LEMMA CoversStep ==
  Core /\ DraftOnChain /\ ArchivedFirst /\ ArchiveCovers /\ [Next]_vars => ArchiveCovers'
<1>. SUFFICES ASSUME Core, DraftOnChain, ArchivedFirst, ArchiveCovers, [Next]_vars,
                     NEW i \in DOMAIN log'
              PROVE  log'[i] \in archive' \/ <<log'[i].req, "archive">> \in hit'
  BY DEF ArchiveCovers
<1>. TypeOK
  BY DEF Core
<1>. USE StoreGrows
<1>1. CASE i \in DOMAIN log
  <2>1. log'[i] = log[i]
    BY <1>1, LogGrows
  <2>. QED  BY <1>1, <2>1 DEF ArchiveCovers
<1>2. CASE i \notin DOMAIN log
  <2>1. PICK r \in Requests : pc[r] = "append" /\ CommitEntry(draft[r])
    BY <1>2, LogStep
  <2>2. draft[r].req = r
    BY DEF DraftOnChain
  <2>3. i = Len(log) + 1 /\ log'[i] = draft[r]
    BY <1>2, <2>1, <2>2, CommitRecords, LogGrows
  <2>. QED  BY <2>1, <2>2, <2>3 DEF ArchivedFirst
<1>. QED  BY <1>1, <1>2

LEMMA PushedStep == Core /\ AppendedWhen /\ PushedIsCommitted /\ [Next]_vars => PushedIsCommitted'
<1>. SUFFICES ASSUME Core, AppendedWhen, PushedIsCommitted, [Next]_vars, NEW id \in pushed'
              PROVE  \E i \in DOMAIN log' : log'[i].id = id
  BY DEF PushedIsCommitted
<1>1. \E i \in DOMAIN log : log[i].id = id
  <2>1. CASE id \in pushed
    BY <2>1 DEF PushedIsCommitted
  <2>2. CASE id \notin pushed
    <3>1. PICK r \in Requests : pc[r] = "push" /\ id = draft[r].id
      BY <2>2 DEF Next, Step, vars, Begin, ReadTip, ArchivePut, AppendOk, AppendMismatch,
                  AppendError, AppendUnacknowledged, Push
    <3>. QED  BY <3>1 DEF AppendedWhen
  <2>. QED  BY <2>1, <2>2
<1>2. \A i \in DOMAIN log : i \in DOMAIN log' /\ log'[i] = log[i]
  BY LogGrows DEF Core
<1>. QED  BY <1>1, <1>2

LEMMA StoringStep == Storing /\ ChainIntact /\ [Next]_vars => Storing'
  BY CoreStep, DraftStep, AppendedStep, ArchivedFirstStep, CoversStep, PushedStep
  DEF Storing, Core

\* The archive covers the log unless the archive itself failed, and the admin
\* stream never shows an entry that is not in the log (recorder.go,
\* appendOnce and push).
THEOREM StoredCorrect == Spec => []TracesMatchLog
<1>1. Init => Storing /\ ChainIntact
  BY StoringInit, ChainInit
<1>2. (Storing /\ ChainIntact) /\ [Next]_vars => (Storing /\ ChainIntact)'
  BY StoringStep, ChainStep DEF Storing, Core
<1>3. Storing => TracesMatchLog
  BY DEF Storing, TracesMatchLog
<1>. QED  BY <1>1, <1>2, <1>3, PTL DEF Spec
=============================================================================
