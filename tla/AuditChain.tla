----------------------------- MODULE AuditChain -----------------------------
(***************************************************************************)
(* The append-only audit log: audit.Recorder (internal/audit/recorder.go)  *)
(* over Store.AppendAuditLog (internal/store/postgres/store.go).           *)
(*                                                                         *)
(* A call of Record reads the chain tip without a lock, builds and signs   *)
(* an entry that names the tip as its predecessor, puts a copy into the    *)
(* archive, and appends the entry in a transaction that locks the tip and  *)
(* refuses the entry when the tip has moved.  A refused call starts again, *)
(* at most MaxAttempts times.  Calls run concurrently, in one server or    *)
(* several; every database or archive call may fail.  A server that stops  *)
(* leaves its calls where they are: Spec does not make any call go on.      *)
(***************************************************************************)
EXTENDS Naturals, Sequences, FiniteSets

CONSTANTS Requests,   \* the calls of Record
          GenesisHash, \* the hash the first entry names as its predecessor
          MaxFaults    \* bound: the failures of one behaviour

FaultKinds == {"tip_read", "archive", "store", "commit"}

\* A fresh uuid per attempt.
Ids == Requests \X Nat

ASSUME MaxFaultsAssumption == MaxFaults \in Nat
ASSUME GenesisAssumption == GenesisHash \notin Ids

VARIABLES log,       \* table audit_log, in the order of the appends
          tip,       \* the row of table audit_chain_tip
          archive,   \* the entries put into the archive
          pc,        \* where each call is
          attempt,   \* the loop counter of each call
          draft,     \* the entry each call has built
          pushed     \* the ids of the entries sent to the audit channel

\* Not in the code: which failures each call has met.
VARIABLE hit

vars == <<log, tip, archive, pc, attempt, draft, pushed, hit>>

-----------------------------------------------------------------------------
MaxAttempts == 3

\* The hashed payload contains the uuid of the entry, so entries with
\* different ids have different hashes; a hash is named by that id.
HashOf(e) == e.id

Hashes == Ids \cup {GenesisHash}

Entry == [req : Requests, id : Ids, seq : Nat, prev : Hashes]

Tip == [hash : Hashes, seq : Nat]

Running == {"read", "archive", "append", "push"}

GenesisTip == [hash |-> GenesisHash, seq |-> 0]

NoDraft(r) == [req |-> r, id |-> <<r, 0>>, seq |-> 0, prev |-> GenesisHash]

TypeOK ==
  /\ log \in Seq(Entry)
  /\ tip \in Tip
  /\ archive \subseteq Entry
  /\ pc \in [Requests -> Running \cup {"idle", "done", "failed"}]
  /\ attempt \in [Requests -> 0 .. MaxAttempts]
  /\ draft \in [Requests -> Entry]
  /\ pushed \subseteq Ids
  /\ hit \subseteq Requests \X FaultKinds

Init ==
  /\ log = <<>>
  /\ tip = GenesisTip
  /\ archive = {}
  /\ pc = [r \in Requests |-> "idle"]
  /\ attempt = [r \in Requests |-> 0]
  /\ draft = [r \in Requests |-> NoDraft(r)]
  /\ pushed = {}
  /\ hit = {}

-----------------------------------------------------------------------------
\* The environment lets call r meet a failure of this kind.
Strike(r, kind) ==
  /\ hit' = hit \cup {<<r, kind>>}
  /\ Cardinality(hit') <= MaxFaults

Goto(r, label) == pc' = [pc EXCEPT ![r] = label]

\* A mutating request or a domain action calls Record.
Begin(r) ==
  /\ pc[r] = "idle"
  /\ Goto(r, "read")
  /\ UNCHANGED <<log, tip, archive, attempt, draft, pushed, hit>>

NewEntry(r, t) ==
  [req |-> r, id |-> <<r, attempt[r]>>, seq |-> t.seq + 1, prev |-> t.hash]

\* The unlocked read of the tip, and the entry built from it.  An error of
\* the read is taken for an empty log.
ReadTip(r) ==
  /\ pc[r] = "read"
  /\ \/ draft' = [draft EXCEPT ![r] = NewEntry(r, tip)] /\ UNCHANGED hit
     \/ draft' = [draft EXCEPT ![r] = NewEntry(r, GenesisTip)] /\ Strike(r, "tip_read")
  /\ Goto(r, "archive")
  /\ UNCHANGED <<log, tip, archive, attempt, pushed>>

\* A deviation: only the first attempt archives its entry.
ArchivePutOnce(r) ==
  /\ pc[r] = "archive"
  /\ archive' = IF attempt[r] = 0 THEN archive \cup {draft[r]} ELSE archive
  /\ Goto(r, "append")
  /\ UNCHANGED <<log, tip, attempt, draft, pushed, hit>>

\* The signed copy goes to the archive before the append; a failure is
\* logged and otherwise ignored.
ArchivePut(r) ==
  /\ pc[r] = "archive"
  /\ \/ archive' = archive \cup {draft[r]} /\ UNCHANGED hit
     \/ UNCHANGED archive /\ Strike(r, "archive")
  /\ Goto(r, "append")
  /\ UNCHANGED <<log, tip, attempt, draft, pushed>>

\* A deviation: the append trusts the tip its caller read.
TipUnchecked(e) == TRUE

TipMatches(e) == e.prev = tip.hash /\ e.seq = tip.seq + 1

\* What a committed transaction of AppendAuditLog writes.
CommitEntry(e) ==
  /\ log' = Append(log, e)
  /\ tip' = [hash |-> HashOf(e), seq |-> e.seq]

\* The transaction commits.
AppendOk(r) ==
  /\ pc[r] = "append"
  /\ TipMatches(draft[r])
  /\ CommitEntry(draft[r])
  /\ Goto(r, "push")
  /\ UNCHANGED <<archive, attempt, draft, pushed, hit>>

\* Deviations: the loop ends one attempt early, one late, or never.
AppendMismatchEarly(r) ==
  /\ pc[r] = "append"
  /\ ~TipMatches(draft[r])
  /\ attempt' = [attempt EXCEPT ![r] = @ + 1]
  /\ Goto(r, IF attempt[r] + 1 < MaxAttempts - 1 THEN "read" ELSE "failed")
  /\ UNCHANGED <<log, tip, archive, draft, pushed, hit>>

AppendMismatchLate(r) ==
  /\ pc[r] = "append"
  /\ ~TipMatches(draft[r])
  /\ attempt' = [attempt EXCEPT ![r] = @ + 1]
  /\ Goto(r, IF attempt[r] + 1 <= MaxAttempts THEN "read" ELSE "failed")
  /\ UNCHANGED <<log, tip, archive, draft, pushed, hit>>

AppendMismatchUncounted(r) ==
  /\ pc[r] = "append"
  /\ ~TipMatches(draft[r])
  /\ Goto(r, "read")
  /\ UNCHANGED <<log, tip, archive, attempt, draft, pushed, hit>>

\* The tip moved since it was read: roll back, and try again if attempts are left.
AppendMismatch(r) ==
  /\ pc[r] = "append"
  /\ ~TipMatches(draft[r])
  /\ attempt' = [attempt EXCEPT ![r] = @ + 1]
  /\ Goto(r, IF attempt[r] + 1 < MaxAttempts THEN "read" ELSE "failed")
  /\ UNCHANGED <<log, tip, archive, draft, pushed, hit>>

\* A deviation: an entry is pushed whether it was stored or not.
AppendErrorPushes(r) ==
  /\ pc[r] = "append"
  /\ Strike(r, "store")
  /\ Goto(r, "push")
  /\ UNCHANGED <<log, tip, archive, attempt, draft, pushed>>

\* Any other error ends the call.
AppendError(r) ==
  /\ pc[r] = "append"
  /\ Strike(r, "store")
  /\ Goto(r, "failed")
  /\ UNCHANGED <<log, tip, archive, attempt, draft, pushed>>

\* A deviation: every error is retried, not only a mismatch.
AppendUnacknowledgedRetries(r) ==
  /\ pc[r] = "append"
  /\ Strike(r, "commit")
  /\ TipMatches(draft[r])
  /\ CommitEntry(draft[r])
  /\ attempt' = [attempt EXCEPT ![r] = @ + 1]
  /\ Goto(r, IF attempt[r] + 1 < MaxAttempts THEN "read" ELSE "failed")
  /\ UNCHANGED <<archive, draft, pushed>>

\* The commit succeeds at the server but its acknowledgement is lost.
AppendUnacknowledged(r) ==
  /\ pc[r] = "append"
  /\ Strike(r, "commit")
  /\ TipMatches(draft[r])
  /\ CommitEntry(draft[r])
  /\ Goto(r, "failed")
  /\ UNCHANGED <<archive, attempt, draft, pushed>>

\* The non-blocking send to the audit channel: dropped when the buffer is full.
Push(r) ==
  /\ pc[r] = "push"
  /\ \/ pushed' = pushed \cup {draft[r].id}
     \/ UNCHANGED pushed
  /\ Goto(r, "done")
  /\ UNCHANGED <<log, tip, archive, attempt, draft, hit>>

Step(r) ==
  \/ ReadTip(r)
  \/ ArchivePut(r)
  \/ AppendOk(r)
  \/ AppendMismatch(r)
  \/ AppendError(r)
  \/ AppendUnacknowledged(r)
  \/ Push(r)

Next == \E r \in Requests : Begin(r) \/ Step(r)

Spec == Init /\ [][Next]_vars

\* The goroutine that serves a request keeps running until Record returns.
FairSpec == Spec /\ \A r \in Requests : WF_vars(Step(r))

-----------------------------------------------------------------------------
\* The hash at position n of the chain; position 0 is the genesis hash.
HashAt(n) == IF n = 0 THEN GenesisHash ELSE HashOf(log[n])

\* The chain AppendAuditLog maintains: sequence numbers have no gap and no
\* repetition, every entry names the hash of its predecessor, and the tip row
\* is the last entry, whatever calls interleave and whatever fails.
ChainIntact ==
  /\ tip = [hash |-> HashAt(Len(log)), seq |-> Len(log)]
  /\ \A i \in DOMAIN log : log[i].seq = i /\ log[i].prev = HashAt(i - 1)

ArchiveCovers ==
  \A i \in DOMAIN log :
    log[i] \in archive \/ <<log[i].req, "archive">> \in hit

PushedIsCommitted ==
  \A id \in pushed : \E i \in DOMAIN log : log[i].id = id

\* The two traces of an entry agree with the log: an entry that is in the log is
\* in the archive, unless the archive itself failed (the copy is put before the
\* append), and the admin stream only shows entries that are in the log
\* (recorder.push follows a committed append and nothing else).
TracesMatchLog == ArchiveCovers /\ PushedIsCommitted

\* A call is lost to contention only when MaxAttempts entries of other calls
\* were appended while it ran: every refused attempt of the loop in Record was
\* overtaken by another append (or could not read the tip).
LossNeedsContention ==
  \A r \in Requests :
    /\ <<r, "tip_read">> \notin hit => attempt[r] <= Len(log)
    /\ pc[r] = "failed" /\ (\A kind \in FaultKinds : <<r, kind>> \notin hit)
         => Len(log) >= MaxAttempts

\* Record returns, recorded or not.
EveryCallReturns ==
  \A r \in Requests : pc[r] = "read" ~> pc[r] \in {"done", "failed"}

-----------------------------------------------------------------------------
\* The log and the answers as AuditLog sees them.
Answer(r) ==
  CASE pc[r] = "done"   -> "ok"
    [] pc[r] = "failed" -> "error"
    [] OTHER            -> "none"

Abstract == INSTANCE AuditLog WITH
  chain  <- [i \in DOMAIN log |-> log[i].req],
  answer <- [r \in Requests |-> Answer(r)]

\* The recorder implements the abstract log: one append per call, never a
\* second one after a retry, a lost acknowledgement or a crash.
ImplementsAuditLog == Abstract!Spec
=============================================================================
