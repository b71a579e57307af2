------------------------------ MODULE AuditLog ------------------------------
(***************************************************************************)
(* What the audit log promises to the code that calls Recorder.Record:     *)
(* a log that only grows at its end, in which every call leaves at most    *)
(* one entry, and a call that returns no error has left one.               *)
(*                                                                         *)
(* A call may be answered with an error although its entry is in the log   *)
(* (the answer of the commit was lost); it is never recorded twice.        *)
(***************************************************************************)
EXTENDS Naturals, Sequences

CONSTANT Requests    \* the calls of Record

VARIABLES chain,     \* the calls recorded, oldest first
          answer     \* what each caller was told

vars == <<chain, answer>>

TypeOK ==
  /\ chain \in Seq(Requests)
  /\ answer \in [Requests -> {"none", "ok", "error"}]

Recorded(r) == \E i \in DOMAIN chain : chain[i] = r

Init ==
  /\ chain = <<>>
  /\ answer = [r \in Requests |-> "none"]

\* The entry of call r becomes part of the log.
Commit(r) ==
  /\ answer[r] = "none"
  /\ ~Recorded(r)
  /\ chain' = Append(chain, r)
  /\ UNCHANGED answer

\* The entry of call r becomes part of the log and its caller is told of an error.
CommitUnheard(r) ==
  /\ answer[r] = "none"
  /\ ~Recorded(r)
  /\ chain' = Append(chain, r)
  /\ answer' = [answer EXCEPT ![r] = "error"]

\* The caller is told that its entry is in the log.
Confirm(r) ==
  /\ answer[r] = "none"
  /\ Recorded(r)
  /\ answer' = [answer EXCEPT ![r] = "ok"]
  /\ UNCHANGED chain

\* The caller is told of an error, or never hears of the call again.
Refuse(r) ==
  /\ answer[r] = "none"
  /\ answer' = [answer EXCEPT ![r] = "error"]
  /\ UNCHANGED chain

Next == \E r \in Requests : Commit(r) \/ CommitUnheard(r) \/ Confirm(r) \/ Refuse(r)

Spec == Init /\ [][Next]_vars

-----------------------------------------------------------------------------
\* No call is recorded twice: a retry of Recorder.Record never follows an
\* attempt whose entry was appended.
AtMostOnce ==
  \A i, j \in DOMAIN chain : chain[i] = chain[j] => i = j

\* Recorder.Record returns nil only for a call whose entry is in the log.
OkIsRecorded ==
  \A r \in Requests : answer[r] = "ok" => Recorded(r)
=============================================================================
