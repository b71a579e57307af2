------------------------ MODULE ScheduledJobs_proofs ------------------------
(***************************************************************************)
(* Proofs about ScheduledJobs, for any number of servers that overlap, of  *)
(* hours, talents, recipients and failures: a reminder is sent at most     *)
(* once, and no update of a baseline is lost.                              *)
(***************************************************************************)
EXTENDS ScheduledJobs, FiniteSetTheorems, TLAPS

JobTable == DOMAIN job = Instances /\ \A i \in Instances : DOMAIN job[i] = Jobs

\* Where the reminder job of an instance is.
Reminder(i) == job[i]["reminders"]

\* A job that is about to send has a reminder that is recorded and not sent,
\* and runs in this hour; any other has none.
SendsNew(i) ==
  /\ {"pc", "key", "keys"} \subseteq DOMAIN Reminder(i)
  /\ Reminder(i).pc = "next" => "reminders" \in crontab.jobs
  /\ \/ Reminder(i).pc # "send" /\ Reminder(i).key = NoKey
     \/ /\ Reminder(i).pc = "send" /\ i \in up /\ "reminders" \in crontab.jobs
        /\ Reminder(i).key \in Keys \cap dispatched /\ sent[Reminder(i).key] = 0

\* No two of them have the same.
OwnReminder ==
  \A i, k \in Instances :
    Reminder(i).key = Reminder(k).key /\ Reminder(i).key # NoKey => i = k

ReminderInv ==
  /\ JobTable
  /\ sent \in [Keys -> {0, 1}]
  /\ \A key \in Keys \ dispatched : sent[key] = 0
  /\ \A i \in Instances : SendsNew(i)
  /\ OwnReminder
  /\ RemindersOnce

LEMMA NoKeyIsNone == NoKey \notin Keys
  BY DEF NoKey, Keys, Templates

LEMMA ReminderInit == Init => ReminderInv
<1>. SUFFICES ASSUME Init PROVE ReminderInv
  OBVIOUS
<1>1. JobTable /\ sent \in [Keys -> {0, 1}]
      /\ (\A key \in Keys : sent[key] = 0) /\ dispatched = {}
  BY DEF Init, JobTable
<1>2. ASSUME NEW i \in Instances PROVE Reminder(i) = Off
  BY DEF Init, Reminder, Jobs
<1>3. Off.pc = "off" /\ Off.key = NoKey /\ {"pc", "key", "keys"} \subseteq DOMAIN Off
  BY DEF Off
<1>. QED  BY <1>1, <1>2, <1>3 DEF ReminderInv, SendsNew, OwnReminder, RemindersOnce

\* What does not concern the reminders, and what only starts or ends a job that
\* has none to send.
LEMMA RemindersKept ==
  ASSUME ReminderInv, UNCHANGED <<up, crontab, dispatched, sent, lost>>,
         JobTable',
         \A i \in Instances :
           \/ Reminder(i)' = Reminder(i)
           \/ /\ Reminder(i).pc # "send" /\ Reminder(i).pc' # "send" /\ Reminder(i).key' = NoKey
              /\ Reminder(i).pc' = "next" => "reminders" \in crontab.jobs
              /\ {"pc", "key", "keys"} \subseteq DOMAIN Reminder(i)'
  PROVE  ReminderInv'
<1>1. ASSUME NEW i \in Instances
      PROVE  SendsNew(i)' /\ Reminder(i).key' = Reminder(i).key
  BY NoKeyIsNone DEF ReminderInv, SendsNew
<1>2. OwnReminder' /\ RemindersOnce'
  BY <1>1 DEF ReminderInv, OwnReminder, RemindersOnce, Reminder
<1>. QED  BY <1>1, <1>2 DEF ReminderInv

\* A step of a single job leaves the other rows.
LEMMA OtherRows ==
  ASSUME ReminderInv, NEW i \in Instances, NEW j \in Jobs, NEW row,
         job' = [job EXCEPT ![i][j] = row]
  PROVE  /\ JobTable'
         /\ \A k \in Instances : k # i \/ j # "reminders" => Reminder(k)' = Reminder(k)
         /\ j = "reminders" => Reminder(i)' = row
  BY DEF ReminderInv, JobTable, Reminder

\* The other jobs.
LEMMA OtherJobsKeep ==
  ASSUME ReminderInv, UNCHANGED <<up, crontab, dispatched, sent, lost>>,
         NEW i \in Instances, NEW j \in Jobs \ {"reminders"},
         NEW row, job' = [job EXCEPT ![i][j] = row]
  PROVE  ReminderInv'
  BY OtherRows, RemindersKept

\* A reminder that is recorded was not, so that nobody else has it.
LEMMA RecordKeeps ==
  ASSUME ReminderInv, NEW i \in Instances, i \in up, NEW key \in Keys,
         TryRecordEmailDispatch(i, key)
  PROVE  ReminderInv'
<1>. DEFINE rest == [Reminder(i) EXCEPT !.keys = @ \ {key}]
            row == [rest EXCEPT !.pc = "send", !.key = key]
<1>1. /\ UNCHANGED <<up, crontab, sent, lost>> /\ Reminder(i).pc = "next"
      /\ {"pc", "key", "keys"} \subseteq DOMAIN Reminder(i) /\ Reminder(i).key = NoKey
      /\ "reminders" \in crontab.jobs
  BY DEF TryRecordEmailDispatch, At, Reminder, ReminderInv, SendsNew
<1>2. rest.pc = "next" /\ rest.key = NoKey /\ {"pc", "key", "keys"} \subseteq DOMAIN rest
  BY <1>1
<1>3. row.pc = "send" /\ row.key = key /\ {"pc", "key", "keys"} \subseteq DOMAIN row
  BY <1>1
<1>4. \/ key \notin dispatched /\ dispatched' = dispatched \cup {key}
         /\ job' = [job EXCEPT ![i]["reminders"] = row]
      \/ UNCHANGED dispatched /\ job' = [job EXCEPT ![i]["reminders"] = rest]
  BY DEF TryRecordEmailDispatch, NewDispatch, Reminder
<1>. HIDE DEF rest, row
<1>5. CASE UNCHANGED dispatched /\ job' = [job EXCEPT ![i]["reminders"] = rest]
  BY <1>1, <1>2, <1>5, OtherRows, RemindersKept DEF Jobs
<1>6. CASE key \notin dispatched /\ dispatched' = dispatched \cup {key}
           /\ job' = [job EXCEPT ![i]["reminders"] = row]
  <2>1. /\ JobTable' /\ Reminder(i)' = row
        /\ \A k \in Instances \ {i} : Reminder(k)' = Reminder(k)
    BY <1>6, OtherRows DEF Jobs
  <2>2. \A k \in Instances : Reminder(k).key # key
    BY <1>6, NoKeyIsNone DEF ReminderInv, SendsNew
  <2>3. ASSUME NEW k \in Instances PROVE SendsNew(k)'
    BY <1>1, <1>3, <1>6, <2>1 DEF ReminderInv, SendsNew
  <2>4. OwnReminder'
    BY <1>3, <2>1, <2>2 DEF ReminderInv, OwnReminder
  <2>5. RemindersOnce'
    <3>1. ASSUME NEW other \in Keys \ {key}, NEW k \in Instances, Reminder(k).key = other
          PROVE  Reminder(k).key' = other
      BY <1>1, <2>1, <3>1, NoKeyIsNone
    <3>. QED  BY <1>1, <1>3, <1>6, <2>1, <3>1 DEF ReminderInv, RemindersOnce, Reminder
  <2>. QED  BY <1>1, <1>6, <2>1, <2>3, <2>4, <2>5 DEF ReminderInv
<1>. QED  BY <1>4, <1>5, <1>6

\* What is sent was the sender's own.
LEMMA SendKeeps ==
  ASSUME ReminderInv, NEW i \in Instances, SendReminder(i)
  PROVE  ReminderInv'
<1>. DEFINE key == Reminder(i).key
            row == [Reminder(i) EXCEPT !.pc = "next", !.key = NoKey]
<1>1. /\ UNCHANGED <<up, crontab, dispatched>> /\ Reminder(i).pc = "send"
      /\ {"pc", "key", "keys"} \subseteq DOMAIN Reminder(i)
      /\ key \in Keys \cap dispatched /\ sent[key] = 0
  BY DEF SendReminder, At, Reminder, ReminderInv, SendsNew, tables
<1>2. row.pc = "next" /\ row.key = NoKey /\ {"pc", "key", "keys"} \subseteq DOMAIN row
  BY <1>1
<1>3. /\ job' = [job EXCEPT ![i]["reminders"] = row]
      /\ \/ sent' = [sent EXCEPT ![key] = sent[key] + 1] /\ UNCHANGED lost
         \/ lost' = lost \cup {key} /\ UNCHANGED sent
  BY DEF SendReminder, Reminder, ReminderInv
<1>. HIDE DEF row
<1>4. /\ JobTable' /\ Reminder(i)' = row
      /\ \A k \in Instances \ {i} : Reminder(k)' = Reminder(k)
  BY <1>3, OtherRows DEF Jobs
<1>5. \A k \in Instances \ {i} : Reminder(k).key # key
  BY <1>1, NoKeyIsNone DEF ReminderInv, OwnReminder
<1>. HIDE DEF key
<1>6. /\ sent' \in [Keys -> {0, 1}] /\ \A other \in Keys \ {key} : sent'[other] = sent[other]
      /\ sent'[key] = 1 \/ key \in lost'
      /\ lost \subseteq lost'
  BY <1>1, <1>3 DEF ReminderInv
<1>7. ASSUME NEW k \in Instances PROVE SendsNew(k)'
  BY <1>1, <1>2, <1>4, <1>5, <1>6 DEF ReminderInv, SendsNew
<1>8. OwnReminder'
  BY <1>2, <1>4 DEF ReminderInv, OwnReminder
<1>9. RemindersOnce'
  <2>1. ASSUME NEW other \in Keys \ {key}, NEW k \in Instances, Reminder(k).key = other
        PROVE  Reminder(k).key' = other
    BY <1>4, <2>1 DEF key
  <2>. QED  BY <1>1, <1>6, <2>1 DEF ReminderInv, RemindersOnce, Reminder
<1>. QED  BY <1>1, <1>4, <1>6, <1>7, <1>8, <1>9 DEF ReminderInv

\* A reminder that an instance was about to send is lost with it.
LEMMA CrashKeeps ==
  ASSUME ReminderInv, NEW i \in Instances, Crash(i)
  PROVE  ReminderInv'
<1>1. Ended.pc = "ended" /\ Ended.key = NoKey /\ {"pc", "key", "keys"} \subseteq DOMAIN Ended
  BY DEF Ended, Off
<1>2. UNCHANGED <<up, crontab, dispatched, sent>>
  BY DEF Crash, tables
<1>3. /\ JobTable' /\ Reminder(i)' = Ended
      /\ \A k \in Instances \ {i} : Reminder(k)' = Reminder(k)
  BY DEF Crash, ReminderInv, JobTable, Reminder, Jobs
<1>4. lost \subseteq lost' /\ (Reminder(i).pc = "send" => Reminder(i).key \in lost')
  BY DEF Crash, At, Reminder
<1>5. ASSUME NEW k \in Instances PROVE SendsNew(k)'
  BY <1>1, <1>2, <1>3 DEF ReminderInv, SendsNew
<1>6. OwnReminder'
  BY <1>1, <1>3 DEF ReminderInv, OwnReminder
<1>7. RemindersOnce'
  <2>1. ASSUME NEW key \in Keys, NEW k \in Instances, Reminder(k).key = key
        PROVE  Reminder(k).key' = key \/ key \in lost'
    BY <1>3, <1>4, <2>1, NoKeyIsNone DEF ReminderInv, SendsNew
  <2>. QED  BY <1>2, <1>4, <2>1 DEF ReminderInv, RemindersOnce, Reminder
<1>. QED  BY <1>2, <1>3, <1>5, <1>6, <1>7 DEF ReminderInv

\* Every reminder job has ended when the hour strikes.
LEMMA StrikeKeeps ==
  ASSUME ReminderInv, Strike
  PROVE  ReminderInv'
<1>1. Off.pc = "off" /\ Off.key = NoKey /\ {"pc", "key", "keys"} \subseteq DOMAIN Off
  BY DEF Off
<1>2. UNCHANGED <<crontab, dispatched, sent, lost>>
  BY DEF Strike, tables, ghosts
<1>3. JobTable' /\ \A i \in Instances : Reminder(i)' = Off
  BY DEF Strike, JobTable, Reminder, Jobs
<1>4. ASSUME NEW i \in Instances PROVE Reminder(i).pc # "send"
  <2>1. SUFFICES ASSUME i \in up, "reminders" \in crontab.jobs PROVE Reminder(i).pc # "send"
    BY DEF ReminderInv, SendsNew
  <2>2. "reminders" \in Due
    BY <2>1 DEF Due
  <2>. QED  BY <2>1, <2>2 DEF Strike, At, Reminder
<1>5. \A i \in Instances : Reminder(i).key = NoKey
  BY <1>4 DEF ReminderInv, SendsNew
<1>6. \A i \in Instances : SendsNew(i)'
  BY <1>1, <1>3 DEF SendsNew
<1>7. OwnReminder'
  BY <1>1, <1>3 DEF OwnReminder
<1>8. RemindersOnce'
  BY <1>2, <1>5, NoKeyIsNone DEF ReminderInv, RemindersOnce, Reminder
<1>. QED  BY <1>2, <1>3, <1>6, <1>7, <1>8 DEF ReminderInv

\* The reminder job starts or ends.
LEMMA JobsKeep ==
  ASSUME ReminderInv, NEW i \in Instances, NEW j \in Jobs,
         Start(i, j) \/ CutOff(i, j) \/ LoopEnds(i, j)
  PROVE  ReminderInv'
<1>1. UNCHANGED <<up, crontab, dispatched, sent, lost>>
  BY DEF Start, CutOff, LoopEnds, tables, ghosts
<1>2. /\ j = "reminders" => {"pc", "key", "keys"} \subseteq DOMAIN Reminder(i)
      /\ j = "reminders" /\ Reminder(i).pc # "send" => Reminder(i).key = NoKey
  BY DEF ReminderInv, SendsNew
<1>3. j = "reminders" => Reminder(i).pc # "send"
  BY DEF Start, CutOff, LoopEnds, At, Reminder
<1>4. ASSUME NEW row, job' = [job EXCEPT ![i][j] = row],
             j = "reminders" =>
               row.pc = "ended" /\ row.key = NoKey /\ {"pc", "key", "keys"} \subseteq DOMAIN row
      PROVE  ReminderInv'
  <2>1. CASE j # "reminders"
    BY <1>1, <1>4, <2>1, OtherJobsKeep
  <2>2. CASE j = "reminders"
    <3>1. /\ JobTable' /\ Reminder(i)' = row
          /\ \A k \in Instances \ {i} : Reminder(k)' = Reminder(k)
      BY <1>4, <2>2, OtherRows
    <3>2. Reminder(i).pc # "send" /\ Reminder(i).pc' = "ended" /\ Reminder(i).key' = NoKey
          /\ {"pc", "key", "keys"} \subseteq DOMAIN Reminder(i)'
      BY <1>3, <1>4, <2>2, <3>1
    <3>. QED  BY <1>1, <3>1, <3>2, RemindersKept
  <2>. QED  BY <2>1, <2>2
<1>5. CASE Start(i, j)
  BY <1>4, <1>5 DEF Start
<1>6. CASE CutOff(i, j)
  <2>1. Ended.pc = "ended" /\ Ended.key = NoKey /\ {"pc", "key", "keys"} \subseteq DOMAIN Ended
    BY DEF Ended, Off
  <2>2. job' = [job EXCEPT ![i][j] = Ended]
    BY <1>6 DEF CutOff
  <2>. QED  BY <1>4, <2>1, <2>2
<1>7. CASE LoopEnds(i, j)
  <2>. DEFINE row == [job[i][j] EXCEPT !.pc = "ended"]
  <2>1. j = "reminders" =>
          row.pc = "ended" /\ row.key = NoKey /\ {"pc", "key", "keys"} \subseteq DOMAIN row
    BY <1>2, <1>3 DEF Reminder
  <2>2. job' = [job EXCEPT ![i][j] = row]
    BY <1>7 DEF LoopEnds, Goto
  <2>. HIDE DEF row
  <2>. QED  BY <1>4, <2>1, <2>2
<1>. QED  BY <1>5, <1>6, <1>7

LEMMA StartKeeps ==
  ASSUME ReminderInv, NEW i \in Instances, StartReminders(i)
  PROVE  ReminderInv'
<1>. DEFINE row == [Off EXCEPT !.pc = "next", !.keys = DueKeys]
<1>1. row.pc = "next" /\ row.key = NoKey /\ {"pc", "key", "keys"} \subseteq DOMAIN row
  BY DEF Off
<1>2. /\ UNCHANGED <<up, crontab, dispatched, sent, lost>> /\ Reminder(i).pc # "send"
      /\ job' = [job EXCEPT ![i]["reminders"] = row] /\ "reminders" \in crontab.jobs
  BY DEF StartReminders, At, Due, Reminder, tables, ghosts
<1>. HIDE DEF row
<1>3. /\ JobTable' /\ Reminder(i)' = row
      /\ \A k \in Instances \ {i} : Reminder(k)' = Reminder(k)
  BY <1>2, OtherRows DEF Jobs
<1>4. Reminder(i).pc # "send" /\ Reminder(i).pc' = "next" /\ Reminder(i).key' = NoKey
      /\ {"pc", "key", "keys"} \subseteq DOMAIN Reminder(i)'
  BY <1>1, <1>2, <1>3
<1>. QED  BY <1>2, <1>3, <1>4, RemindersKept

\* The steps on baselines and events.
LEMMA BaselinesKeep ==
  ASSUME ReminderInv, NEW i \in Instances, NEW j \in {"daily", "nightly"}, NEW pc,
         ReadOutput(i) \/ ReadBaseline(i, j, pc) \/ WriteBaseline(i, j) \/ FlagFallback(i)
  PROVE  ReminderInv'
<1>1. ASSUME UNCHANGED <<up, crontab, dispatched, sent, lost>>,
             NEW m \in Jobs \ {"reminders"}, NEW row, job' = [job EXCEPT ![i][m] = row]
      PROVE  ReminderInv'
  BY <1>1, OtherJobsKeep
<1>2. CASE ReadOutput(i)
  <2>1. UNCHANGED <<up, crontab, dispatched, sent, lost>>
    BY <1>2 DEF ReadOutput, tables
  <2>2. \E row : job' = [job EXCEPT ![i]["daily"] = row]
    BY <1>2 DEF ReadOutput
  <2>. QED  BY <1>1, <2>1, <2>2 DEF Jobs
<1>3. CASE ReadBaseline(i, j, pc)
  <2>1. UNCHANGED <<up, crontab, dispatched, sent, lost>>
    BY <1>3 DEF ReadBaseline, tables
  <2>2. \/ job' = [job EXCEPT ![i][j].pc = "write", ![i][j].seen = baseline[Head(job[i][j].todo)]]
        \/ Done(i, j)
    BY <1>3 DEF ReadBaseline
  <2>3. CASE Done(i, j)
    BY <1>1, <2>1, <2>3 DEF Done, Jobs
  <2>4. CASE job' = [job EXCEPT ![i][j].pc = "write", ![i][j].seen = baseline[Head(job[i][j].todo)]]
    <3>1. JobTable' /\ \A k \in Instances : Reminder(k)' = Reminder(k)
      BY <2>4 DEF ReminderInv, JobTable, Reminder, Jobs
    <3>. QED  BY <2>1, <3>1, RemindersKept
  <2>. QED  BY <2>2, <2>3, <2>4
<1>4. CASE WriteBaseline(i, j)
  <2>1. UNCHANGED <<up, crontab, dispatched, sent, lost>> /\ Done(i, j)
    BY <1>4 DEF WriteBaseline
  <2>. QED  BY <1>1, <2>1 DEF Done, Jobs
<1>5. CASE FlagFallback(i)
  <2>1. UNCHANGED <<up, crontab, dispatched, sent, lost>> /\ Goto(i, "fallback", "ended")
    BY <1>5 DEF FlagFallback
  <2>2. JobTable' /\ \A k \in Instances : Reminder(k)' = Reminder(k)
    BY <2>1 DEF Goto, ReminderInv, JobTable, Reminder, Jobs
  <2>. QED  BY <2>1, <2>2, RemindersKept
<1>. QED  BY <1>2, <1>3, <1>4, <1>5

\* The servers of an hour are instances.
Deployed == up \subseteq Instances

LEMMA UpInit == Init => Deployed
  BY DEF Init, Deployed

LEMMA UpStep == Deployed /\ [Next]_vars => Deployed'
  BY DEF Deployed, Next, vars, tables, ghosts, EndCycle, LogConversion, ColdRead, ColdWrite, Strike, Deploy,
     Crash, ReadOutput, ReadBaseline, FlagFallback, StartReminders, SendReminder,
     TryRecordEmailDispatch, Start, CutOff, LoopEnds, WriteBaseline

LEMMA ReminderStep == ReminderInv /\ Deployed /\ [Next]_vars => ReminderInv'
<1>. SUFFICES ASSUME ReminderInv, Deployed, [Next]_vars PROVE ReminderInv'
  OBVIOUS
<1>1. CASE \/ UNCHANGED vars \/ EndCycle
           \/ \E t \in Talents : LogConversion(t) \/ \E c \in ColdStarts : ColdRead(c, t)
           \/ \E c \in ColdStarts : ColdWrite(c)
  <2>1. UNCHANGED <<up, crontab, dispatched, sent, lost, job>>
    BY <1>1 DEF vars, tables, ghosts, EndCycle, LogConversion, ColdRead, ColdWrite
  <2>2. JobTable' /\ \A i \in Instances : Reminder(i)' = Reminder(i)
    BY <2>1 DEF ReminderInv, JobTable, Reminder
  <2>. QED  BY <2>1, <2>2, RemindersKept
<1>2. CASE Strike
  BY <1>2, StrikeKeeps
<1>3. ASSUME NEW i \in up,
             \/ Crash(i) \/ ReadOutput(i) \/ ReadBaseline(i, "daily", "read")
             \/ ReadBaseline(i, "nightly", "next")
             \/ FlagFallback(i) \/ StartReminders(i) \/ SendReminder(i)
             \/ \E key \in Keys : TryRecordEmailDispatch(i, key)
             \/ \E j \in Jobs : Start(i, j) \/ CutOff(i, j) \/ LoopEnds(i, j)
             \/ \E j \in {"daily", "nightly"} : WriteBaseline(i, j)
      PROVE  ReminderInv'
  BY <1>3, CrashKeeps, BaselinesKeep, StartKeeps, SendKeeps, RecordKeeps, JobsKeep
     DEF Deployed
<1>. QED  BY <1>1, <1>2, <1>3 DEF Next

\* A reminder is sent at most once, and one that is recorded is sent unless the
\* instance stopped or the mail server refused it, for any number of instances
\* that overlap, of hours and of failures (internal/jobs/cycle_reminders.go:22, 94).
THEOREM RemindersCorrect == Spec => []RemindersOnce
<1>1. ReminderInv => RemindersOnce
  BY DEF ReminderInv
<1>. QED  BY <1>1, ReminderInit, ReminderStep, UpInit, UpStep, PTL DEF Spec

-----------------------------------------------------------------------------
(* What is learned *)

ClockTyped ==
  /\ crontab \in Crontabs /\ up \subseteq Instances /\ overlaps \in 0 .. MaxOverlaps
  /\ hour \in 0 .. MaxHour /\ active \in BOOLEAN /\ failures \in 0 .. MaxFailures

EventsTyped ==
  /\ events \subseteq Talents \X (0 .. MaxHour) /\ flagged \subseteq events
  /\ IsFiniteSet(events) /\ Cardinality(events) <= MaxEvents

RowsTyped ==
  /\ baseline \in [Talents -> Baselines] /\ owed \in [Talents -> Baselines]
  /\ cold \in [ColdStarts -> Talents \cup {"idle", "done"}]
  /\ overlapped \subseteq Talents /\ misread \subseteq Talents

JobsTyped == job \in [Instances -> [Jobs -> JobRow]]

\* A job that runs was due in this hour, in a server of this hour; one that has
\* read something is at a talent.
Runs(i, j) ==
  /\ job[i][j].pc \notin {"off", "ended"} => i \in up /\ j \in Due
  /\ job[i][j].pc \in {"read", "write"} => j \in {"daily", "nightly"} /\ job[i][j].todo # <<>>

\* A job has read the baseline of t and not yet written it.
Writes(i, j, t) == job[i][j].pc = "write" /\ Head(job[i][j].todo) = t

\* While nothing overlaps on t, its baseline is the one that is owed; who is
\* about to write it has read it as it is, and is alone; and a cold start that
\* is about to seed it is alone and found none.
Kept(t) ==
  /\ baseline[t] = owed[t]
  /\ \A i \in Instances, j \in Jobs : Writes(i, j, t) =>
       baseline[t] # Absent /\ job[i][j].seen = baseline[t]
  /\ \A i, k \in Instances, j, m \in Jobs : Writes(i, j, t) /\ Writes(k, m, t) => i = k
  /\ \A c \in ColdStarts : cold[c] = t => baseline[t] = Absent
  /\ \A c, d \in ColdStarts : cold[c] = t /\ cold[d] = t => c = d

LearningInv ==
  /\ ClockTyped /\ EventsTyped /\ RowsTyped /\ JobsTyped
  /\ dispatched \subseteq Keys /\ lost \subseteq Keys /\ Instances # {}
  /\ \A i \in Instances, j \in Jobs : Runs(i, j)
  /\ \A t \in Talents \ (overlapped \cup misread) : Kept(t)

LEMMA DayMono == \A h \in 0 .. MaxHour : Day(h) \in 0 .. Day(MaxHour) /\ 0 \in 0 .. Day(MaxHour)
<1>1. MaxHour \in Nat /\ DayHours \in Nat \ {0}
  BY JobsAssumption
<1>. SUFFICES ASSUME NEW h \in 0 .. MaxHour
              PROVE  /\ h \div DayHours \in 0 .. MaxHour \div DayHours
                     /\ 0 \in 0 .. MaxHour \div DayHours
  BY DEF Day
<1>. DEFINE p == h \div DayHours
            q == MaxHour \div DayHours
<1>2. /\ p \in Int /\ q \in Int
      /\ DayHours * p <= h /\ h < DayHours * p + DayHours
      /\ DayHours * q <= MaxHour /\ MaxHour < DayHours * q + DayHours
  <2>1. p \in Int /\ h = DayHours * p + (h % DayHours) /\ h % DayHours \in 0 .. DayHours - 1
    BY <1>1
  <2>2. q \in Int /\ MaxHour = DayHours * q + (MaxHour % DayHours)
        /\ MaxHour % DayHours \in 0 .. DayHours - 1
    BY <1>1
  <2>. QED  BY <1>1, <2>1, <2>2
<1>. HIDE DEF p, q
<1>3. p >= 0
  <2>1. ASSUME p <= -1 PROVE FALSE
    <3>1. DayHours * p <= DayHours * (-1)
      BY <1>1, <1>2, <2>1
    <3>. QED  BY <1>1, <1>2, <3>1
  <2>. QED  BY <1>2, <2>1
<1>4. p <= q
  <2>1. ASSUME q + 1 <= p PROVE FALSE
    <3>1. DayHours * (q + 1) <= DayHours * p
      BY <1>1, <1>2, <2>1
    <3>2. DayHours * (q + 1) = DayHours * q + DayHours
      BY <1>1, <1>2
    <3>. QED  BY <1>1, <1>2, <3>1, <3>2
  <2>. QED  BY <1>2, <2>1
<1>. QED  BY <1>2, <1>3, <1>4 DEF p, q

\* The order in which a job takes the talents.
LEMMA TalentsInOrder == SetToSeq(Talents) \in Seq(Talents)
<1>1. IsFiniteSet(Talents)
  BY JobsAssumption
<1>2. Cardinality(Talents) \in Nat /\ ExistsBijection(1 .. Cardinality(Talents), Talents)
  BY <1>1, FS_CardinalityType
<1>3. \E f \in [1 .. Cardinality(Talents) -> Talents] : IsInjective(f)
  BY <1>2 DEF ExistsBijection, Bijection, Injection
<1>4. SetToSeq(Talents) \in [1 .. Cardinality(Talents) -> Talents]
  BY <1>3 DEF SetToSeq
<1>. QED  BY <1>2, <1>4

LEMMA OffTyped ==
  /\ Absent \in Baselines /\ Seed \in Baselines /\ Absent # Seed
  /\ Off \in JobRow /\ Ended \in JobRow
  /\ Off.pc = "off" /\ Ended.pc = "ended"
<1>1. <<>> \in Seq(0 .. MaxEvents) /\ -2 \in -2 .. MaxHour /\ -1 \in -2 .. MaxHour
      /\ 0 \in 0 .. MaxEvents /\ <<>> \in Seq(Talents)
  BY JobsAssumption
<1>2. Absent \in Baselines /\ Seed \in Baselines /\ Absent # Seed
  BY <1>1 DEF Absent, Seed, Baselines
<1>3. Off \in JobRow /\ Off.pc = "off"
  BY <1>1, <1>2 DEF Off, JobRow
<1>4. Ended \in JobRow /\ Ended.pc = "ended"
  BY <1>3 DEF Ended, JobRow
<1>. QED  BY <1>2, <1>3, <1>4

LEMMA LearningInit == Init => LearningInv
<1>. SUFFICES ASSUME Init PROVE LearningInv
  OBVIOUS
<1>1. /\ job \in [Instances -> [Jobs -> JobRow]]
      /\ \A i \in Instances, j \in Jobs : job[i][j].pc = "off"
  BY OffTyped DEF Init
<1>2. ClockTyped /\ Instances # {}
  BY JobsAssumption DEF Init, ClockTyped
<1>3. EventsTyped
  BY FS_EmptySet, JobsAssumption DEF Init, EventsTyped
<1>4. RowsTyped /\ baseline = owed /\ \A c \in ColdStarts : cold[c] = "idle"
  BY OffTyped DEF Init, RowsTyped
<1>5. \A t \in Talents : Kept(t)
  BY <1>1, <1>4, JobsAssumption DEF Kept, Writes
<1>6. dispatched \subseteq Keys /\ lost \subseteq Keys
  BY DEF Init
<1>. QED  BY <1>1, <1>2, <1>3, <1>4, <1>5, <1>6 DEF LearningInv, JobsTyped, Runs

\* A step of a single job.
Moves(i, j, row) == job' = [job EXCEPT ![i][j] = row]

LEMMA RowMoves ==
  ASSUME LearningInv, NEW i \in Instances, NEW j \in Jobs, NEW row \in JobRow,
         Moves(i, j, row)
  PROVE  /\ JobsTyped' /\ job'[i][j] = row
         /\ \A k \in Instances, m \in Jobs : k # i \/ m # j => job'[k][m] = job[k][m]
  BY DEF LearningInv, JobsTyped, Moves

LEMMA RowRuns ==
  ASSUME LearningInv, UNCHANGED <<hour, crontab, up>>,
         NEW i \in up, NEW j \in Jobs, NEW row \in JobRow, Moves(i, j, row),
         row.pc \notin {"off", "ended"} => j \in Due,
         row.pc \in {"read", "write"} => j \in {"daily", "nightly"} /\ row.todo # <<>>
  PROVE  \A k \in Instances, m \in Jobs : Runs(k, m)'
<1>1. i \in Instances
  BY DEF LearningInv, ClockTyped
<1>2. job'[i][j] = row /\ \A k \in Instances, m \in Jobs : k # i \/ m # j => job'[k][m] = job[k][m]
  BY <1>1, RowMoves
<1>3. Due' = Due
  BY DEF Due
<1>. QED  BY <1>2, <1>3 DEF LearningInv, Runs

\* A talent stays kept while its baseline and the cold starts are left alone
\* and nobody begins to write.
LEMMA KeptStays ==
  ASSUME UNCHANGED <<baseline, owed, cold>>, NEW t, Kept(t),
         \A i \in Instances, j \in Jobs :
           Writes(i, j, t)' => Writes(i, j, t) /\ job'[i][j].seen = job[i][j].seen
  PROVE  Kept(t)'
  BY DEF Kept

\* A job that moves without reading a baseline.
LEMMA RowKept ==
  ASSUME LearningInv, UNCHANGED <<baseline, owed, cold>>,
         overlapped \subseteq overlapped', misread \subseteq misread',
         NEW i \in Instances, NEW j \in Jobs, NEW row \in JobRow,
         Moves(i, j, row), row.pc # "write"
  PROVE  \A t \in Talents \ (overlapped' \cup misread') : Kept(t)'
<1>. SUFFICES ASSUME NEW t \in Talents \ (overlapped' \cup misread') PROVE Kept(t)'
  OBVIOUS
<1>1. Kept(t)
  BY DEF LearningInv
<1>2. job'[i][j] = row /\ \A k \in Instances, m \in Jobs : k # i \/ m # j => job'[k][m] = job[k][m]
  BY RowMoves
<1>. QED  BY <1>1, <1>2, KeptStays DEF Writes

\* What a step of a job leaves alone besides, if it is not about events.
Apart == UNCHANGED <<hour, crontab, up, overlaps, active, events, flagged>>

LEMMA ApartKeeps ==
  ASSUME LearningInv, Apart, failures' \in 0 .. MaxFailures
  PROVE  ClockTyped' /\ EventsTyped'
  BY DEF LearningInv, Apart, ClockTyped, EventsTyped

LEMMA FailuresTyped ==
  ASSUME LearningInv, UNCHANGED failures \/ Fails
  PROVE  failures' \in 0 .. MaxFailures
<1>1. MaxFailures \in Nat
  BY JobsAssumption
<1>. QED  BY <1>1 DEF LearningInv, ClockTyped, Fails

\* A step that gives a job a row that writes nothing, and touches no baseline.
LEMMA MoveKeeps ==
  ASSUME LearningInv, Apart, UNCHANGED <<baseline, owed, cold, overlapped, misread>>,
         UNCHANGED failures \/ Fails, dispatched' \subseteq Keys, lost' \subseteq Keys,
         NEW i \in up, NEW j \in Jobs, NEW row \in JobRow, Moves(i, j, row),
         row.pc \notin {"off", "ended"} => j \in Due,
         row.pc # "write",
         row.pc = "read" => j \in {"daily", "nightly"} /\ row.todo # <<>>
  PROVE  LearningInv'
<1>1. i \in Instances
  BY DEF LearningInv, ClockTyped
<1>2. ClockTyped' /\ EventsTyped'
  BY ApartKeeps, FailuresTyped
<1>3. RowsTyped'
  BY DEF LearningInv, RowsTyped
<1>4. JobsTyped' /\ \A k \in Instances, m \in Jobs : Runs(k, m)'
  BY <1>1, RowMoves, RowRuns DEF Apart
<1>5. \A t \in Talents \ (overlapped' \cup misread') : Kept(t)'
  BY <1>1, RowKept
<1>. QED  BY <1>2, <1>3, <1>4, <1>5 DEF LearningInv

\* The rows that the steps give their job.
LEMMA NextTyped ==
  ASSUME NEW todo \in Seq(Talents)
  PROVE  /\ [Off EXCEPT !.pc = "next", !.todo = todo] \in JobRow
         /\ [Off EXCEPT !.pc = "next", !.todo = todo].pc = "next"
  BY OffTyped DEF Off, JobRow

LEMMA SendingTyped ==
  ASSUME NEW keys \in SUBSET Keys
  PROVE  /\ [Off EXCEPT !.pc = "next", !.keys = keys] \in JobRow
         /\ [Off EXCEPT !.pc = "next", !.keys = keys].pc = "next"
  BY OffTyped DEF Off, JobRow

LEMMA TailTyped ==
  ASSUME LearningInv, NEW i \in Instances, NEW j \in Jobs, job[i][j].todo # <<>>
  PROVE  Head(job[i][j].todo) \in Talents /\ Tail(job[i][j].todo) \in Seq(Talents)
<1>1. job[i][j].todo \in Seq(Talents)
  BY DEF LearningInv, JobsTyped, JobRow
<1>. QED  BY <1>1

LEMMA DoneKeeps ==
  ASSUME LearningInv, NEW i \in up, NEW j \in Jobs, Done(i, j),
         job[i][j].todo # <<>>, job[i][j].pc \notin {"off", "ended"},
         Apart, UNCHANGED <<baseline, owed, cold, overlapped, misread, dispatched, lost>>,
         UNCHANGED failures \/ Fails
  PROVE  LearningInv'
<1>. DEFINE row == [Off EXCEPT !.pc = "next", !.todo = Tail(job[i][j].todo)]
<1>1. i \in Instances /\ j \in Due
  BY DEF LearningInv, ClockTyped, Runs
<1>2. row \in JobRow /\ row.pc = "next"
  BY <1>1, TailTyped, NextTyped
<1>3. Moves(i, j, row)
  BY DEF Done, Moves
<1>4. dispatched' \subseteq Keys /\ lost' \subseteq Keys
  BY DEF LearningInv
<1>. HIDE DEF row
<1>. QED  BY <1>1, <1>2, <1>3, <1>4, MoveKeeps

\* The output of a day is counted among all events.
LEMMA OutputBounded ==
  ASSUME LearningInv, NEW t
  PROVE  TodayOutput(t) \in 0 .. MaxEvents
<1>1. IsFiniteSet(events) /\ Cardinality(events) <= MaxEvents /\ MaxEvents \in Nat
  BY JobsAssumption DEF LearningInv, EventsTyped
<1>. DEFINE day == {e \in events : e[1] = t /\ Day(e[2]) = Day(hour)}
<1>2. IsFiniteSet(day) /\ Cardinality(day) <= Cardinality(events)
  BY <1>1, FS_Subset
<1>3. Cardinality(day) \in Nat /\ Cardinality(events) \in Nat
  BY <1>1, <1>2, FS_CardinalityType
<1>. QED  BY <1>1, <1>2, <1>3 DEF TodayOutput

LEMMA OutputKeeps ==
  ASSUME LearningInv, NEW i \in up, ReadOutput(i)
  PROVE  LearningInv'
<1>1. /\ job[i]["daily"].pc = "next" /\ job[i]["daily"].todo # <<>>
      /\ UNCHANGED <<dispatched, lost>> /\ (UNCHANGED failures \/ Fails) /\ Apart
      /\ UNCHANGED <<baseline, owed, cold, overlapped, misread>>
  BY DEF ReadOutput, At, tables, Apart
<1>2. /\ "daily" \in Jobs /\ "daily" \in Due
      /\ job[i]["daily"] \in JobRow
  BY <1>1 DEF LearningInv, JobsTyped, Runs, Jobs, ClockTyped
<1>3. PICK n \in 0 .. MaxEvents :
        job' = [job EXCEPT ![i]["daily"] = [job[i]["daily"] EXCEPT !.pc = "read", !.k = n]]
  <2>1. TodayOutput(Head(job[i]["daily"].todo)) \in 0 .. MaxEvents /\ 0 \in 0 .. MaxEvents
    BY OutputBounded, JobsAssumption
  <2>. QED  BY <2>1 DEF ReadOutput
<1>. DEFINE row == [job[i]["daily"] EXCEPT !.pc = "read", !.k = n]
<1>4. row \in JobRow /\ row.pc = "read" /\ row.todo = job[i]["daily"].todo
  BY <1>2 DEF JobRow
<1>5. Moves(i, "daily", row)
  BY <1>3 DEF Moves
<1>6. dispatched' \subseteq Keys /\ lost' \subseteq Keys
  BY <1>1 DEF LearningInv
<1>. HIDE DEF row
<1>. QED  BY <1>1, <1>2, <1>4, <1>5, <1>6, MoveKeeps

\* What is read is what is there; if somebody else has read it too and not yet
\* written it, the talent counts as overlapped.
LEMMA ReadKeeps ==
  ASSUME LearningInv, NEW i \in up, NEW j \in {"daily", "nightly"}, NEW pc \in {"read", "next"},
         ReadBaseline(i, j, pc)
  PROVE  LearningInv'
<1>. DEFINE t == Head(job[i][j].todo)
<1>1. /\ job[i][j].pc = pc /\ job[i][j].todo # <<>> /\ Apart
      /\ UNCHANGED <<baseline, owed, cold, misread, dispatched, lost>>
  BY DEF ReadBaseline, At, tables, Apart
<1>2. /\ i \in Instances /\ j \in Jobs /\ j \in Due /\ job[i][j] \in JobRow
      /\ t \in Talents
  BY <1>1, TailTyped DEF LearningInv, JobsTyped, Runs, Jobs, ClockTyped
<1>3. CASE Done(i, j) /\ UNCHANGED overlapped /\ (UNCHANGED failures \/ Fails)
  BY <1>1, <1>2, <1>3, DoneKeeps
<1>4. CASE /\ baseline[t] # Absent
           /\ job' = [job EXCEPT ![i][j].pc = "write", ![i][j].seen = baseline[t]]
           /\ overlapped' = IF InUse(i, t) THEN overlapped \cup {t} ELSE overlapped
           /\ UNCHANGED failures
  <2>. DEFINE row == [job[i][j] EXCEPT !.pc = "write", !.seen = baseline[t]]
  <2>1. baseline[t] \in Baselines
    BY <1>2 DEF LearningInv, RowsTyped
  <2>2. row \in JobRow /\ row.pc = "write" /\ row.todo = job[i][j].todo /\ row.seen = baseline[t]
    BY <1>2, <2>1 DEF JobRow
  <2>3. Moves(i, j, row)
    BY <1>2, <1>4 DEF Moves, LearningInv, JobsTyped
  <2>. HIDE DEF row
  <2>4. ClockTyped' /\ EventsTyped'
    BY <1>1, <1>4, ApartKeeps DEF LearningInv, ClockTyped
  <2>5. overlapped \subseteq overlapped' /\ RowsTyped'
    BY <1>1, <1>2, <1>4 DEF LearningInv, RowsTyped
  <2>6. /\ JobsTyped' /\ job'[i][j] = row
        /\ \A k \in Instances, m \in Jobs : k # i \/ m # j => job'[k][m] = job[k][m]
    BY <1>2, <2>2, <2>3, RowMoves
  <2>7. \A k \in Instances, m \in Jobs : Runs(k, m)'
    BY <1>1, <1>2, <2>2, <2>3, RowRuns DEF Apart
  <2>8. ASSUME NEW u \in Talents \ (overlapped' \cup misread') PROVE Kept(u)'
    <3>1. Kept(u)
      BY <1>1, <2>5 DEF LearningInv
    <3>2. CASE u # t
      <4>1. \A k \in Instances, m \in Jobs :
              Writes(k, m, u)' => Writes(k, m, u) /\ job'[k][m].seen = job[k][m].seen
        BY <2>2, <2>6, <3>2 DEF Writes
      <4>. QED  BY <1>1, <3>1, <4>1, KeptStays
    <3>3. CASE u = t
      <4>1. ~InUse(i, t)
        BY <1>4, <3>3
      <4>2. \A k \in Instances \ {i}, m \in Jobs : ~Writes(k, m, u)
        BY <3>3, <4>1 DEF InUse, At, Writes
      <4>3. \A k \in Instances, m \in Jobs : Writes(k, m, u)' => k = i
        BY <2>6, <4>2 DEF Writes
      <4>4. \A m \in Jobs \ {j} : ~Writes(i, m, u)'
        <5>1. ASSUME NEW m \in Jobs \ {j}, Writes(i, m, u) PROVE FALSE
          <6>1. m \in {"daily", "nightly"} /\ m \in Due /\ hour \in Int
            BY <1>2, <5>1 DEF LearningInv, Runs, Writes, ClockTyped
          <6>. QED  BY <1>2, <5>1, <6>1 DEF Due
        <5>. QED  BY <2>6, <1>2, <5>1 DEF Writes
      <4>5. \A k \in Instances, m \in Jobs : Writes(k, m, u)' =>
              baseline'[u] # Absent /\ job'[k][m].seen = baseline'[u]
        BY <1>1, <1>4, <2>2, <2>6, <3>3, <4>3, <4>4
      <4>. QED  BY <1>1, <3>1, <4>3, <4>5 DEF Kept
    <3>. QED  BY <3>2, <3>3
  <2>9. dispatched' \subseteq Keys /\ lost' \subseteq Keys
    BY <1>1 DEF LearningInv
  <2>. QED  BY <2>4, <2>5, <2>6, <2>7, <2>8, <2>9 DEF LearningInv
<1>. QED  BY <1>3, <1>4 DEF ReadBaseline

\* The daily and the nightly job are never due in the same hour.
LEMMA DueApart ==
  ASSUME LearningInv, NEW i \in Instances, NEW j \in Jobs, NEW m \in Jobs,
         job[i][j].pc = "write", job[i][m].pc = "write"
  PROVE  j = m
<1>1. /\ j \in {"daily", "nightly"} /\ j \in Due /\ m \in {"daily", "nightly"} /\ m \in Due
      /\ hour \in Int
  BY DEF LearningInv, Runs, ClockTyped
<1>. QED  BY <1>1 DEF Due

LEMMA UpdatedTyped ==
  ASSUME LearningInv, NEW j \in {"daily", "nightly"}, NEW k \in 0 .. MaxEvents, NEW row \in Baselines
  PROVE  Updated(j, k, row) \in Baselines /\ Updated(j, k, row) # Absent
<1>1. hour \in 0 .. MaxHour /\ MaxHour \in Nat
  BY JobsAssumption DEF LearningInv, ClockTyped
<1>2. row.learned \in Seq(0 .. MaxEvents) /\ row.sigma \in -2 .. MaxHour
  BY DEF Baselines
<1>3. Append(row.learned, k) \in Seq(0 .. MaxEvents) /\ Append(row.learned, k) # <<>>
  BY <1>2
<1>4. CASE j = "daily"
  <2>. DEFINE new == [row EXCEPT !.learned = Append(@, k)]
  <2>1. new \in Baselines /\ new.learned = Append(row.learned, k)
    BY <1>3 DEF Baselines
  <2>2. new # Absent
    BY <1>3, <2>1 DEF Absent
  <2>. QED  BY <1>4, <2>1, <2>2 DEF Updated
<1>5. CASE j = "nightly"
  <2>. DEFINE new == [row EXCEPT !.sigma = hour]
  <2>1. new \in Baselines /\ new.sigma = hour
    BY <1>1 DEF Baselines
  <2>2. new # Absent
    BY <1>1, <2>1 DEF Absent
  <2>. QED  BY <1>5, <2>1, <2>2 DEF Updated
<1>. QED  BY <1>4, <1>5

\* What is written is what was read, updated; and it was read as it still is.
LEMMA WriteKeeps ==
  ASSUME LearningInv, NEW i \in up, NEW j \in {"daily", "nightly"}, WriteBaseline(i, j)
  PROVE  LearningInv'
<1>. DEFINE t == Head(job[i][j].todo)
            n == job[i][j].k
            row == [Off EXCEPT !.pc = "next", !.todo = Tail(job[i][j].todo)]
<1>1. /\ job[i][j].pc = "write" /\ Apart /\ Done(i, j)
      /\ UNCHANGED <<cold, overlapped, misread, dispatched, lost>>
  BY DEF WriteBaseline, At, Apart
<1>2. i \in Instances /\ j \in Jobs /\ job[i][j] \in JobRow /\ job[i][j].todo # <<>> /\ j \in Due
  BY <1>1 DEF LearningInv, JobsTyped, Runs, Jobs, ClockTyped
<1>3. t \in Talents /\ n \in 0 .. MaxEvents /\ job[i][j].seen \in Baselines /\ owed[t] \in Baselines
  BY <1>2, TailTyped DEF JobRow, LearningInv, RowsTyped
<1>4. row \in JobRow /\ row.pc = "next" /\ Moves(i, j, row)
  BY <1>1, <1>2, TailTyped, NextTyped DEF Done, Moves
<1>. HIDE DEF row
<1>5. CASE Fails /\ UNCHANGED <<baseline, owed>>
  BY <1>1, <1>2, <1>5, DoneKeeps
<1>6. CASE /\ baseline' = [baseline EXCEPT ![t] = Updated(j, n, job[i][j].seen)]
           /\ owed' = [owed EXCEPT ![t] = Updated(j, n, owed[t])]
           /\ UNCHANGED failures
  <2>. DEFINE new == Updated(j, n, job[i][j].seen)
              due == Updated(j, n, owed[t])
  <2>1. new \in Baselines /\ new # Absent /\ due \in Baselines
    BY <1>3, UpdatedTyped
  <2>2. job[i][j].seen = owed[t] => new = due
    OBVIOUS
  <2>3. baseline' = [baseline EXCEPT ![t] = new] /\ owed' = [owed EXCEPT ![t] = due]
    BY <1>6
  <2>. HIDE DEF new, due, n
  <2>4. ClockTyped' /\ EventsTyped'
    BY <1>1, <1>6, ApartKeeps DEF LearningInv, ClockTyped
  <2>5. RowsTyped' /\ baseline'[t] = new /\ owed'[t] = due
        /\ \A u \in Talents \ {t} : baseline'[u] = baseline[u] /\ owed'[u] = owed[u]
    BY <1>1, <1>3, <2>1, <2>3 DEF LearningInv, RowsTyped
  <2>6. /\ JobsTyped' /\ job'[i][j] = row
        /\ \A k \in Instances, m \in Jobs : k # i \/ m # j => job'[k][m] = job[k][m]
    BY <1>2, <1>4, RowMoves
  <2>7. \A k \in Instances, m \in Jobs : Runs(k, m)'
    BY <1>1, <1>2, <1>4, RowRuns DEF Apart
  <2>8. ASSUME NEW u \in Talents \ (overlapped' \cup misread') PROVE Kept(u)'
    <3>1. Kept(u)
      BY <1>1 DEF LearningInv
    <3>2. \A k \in Instances, m \in Jobs :
            Writes(k, m, u)' => Writes(k, m, u) /\ job'[k][m].seen = job[k][m].seen
                                /\ (k # i \/ m # j)
      BY <1>4, <2>6 DEF Writes
    <3>3. CASE u # t
      BY <1>1, <2>5, <3>1, <3>2, <3>3 DEF Kept
    <3>4. CASE u = t
      <4>1. Writes(i, j, t)
        BY <1>1 DEF Writes
      <4>2. job[i][j].seen = baseline[t] /\ baseline[t] # Absent /\ baseline[t] = owed[t]
        BY <1>2, <3>1, <3>4, <4>1 DEF Kept
      <4>3. ASSUME NEW k \in Instances, NEW m \in Jobs, Writes(k, m, u)' PROVE FALSE
        <5>1. Writes(k, m, t) /\ (k # i \/ m # j)
          BY <3>2, <3>4, <4>3
        <5>2. k = i
          BY <1>2, <3>1, <3>4, <4>1, <5>1 DEF Kept
        <5>3. m = j
          BY <1>1, <1>2, <5>1, <5>2, DueApart DEF Writes
        <5>. QED  BY <5>1, <5>2, <5>3
      <4>4. \A c \in ColdStarts : cold'[c] # t
        BY <1>1, <3>1, <3>4, <4>2 DEF Kept
      <4>5. baseline'[t] = owed'[t]
        BY <2>2, <2>5, <4>2
      <4>. QED  BY <3>4, <4>3, <4>4, <4>5 DEF Kept
    <3>. QED  BY <3>3, <3>4
  <2>9. dispatched' \subseteq Keys /\ lost' \subseteq Keys
    BY <1>1 DEF LearningInv
  <2>. QED  BY <2>4, <2>5, <2>6, <2>7, <2>8, <2>9 DEF LearningInv
<1>. QED  BY <1>5, <1>6 DEF WriteBaseline

\* The cold starts leave the jobs alone.
LEMMA ColdApart ==
  ASSUME LearningInv, UNCHANGED <<hour, crontab, up, overlaps, active, events, flagged, job,
                                  dispatched, lost>>,
         UNCHANGED failures \/ Fails
  PROVE  /\ ClockTyped' /\ EventsTyped' /\ JobsTyped' /\ dispatched' \subseteq Keys /\ lost' \subseteq Keys
         /\ \A i \in Instances, j \in Jobs : Runs(i, j)'
         /\ \A t : \A i \in Instances, j \in Jobs : Writes(i, j, t)' <=> Writes(i, j, t)
<1>1. ClockTyped' /\ EventsTyped'
  BY ApartKeeps, FailuresTyped DEF Apart
<1>2. Due' = Due
  BY DEF Due
<1>3. JobsTyped' /\ \A i \in Instances, j \in Jobs : Runs(i, j)'
  BY <1>2 DEF LearningInv, JobsTyped, Runs
<1>. QED  BY <1>1, <1>3 DEF LearningInv, Writes

LEMMA ColdReadKeeps ==
  ASSUME LearningInv, NEW c \in ColdStarts, NEW t \in Talents, ColdRead(c, t)
  PROVE  LearningInv'
<1>1. /\ cold[c] = "idle" /\ cold' = [cold EXCEPT ![c] = t]
      /\ UNCHANGED <<baseline, owed>> /\ (UNCHANGED failures \/ Fails)
      /\ UNCHANGED <<hour, crontab, up, overlaps, active, events, flagged, job, dispatched, lost>>
      /\ \/ /\ baseline[t] = Absent /\ UNCHANGED misread
            /\ overlapped' = IF \E d \in ColdStarts : cold[d] = t THEN overlapped \cup {t} ELSE overlapped
         \/ misread' = misread \cup {t} /\ UNCHANGED overlapped
  BY DEF ColdRead, tables
<1>2. overlapped \subseteq overlapped' /\ misread \subseteq misread' /\ RowsTyped'
  BY <1>1 DEF LearningInv, RowsTyped
<1>3. /\ cold'[c] = t /\ \A d \in ColdStarts \ {c} : cold'[d] = cold[d]
  BY <1>1 DEF LearningInv, RowsTyped
<1>4. /\ ClockTyped' /\ EventsTyped' /\ JobsTyped' /\ dispatched' \subseteq Keys /\ lost' \subseteq Keys
      /\ \A i \in Instances, j \in Jobs : Runs(i, j)'
      /\ \A u : \A i \in Instances, j \in Jobs : Writes(i, j, u)' <=> Writes(i, j, u)
  BY <1>1, ColdApart
<1>5. ASSUME NEW u \in Talents \ (overlapped' \cup misread') PROVE Kept(u)'
  <2>1. Kept(u)
    BY <1>2 DEF LearningInv
  <2>2. /\ baseline'[u] = owed'[u]
        /\ \A i \in Instances, j \in Jobs : Writes(i, j, u)' =>
             baseline'[u] # Absent /\ job'[i][j].seen = baseline'[u]
        /\ \A i, k \in Instances, j, m \in Jobs : Writes(i, j, u)' /\ Writes(k, m, u)' => i = k
    BY <1>1, <1>4, <2>1 DEF Kept
  <2>3. CASE u # t
    BY <1>1, <1>3, <2>1, <2>2, <2>3 DEF Kept
  <2>4. CASE u = t
    <3>1. baseline[t] = Absent /\ \A d \in ColdStarts : cold[d] # t
      BY <1>1, <2>4
    <3>. QED  BY <1>1, <1>3, <2>2, <2>4, <3>1 DEF Kept
  <2>. QED  BY <2>3, <2>4
<1>. QED  BY <1>2, <1>4, <1>5 DEF LearningInv

\* A seed that is written replaces nothing.
LEMMA ColdWriteKeeps ==
  ASSUME LearningInv, NEW c \in ColdStarts, ColdWrite(c)
  PROVE  LearningInv'
<1>. DEFINE t == cold[c]
<1>1. /\ t \in Talents /\ cold' = [cold EXCEPT ![c] = "done"]
      /\ UNCHANGED <<overlapped, misread>> /\ (UNCHANGED failures \/ Fails)
      /\ UNCHANGED <<hour, crontab, up, overlaps, active, events, flagged, job, dispatched, lost>>
      /\ \/ /\ baseline' = [baseline EXCEPT ![t] = Seed]
            /\ owed' = IF owed[t] = Absent THEN [owed EXCEPT ![t] = Seed] ELSE owed
         \/ UNCHANGED <<baseline, owed>>
  BY DEF ColdWrite
<1>2. /\ RowsTyped' /\ cold'[c] = "done" /\ \A d \in ColdStarts \ {c} : cold'[d] = cold[d]
      /\ \A u \in Talents \ {t} : baseline'[u] = baseline[u] /\ owed'[u] = owed[u]
  BY <1>1, OffTyped DEF LearningInv, RowsTyped
<1>3. /\ ClockTyped' /\ EventsTyped' /\ JobsTyped' /\ dispatched' \subseteq Keys /\ lost' \subseteq Keys
      /\ \A i \in Instances, j \in Jobs : Runs(i, j)'
      /\ \A u : \A i \in Instances, j \in Jobs : Writes(i, j, u)' <=> Writes(i, j, u)
  BY <1>1, ColdApart
<1>4. ASSUME NEW u \in Talents \ (overlapped' \cup misread') PROVE Kept(u)'
  <2>1. Kept(u) /\ u # "done"
    BY <1>1, JobsAssumption DEF LearningInv
  <2>2. CASE u # t
    BY <1>1, <1>2, <1>3, <2>1, <2>2 DEF Kept
  <2>3. CASE u = t
    <3>1. baseline[t] = Absent /\ owed[t] = Absent
      BY <2>1, <2>3 DEF Kept
    <3>2. \A i \in Instances, j \in Jobs : ~Writes(i, j, t)
      BY <2>1, <2>3, <3>1 DEF Kept
    <3>3. \A d \in ColdStarts \ {c} : cold[d] # t
      BY <2>1, <2>3 DEF Kept
    <3>4. baseline'[t] = owed'[t]
      BY <1>1, <3>1 DEF LearningInv, RowsTyped
    <3>. QED  BY <1>2, <1>3, <2>1, <2>3, <3>2, <3>3, <3>4 DEF Kept
  <2>. QED  BY <2>2, <2>3
<1>. QED  BY <1>1, <1>2, <1>3, <1>4 DEF LearningInv

\* An event is of this hour; the cycle may end.
LEMMA EventsKeep ==
  ASSUME LearningInv, EndCycle \/ \E t \in Talents : LogConversion(t)
  PROVE  LearningInv'
<1>1. /\ UNCHANGED <<hour, crontab, up, overlaps, flagged, baseline, owed, cold, overlapped,
                     misread, dispatched, lost, job, failures>>
      /\ active' \in BOOLEAN
  BY DEF EndCycle, LogConversion, tables, ghosts, LearningInv, ClockTyped
<1>2. EventsTyped'
  <2>1. CASE EndCycle
    BY <1>1, <2>1 DEF EndCycle, tables, LearningInv, EventsTyped
  <2>2. ASSUME NEW t \in Talents, LogConversion(t) PROVE EventsTyped'
    <3>1. /\ events' = events \cup {<<t, hour>>} /\ <<t, hour>> \notin events
          /\ Cardinality(events) < MaxEvents /\ MaxEvents \in Nat
          /\ IsFiniteSet(events) /\ Cardinality(events) \in Nat
      BY <2>2, JobsAssumption, FS_CardinalityType DEF LogConversion, LearningInv, EventsTyped
    <3>2. IsFiniteSet(events') /\ Cardinality(events') = Cardinality(events) + 1
      BY <3>1, FS_AddElement
    <3>. QED  BY <1>1, <3>1, <3>2 DEF LearningInv, EventsTyped, ClockTyped
  <2>. QED  BY <2>1, <2>2
<1>3. ClockTyped' /\ RowsTyped' /\ JobsTyped'
  BY <1>1 DEF LearningInv, ClockTyped, RowsTyped, JobsTyped
<1>4. Due' = Due
  BY <1>1 DEF Due
<1>5. \A i \in Instances, j \in Jobs : Runs(i, j)'
  BY <1>1, <1>4 DEF LearningInv, Runs
<1>6. \A t \in Talents \ (overlapped' \cup misread') : Kept(t)'
  BY <1>1 DEF LearningInv, Kept, Writes
<1>. QED  BY <1>1, <1>2, <1>3, <1>5, <1>6 DEF LearningInv

\* A job that is at a talent is the daily or the nightly one.
LEMMA StartsKeep ==
  ASSUME LearningInv, NEW i \in up, NEW j \in Jobs, Start(i, j) \/ StartReminders(i)
  PROVE  LearningInv'
<1>1. /\ Apart /\ UNCHANGED <<baseline, owed, cold, overlapped, misread, failures>>
      /\ UNCHANGED <<dispatched, lost>>
  BY DEF Start, StartReminders, Apart, tables, ghosts
<1>2. dispatched' \subseteq Keys /\ lost' \subseteq Keys
  BY <1>1 DEF LearningInv
<1>3. CASE Start(i, j)
  <2>. DEFINE todo == IF j = "nightly" THEN SetToSeq(Talents) ELSE IF active THEN Assigned ELSE <<>>
              row == [Off EXCEPT !.pc = "next", !.todo = todo]
  <2>1. todo \in Seq(Talents)
    BY TalentsInOrder, JobsAssumption
  <2>. HIDE DEF todo
  <2>2. row \in JobRow /\ row.pc = "next"
    BY <2>1, NextTyped
  <2>3. j \in Due /\ Moves(i, j, row)
    BY <1>3 DEF Start, Moves, todo
  <2>. HIDE DEF row
  <2>. QED  BY <1>1, <1>2, <2>2, <2>3, MoveKeeps
<1>4. CASE StartReminders(i)
  <2>. DEFINE due == DueKeys
              row == [Off EXCEPT !.pc = "next", !.keys = due]
  <2>1. DueKeys \subseteq Keys
    <3>1. Day(hour) \in 0 .. Day(MaxHour) /\ 0 \in 0 .. Day(MaxHour)
      BY DayMono DEF LearningInv, ClockTyped
    <3>2. DueTemplates \subseteq Templates /\ "brand_stats_daily" \in Templates
      BY DEF DueTemplates, Templates
    <3>. QED  BY <3>1, <3>2 DEF DueKeys, Keys
  <2>2. due \in SUBSET Keys
    BY <2>1
  <2>. HIDE DEF due
  <2>3. row \in JobRow /\ row.pc = "next"
    BY <2>2, SendingTyped
  <2>4. "reminders" \in Due /\ "reminders" \in Jobs /\ Moves(i, "reminders", row)
    BY <1>4 DEF StartReminders, Moves, Jobs, due
  <2>. HIDE DEF row
  <2>. QED  BY <1>1, <1>2, <2>3, <2>4, MoveKeeps
<1>. QED  BY <1>3, <1>4

LEMMA EndsKeep ==
  ASSUME LearningInv, NEW i \in up, NEW j \in Jobs, CutOff(i, j) \/ LoopEnds(i, j)
  PROVE  LearningInv'
<1>1. /\ Apart /\ UNCHANGED <<baseline, owed, cold, overlapped, misread>>
      /\ UNCHANGED <<dispatched, lost>> /\ (UNCHANGED failures \/ Fails)
  BY DEF CutOff, LoopEnds, Apart, tables, ghosts
<1>2. dispatched' \subseteq Keys /\ lost' \subseteq Keys /\ i \in Instances
  BY <1>1 DEF LearningInv, ClockTyped
<1>3. CASE CutOff(i, j)
  <2>1. Moves(i, j, Ended)
    BY <1>3 DEF CutOff, Moves
  <2>. QED  BY <1>1, <1>2, <2>1, OffTyped, MoveKeeps
<1>4. CASE LoopEnds(i, j)
  <2>. DEFINE row == [job[i][j] EXCEPT !.pc = "ended"]
  <2>1. row \in JobRow /\ row.pc = "ended"
    <3>1. job[i][j] \in JobRow
      BY <1>2 DEF LearningInv, JobsTyped
    <3>. QED  BY <3>1 DEF JobRow
  <2>2. Moves(i, j, row)
    BY <1>4 DEF LoopEnds, Goto, Moves
  <2>. HIDE DEF row
  <2>. QED  BY <1>1, <1>2, <2>1, <2>2, MoveKeeps
<1>. QED  BY <1>3, <1>4

LEMMA FlagKeeps ==
  ASSUME LearningInv, NEW i \in up, FlagFallback(i)
  PROVE  LearningInv'
<1>1. /\ UNCHANGED <<hour, crontab, up, overlaps, active, events, baseline, owed, cold, overlapped,
                     misread, dispatched, lost>>
      /\ (UNCHANGED failures \/ Fails)
      /\ flagged' \subseteq flagged \cup events
      /\ Goto(i, "fallback", "ended")
  BY DEF FlagFallback
<1>2. i \in Instances /\ "fallback" \in Jobs
  BY DEF LearningInv, ClockTyped, Jobs
<1>. DEFINE row == [job[i]["fallback"] EXCEPT !.pc = "ended"]
<1>3. row \in JobRow /\ row.pc = "ended"
  <2>1. job[i]["fallback"] \in JobRow
    BY <1>2 DEF LearningInv, JobsTyped
  <2>. QED  BY <2>1 DEF JobRow
<1>4. Moves(i, "fallback", row)
  BY <1>1 DEF Goto, Moves
<1>. HIDE DEF row
<1>5. ClockTyped' /\ EventsTyped' /\ RowsTyped'
  BY <1>1, FailuresTyped DEF LearningInv, ClockTyped, EventsTyped, RowsTyped
<1>6. JobsTyped' /\ \A k \in Instances, m \in Jobs : Runs(k, m)'
  BY <1>1, <1>2, <1>3, <1>4, RowMoves, RowRuns
<1>7. \A t \in Talents \ (overlapped' \cup misread') : Kept(t)'
  BY <1>1, <1>2, <1>3, <1>4, RowKept
<1>. QED  BY <1>1, <1>5, <1>6, <1>7 DEF LearningInv

LEMMA RecordTyped ==
  ASSUME LearningInv, NEW i \in up, NEW key \in Keys, TryRecordEmailDispatch(i, key)
  PROVE  LearningInv'
<1>. DEFINE rest == [job[i]["reminders"] EXCEPT !.keys = @ \ {key}]
            row == [rest EXCEPT !.pc = "send", !.key = key]
<1>1. /\ Apart /\ UNCHANGED <<baseline, owed, cold, overlapped, misread, lost>>
      /\ (UNCHANGED failures \/ Fails) /\ dispatched' \subseteq dispatched \cup {key}
      /\ job[i]["reminders"].pc = "next"
      /\ \/ job' = [job EXCEPT ![i]["reminders"] = rest]
         \/ job' = [job EXCEPT ![i]["reminders"] = row]
  BY DEF TryRecordEmailDispatch, At, Apart
<1>2. "reminders" \in Jobs /\ job[i]["reminders"] \in JobRow /\ "reminders" \in Due
  BY <1>1 DEF LearningInv, JobsTyped, ClockTyped, Jobs, Runs
<1>3. rest \in JobRow /\ rest.pc = "next"
  BY <1>1, <1>2 DEF JobRow
<1>. HIDE DEF rest
<1>4. row \in JobRow /\ row.pc = "send"
  BY <1>3 DEF JobRow
<1>. HIDE DEF row
<1>5. dispatched' \subseteq Keys /\ lost' \subseteq Keys
  BY <1>1 DEF LearningInv
<1>6. Moves(i, "reminders", rest) \/ Moves(i, "reminders", row)
  BY <1>1 DEF Moves
<1>7. ASSUME NEW new \in {rest, row}, Moves(i, "reminders", new) PROVE LearningInv'
  BY <1>1, <1>2, <1>3, <1>4, <1>5, <1>7, MoveKeeps
<1>. QED  BY <1>6, <1>7

LEMMA SendTyped ==
  ASSUME LearningInv, ReminderInv, NEW i \in up, SendReminder(i)
  PROVE  LearningInv'
<1>. DEFINE row == [job[i]["reminders"] EXCEPT !.pc = "next", !.key = NoKey]
<1>1. /\ Apart /\ UNCHANGED <<baseline, owed, cold, overlapped, misread, dispatched>>
      /\ (UNCHANGED failures \/ Fails)
      /\ UNCHANGED lost \/ lost' = lost \cup {job[i]["reminders"].key}
      /\ job[i]["reminders"].pc = "send"
  BY DEF SendReminder, At, Apart, tables
<1>2. i \in Instances /\ "reminders" \in Jobs /\ job[i]["reminders"] \in JobRow /\ "reminders" \in Due
  BY <1>1 DEF LearningInv, JobsTyped, ClockTyped, Jobs, Runs
<1>3. row \in JobRow /\ row.pc = "next"
  BY <1>2 DEF JobRow
<1>4. Moves(i, "reminders", row)
  BY <1>2 DEF SendReminder, Moves, LearningInv, JobsTyped
<1>. HIDE DEF row
<1>5. job[i]["reminders"].key \in Keys
  BY <1>1, <1>2 DEF ReminderInv, SendsNew, Reminder
<1>6. dispatched' \subseteq Keys /\ lost' \subseteq Keys
  BY <1>1, <1>5 DEF LearningInv
<1>. QED  BY <1>1, <1>2, <1>3, <1>4, <1>6, MoveKeeps

\* All jobs of a server end at once; nobody writes more than before.
LEMMA CrashTyped ==
  ASSUME LearningInv, ReminderInv, NEW i \in up, Crash(i)
  PROVE  LearningInv'
<1>1. /\ Apart /\ UNCHANGED <<baseline, owed, cold, overlapped, misread, dispatched>>
      /\ Fails /\ job' = [job EXCEPT ![i] = [j \in Jobs |-> Ended]]
      /\ i \in Instances /\ "reminders" \in Jobs
  BY DEF Crash, Apart, tables, LearningInv, ClockTyped, Jobs
<1>2. JobsTyped' /\ (\A j \in Jobs : job'[i][j] = Ended)
      /\ \A k \in Instances \ {i} : job'[k] = job[k]
  BY <1>1, OffTyped DEF LearningInv, JobsTyped
<1>3. ClockTyped' /\ EventsTyped' /\ RowsTyped'
  BY <1>1, ApartKeeps, FailuresTyped DEF LearningInv, RowsTyped
<1>4. Due' = Due /\ up' = up
  BY <1>1 DEF Due, Apart
<1>5. \A k \in Instances, j \in Jobs : Runs(k, j)'
  BY <1>2, <1>4, OffTyped DEF LearningInv, Runs
<1>6. ASSUME NEW t \in Talents \ (overlapped' \cup misread') PROVE Kept(t)'
  <2>1. Kept(t)
    BY <1>1 DEF LearningInv
  <2>2. \A k \in Instances, j \in Jobs :
          Writes(k, j, t)' => Writes(k, j, t) /\ job'[k][j].seen = job[k][j].seen
    BY <1>2, OffTyped DEF Writes
  <2>. QED  BY <1>1, <2>1, <2>2, KeptStays
<1>7. lost' \subseteq Keys
  <2>1. job[i]["reminders"].pc = "send" => job[i]["reminders"].key \in Keys
    BY <1>1 DEF ReminderInv, SendsNew, Reminder
  <2>. QED  BY <2>1 DEF Crash, At, LearningInv
<1>8. dispatched' \subseteq Keys
  BY <1>1 DEF LearningInv
<1>. QED  BY <1>2, <1>3, <1>5, <1>6, <1>7, <1>8 DEF LearningInv

\* All jobs begin anew, none has anything to write.
LEMMA StrikeTyped ==
  ASSUME LearningInv, Strike
  PROVE  LearningInv'
<1>1. /\ UNCHANGED <<crontab, active, events, flagged, baseline, owed, cold, overlapped, misread,
                     dispatched, lost, failures>>
      /\ hour < crontab.last /\ hour' = hour + 1 /\ Deploy
      /\ job' = [i \in Instances |-> [j \in Jobs |-> Off]]
  BY DEF Strike, tables, ghosts
<1>2. crontab.last \in 0 .. MaxHour /\ MaxHour \in Nat /\ MaxOverlaps \in Nat
  BY JobsAssumption DEF LearningInv, ClockTyped
<1>3. hour' \in 0 .. MaxHour
  BY <1>1, <1>2 DEF LearningInv, ClockTyped
<1>4. up' \subseteq Instances /\ overlaps' \in 0 .. MaxOverlaps
  BY <1>1, <1>2 DEF Deploy, LearningInv, ClockTyped
<1>5. ClockTyped' /\ EventsTyped' /\ RowsTyped'
  BY <1>1, <1>3, <1>4 DEF LearningInv, ClockTyped, EventsTyped, RowsTyped
<1>6. JobsTyped' /\ \A i \in Instances, j \in Jobs : job'[i][j].pc = "off"
  BY <1>1, OffTyped DEF JobsTyped
<1>7. \A i \in Instances, j \in Jobs : Runs(i, j)'
  BY <1>6 DEF Runs
<1>8. ASSUME NEW t \in Talents \ (overlapped' \cup misread') PROVE Kept(t)'
  BY <1>1, <1>6 DEF LearningInv, Kept, Writes
<1>. QED  BY <1>1, <1>5, <1>6, <1>7, <1>8 DEF LearningInv

LEMMA LearningStep == LearningInv /\ ReminderInv /\ [Next]_vars => LearningInv'
<1>. SUFFICES ASSUME LearningInv, ReminderInv, [Next]_vars PROVE LearningInv'
  OBVIOUS
<1>1. CASE UNCHANGED vars
  <2>1. ClockTyped' /\ EventsTyped' /\ RowsTyped' /\ JobsTyped'
        /\ dispatched' \subseteq Keys /\ lost' \subseteq Keys
    BY <1>1 DEF vars, tables, ghosts, LearningInv, ClockTyped, EventsTyped, RowsTyped, JobsTyped
  <2>2. Due' = Due
    BY <1>1 DEF vars, Due
  <2>3. \A i \in Instances, j \in Jobs : Runs(i, j)'
    BY <1>1, <2>2 DEF vars, LearningInv, Runs
  <2>4. \A t \in Talents \ (overlapped' \cup misread') : Kept(t)'
    BY <1>1 DEF vars, tables, ghosts, LearningInv, Kept, Writes
  <2>. QED  BY <2>1, <2>3, <2>4 DEF LearningInv
<1>2. CASE EndCycle \/ Strike \/ \E t \in Talents : LogConversion(t)
  BY <1>2, EventsKeep, StrikeTyped
<1>3. CASE \/ \E t \in Talents, c \in ColdStarts : ColdRead(c, t)
           \/ \E c \in ColdStarts : ColdWrite(c)
  BY <1>3, ColdReadKeeps, ColdWriteKeeps
<1>4. ASSUME NEW i \in up,
             \/ Crash(i) \/ ReadOutput(i) \/ ReadBaseline(i, "daily", "read")
             \/ ReadBaseline(i, "nightly", "next")
             \/ FlagFallback(i) \/ StartReminders(i) \/ SendReminder(i)
             \/ \E key \in Keys : TryRecordEmailDispatch(i, key)
             \/ \E j \in Jobs : Start(i, j) \/ CutOff(i, j) \/ LoopEnds(i, j)
             \/ \E j \in {"daily", "nightly"} : WriteBaseline(i, j)
      PROVE  LearningInv'
  <2>1. "daily" \in Jobs
    BY DEF Jobs
  <2>2. CASE Crash(i) \/ ReadOutput(i) \/ FlagFallback(i) \/ SendReminder(i)
    BY <2>2, CrashTyped, OutputKeeps, FlagKeeps, SendTyped
  <2>3. CASE ReadBaseline(i, "daily", "read") \/ ReadBaseline(i, "nightly", "next")
    BY <2>3, ReadKeeps
  <2>4. CASE \/ StartReminders(i)
             \/ \E j \in Jobs : Start(i, j) \/ CutOff(i, j) \/ LoopEnds(i, j)
    BY <2>1, <2>4, StartsKeep, EndsKeep
  <2>5. CASE \/ \E key \in Keys : TryRecordEmailDispatch(i, key)
             \/ \E j \in {"daily", "nightly"} : WriteBaseline(i, j)
    BY <2>5, RecordTyped, WriteKeeps
  <2>. QED  BY <1>4, <2>2, <2>3, <2>4, <2>5
<1>. QED  BY <1>1, <1>2, <1>3, <1>4 DEF Next

LEMMA JobsAlways == Spec => [](ReminderInv /\ LearningInv)
<1>1. Init => ReminderInv /\ Deployed /\ LearningInv
  BY ReminderInit, UpInit, LearningInit
<1>2. ReminderInv /\ Deployed /\ LearningInv /\ [Next]_vars =>
        (ReminderInv /\ Deployed /\ LearningInv)'
  BY ReminderStep, UpStep, LearningStep
<1>. QED  BY <1>1, <1>2, PTL DEF Spec

\* The tables, the jobs and the clock keep their types (ScheduledJobs); no
\* output counts more events than there are.
THEOREM TypeCorrect == Spec => []TypeOK
<1>1. ReminderInv /\ LearningInv => TypeOK
  <2>. SUFFICES ASSUME ReminderInv, LearningInv PROVE TypeOK
    OBVIOUS
  <2>1. sent \in [Keys -> 0 .. Cardinality(Instances)]
    <3>1. Cardinality(Instances) \in Nat /\ Cardinality(Instances) # 0
      BY JobsAssumption, FS_CardinalityType, FS_EmptySet DEF LearningInv
    <3>2. {0, 1} \subseteq 0 .. Cardinality(Instances)
      BY <3>1
    <3>. QED  BY <3>2 DEF ReminderInv
  <2>. QED  BY <2>1 DEF LearningInv, ClockTyped, EventsTyped, RowsTyped, JobsTyped, TypeOK
<1>. QED  BY <1>1, JobsAlways, PTL

\* No update of a baseline is lost, for any number of servers, talents, cold
\* starts and failures: within an hour only one of the jobs that learn is due, and
\* each has ended before the next hour strikes.  What overlaps on a talent is
\* counted against that talent only (internal/jobs/daily_compute.go:151,
\* internal/baseline/coldstart.go:13).
THEOREM LearningCorrect == Spec => []LearningKept
<1>1. LearningInv => LearningKept
  BY DEF LearningInv, Kept, LearningKept
<1>. QED  BY <1>1, JobsAlways, PTL
=============================================================================
