--------------------------- MODULE ScheduledJobs ---------------------------
(***************************************************************************)
(* The background jobs (internal/jobs), started by the hour in every       *)
(* instance of the server (cmd/main.go), and the cold start of baselines   *)
(* (internal/baseline), for the talents and the stakeholders of one cycle. *)
(*                                                                         *)
(* No lock ties the jobs together.  A baseline is read, computed and       *)
(* written back whole; what keeps two jobs apart is that each is cut off   *)
(* long before the next hour strikes.  A reminder is recorded, then sent.  *)
(*                                                                         *)
(* Time is the number of the hour, and a day has DayHours of them.  A      *)
(* baseline keeps the outputs it was updated with instead of their         *)
(* discounted sum, and the hour of its last variance.  Breakouts and       *)
(* utilisation patterns only make events for the hub and are left out.     *)
(***************************************************************************)
EXTENDS Integers, Sequences, FiniteSets, SequencesExt

CONSTANTS Instances,  \* servers: several run while a deployment replaces one
          MaxOverlaps, \* bound: hours in which more than one runs
          Talents,    \* active talents
          Assigned,   \* the talents of the cycle, once for each active assignment
          Recipients, \* emails of the cycle's stakeholders
          ColdStarts, \* requests that seed a baseline
          Crontabs,   \* bound: the jobs of a behaviour and its last hour; jobs
                      \* that share no table need not run together, nor need
                      \* requests run with jobs they do not meet
          DayHours,   \* hours in a day (24)
          CycleEnd,   \* the cycle runs from hour 0 to this one
          MaxHour,    \* bound: the last of these hours
          MaxEvents,  \* bound: conversion events
          MaxFailures \* bound: failures of any kind

ASSUME JobsAssumption ==
  /\ IsFiniteSet(Instances) /\ IsFiniteSet(Talents) /\ Talents \cap {"idle", "done"} = {}
  /\ Assigned \in Seq(Talents) /\ Crontabs \subseteq [jobs : SUBSET {"daily", "nightly", "fallback", "reminders"},
                                                    last : 0..MaxHour]
  /\ DayHours \in Nat /\ DayHours > 1
  /\ {CycleEnd, MaxHour, MaxEvents, MaxFailures, MaxOverlaps} \subseteq Nat

VARIABLES hour,
          crontab,    \* the jobs this behaviour runs, and its last hour
          up,         \* the servers that run in this hour
          overlaps,   \* how many more hours may have several of them
          active,     \* the cycle is active
          events,     \* table conversion_events
          flagged,    \* those with fallback_flagged
          baseline,   \* table talent_baselines
          dispatched, \* table email_dispatches
          job,        \* where each job of each instance is
          cold        \* where each cold start is

\* Not in the code: how often each reminder was sent; what the baselines were
\* if every update took effect at once; the talents with a baseline that was
\* updated by two instances, or seeded by two requests, at a time, or seeded
\* after a failed read; the reminders lost with a crash or by the mail server;
\* and the number of failures.
VARIABLES sent, owed, overlapped, misread, lost, failures

tables == <<events, flagged, baseline, dispatched>>
ghosts == <<sent, owed, overlapped, misread, lost, failures>>
vars == <<hour, crontab, up, overlaps, active, tables, job, cold, ghosts>>

-----------------------------------------------------------------------------
Day(h) == h \div DayHours

\* What cron starts at an hour.
Jobs == {"daily", "nightly", "fallback", "reminders"}
Due == {j \in crontab.jobs : /\ j = "daily" => hour % DayHours = 0
                             /\ j = "nightly" => hour % DayHours = 1}

Absent == [learned |-> <<>>, sigma |-> -2]
Seed == [learned |-> <<>>, sigma |-> -1]
NoKey == <<"none", 0, "">>

Off == [pc |-> "off", todo |-> <<>>, k |-> 0, seen |-> Absent, keys |-> {}, key |-> NoKey]
Ended == [Off EXCEPT !.pc = "ended"]

Templates == {"cycle_mid", "cycle_ending_3d", "cycle_ending_24h", "brand_stats_daily"}
Keys == Templates \X (0..Day(MaxHour)) \X Recipients
Baselines == [learned : Seq(0..MaxEvents), sigma : -2..MaxHour]

\* The talents that remain, the output and the baseline that were read, the
\* reminders that remain and the one that was recorded.
JobRow == [pc : {"off", "next", "read", "write", "send", "ended"}, todo : Seq(Talents),
           k : 0..MaxEvents, seen : Baselines, keys : SUBSET Keys, key : Keys \cup {NoKey}]

TypeOK ==
  /\ crontab \in Crontabs /\ up \subseteq Instances /\ overlaps \in 0..MaxOverlaps
  /\ hour \in 0..MaxHour /\ active \in BOOLEAN
  /\ events \subseteq Talents \X (0..MaxHour) /\ flagged \subseteq events
  /\ DOMAIN baseline = Talents /\ \A t \in Talents : baseline[t] \in Baselines
  /\ dispatched \subseteq Keys
  /\ job \in [Instances -> [Jobs -> JobRow]]
  /\ cold \in [ColdStarts -> Talents \cup {"idle", "done"}]
  /\ sent \in [Keys -> 0..Cardinality(Instances)] /\ lost \subseteq Keys
  /\ DOMAIN owed = Talents /\ \A t \in Talents : owed[t] \in Baselines
  /\ {overlapped, misread} \subseteq SUBSET Talents
  /\ failures \in 0..MaxFailures

\* The servers of an hour.
Deploy ==
  \E u \in SUBSET Instances \ {{}} :
    /\ up' = u
    /\ Cardinality(u) > 1 => overlaps > 0
    /\ overlaps' = IF Cardinality(u) > 1 THEN overlaps - 1 ELSE overlaps

Init ==
  /\ crontab \in Crontabs
  /\ \E i \in Instances : up = {i}
  /\ overlaps = MaxOverlaps
  /\ hour = 0 /\ active = TRUE /\ events = {} /\ flagged = {} /\ dispatched = {}
  /\ baseline \in [Talents -> {Absent, Seed}] /\ owed = baseline
  /\ job = [i \in Instances |-> [j \in Jobs |-> Off]]
  /\ cold = [c \in ColdStarts |-> "idle"]
  /\ sent = [key \in Keys |-> 0]
  /\ overlapped = {} /\ misread = {} /\ lost = {} /\ failures = 0

Fails == failures < MaxFailures /\ failures' = failures + 1
Goto(i, j, pc) == job' = [job EXCEPT ![i][j].pc = pc]
At(i, j, pc) == job[i][j].pc = pc

-----------------------------------------------------------------------------
(* Starting and ending *)

LogConversion(t) ==
  /\ crontab.jobs # {"reminders"}
  /\ active /\ <<t, hour>> \notin events /\ Cardinality(events) < MaxEvents
  /\ events' = events \cup {<<t, hour>>}
  /\ UNCHANGED <<hour, crontab, up, overlaps, active, flagged, baseline, dispatched, job, cold, ghosts>>

\* The cycle is paused or closed; a behaviour in which it is activated again is
\* one that begins there.
EndCycle ==
  /\ active /\ active' = FALSE
  /\ UNCHANGED <<hour, crontab, up, overlaps, tables, job, cold, ghosts>>

\* A deviation: an hour strikes whatever is running.
StrikeAnyway ==
  /\ hour < crontab.last /\ \A i \in up, j \in Due : ~At(i, j, "off")
  /\ hour' = hour + 1 /\ UNCHANGED <<up, overlaps>>
  /\ job' = [i \in Instances |-> [j \in Jobs |-> IF At(i, j, "ended") THEN Off ELSE job[i][j]]]
  /\ UNCHANGED <<crontab, active, tables, cold, ghosts>>

\* The next hour strikes.  Every job that was due has started, and ended within
\* its 5, 10 or 15 minutes.
Strike ==
  /\ hour < crontab.last /\ \A i \in up, j \in Due : At(i, j, "ended")
  /\ hour' = hour + 1 /\ Deploy
  /\ job' = [i \in Instances |-> [j \in Jobs |-> Off]]
  /\ UNCHANGED <<crontab, active, tables, cold, ghosts>>

\* The context of a job expires, or its first query fails; a reminder that was
\* recorded is still handed to the mailer.
CutOff(i, j) ==
  /\ job[i][j].pc \in {"next", "read", "write"}
  /\ Fails
  /\ job' = [job EXCEPT ![i][j] = Ended]
  /\ UNCHANGED <<hour, crontab, up, overlaps, active, tables, cold, sent, owed, overlapped, misread, lost>>

\* An instance stops and is started again: cron waits for the next hour.
Crash(i) ==
  /\ \E j \in Jobs : job[i][j].pc \notin {"off", "ended"}
  /\ Fails
  /\ job' = [job EXCEPT ![i] = [j \in Jobs |-> Ended]]
  /\ lost' = IF At(i, "reminders", "send") THEN lost \cup {job[i]["reminders"].key} ELSE lost
  /\ UNCHANGED <<hour, crontab, up, overlaps, active, tables, cold, sent, owed, overlapped, misread>>

\* The loop of a job goes on after its current talent.
Done(i, j) == job' = [job EXCEPT ![i][j] = [Off EXCEPT !.pc = "next", !.todo = Tail(job[i][j].todo)]]

LoopEnds(i, j) ==
  /\ At(i, j, "next") /\ job[i][j].todo = <<>> /\ job[i][j].keys = {}
  /\ Goto(i, j, "ended")
  /\ UNCHANGED <<hour, crontab, up, overlaps, active, tables, cold, ghosts>>

-----------------------------------------------------------------------------
(* Baselines: DailyComputeJob and NightlyLearningJob *)

Start(i, j) ==
  /\ j \in Due \cap {"daily", "nightly"} /\ At(i, j, "off")
  /\ job' = [job EXCEPT ![i][j] =
       [Off EXCEPT !.pc = "next",
                   !.todo = IF j = "nightly" THEN SetToSeq(Talents) ELSE IF active THEN Assigned ELSE <<>>]]
  /\ UNCHANGED <<hour, crontab, up, overlaps, active, tables, cold, ghosts>>

\* GetTalentTodayOutput: the events of the day that the clock says it is.
TodayOutput(t) == Cardinality({e \in events : e[1] = t /\ Day(e[2]) = Day(hour)})

\* The output of today; an error counts as none.
ReadOutput(i) ==
  LET j == job[i]["daily"] IN
  /\ At(i, "daily", "next") /\ j.todo # <<>>
  /\ \/ job' = [job EXCEPT ![i]["daily"] = [j EXCEPT !.pc = "read", !.k = TodayOutput(Head(j.todo))]]
        /\ UNCHANGED failures
     \/ job' = [job EXCEPT ![i]["daily"] = [j EXCEPT !.pc = "read", !.k = 0]] /\ Fails
  /\ UNCHANGED <<hour, crontab, up, overlaps, active, tables, cold, sent, owed, overlapped, misread, lost>>

\* Another instance has read the baseline of t and not yet written it.
InUse(i, t) ==
  \E k \in Instances \ {i}, j \in Jobs : At(k, j, "write") /\ Head(job[k][j].todo) = t

\* A talent without a baseline, or whose baseline cannot be read, is skipped;
\* the nightly job also skips one without events in its window.
ReadBaseline(i, j, pc) ==
  LET t == Head(job[i][j].todo) IN
  /\ At(i, j, pc) /\ job[i][j].todo # <<>>
  /\ \/ /\ baseline[t] # Absent
        /\ j = "nightly" => \E e \in events : e[1] = t
        /\ job' = [job EXCEPT ![i][j].pc = "write", ![i][j].seen = baseline[t]]
        /\ overlapped' = IF InUse(i, t) THEN overlapped \cup {t} ELSE overlapped
        /\ UNCHANGED failures
     \/ /\ baseline[t] = Absent \/ (j = "nightly" /\ ~\E e \in events : e[1] = t)
        /\ Done(i, j) /\ UNCHANGED <<overlapped, failures>>
     \/ Done(i, j) /\ Fails /\ UNCHANGED overlapped
  /\ UNCHANGED <<hour, crontab, up, overlaps, active, tables, cold, sent, owed, misread, lost>>

\* UpdateBaseline adds an output to what was learned, UpdateSigmaHist sets the
\* variance.
Updated(j, k, row) ==
  IF j = "daily" THEN [row EXCEPT !.learned = Append(@, k)] ELSE [row EXCEPT !.sigma = hour]

\* UpsertTalentBaseline writes the whole row.
WriteBaseline(i, j) ==
  LET t == Head(job[i][j].todo)
      k == job[i][j].k IN
  /\ At(i, j, "write")
  /\ Done(i, j)
  /\ \/ /\ baseline' = [baseline EXCEPT ![t] = Updated(j, k, job[i][j].seen)]
        /\ owed' = [owed EXCEPT ![t] = Updated(j, k, @)]
        /\ UNCHANGED failures
     \/ Fails /\ UNCHANGED <<baseline, owed>>
  /\ UNCHANGED <<hour, crontab, up, overlaps, active, events, flagged, dispatched, cold, sent, overlapped, misread, lost>>

-----------------------------------------------------------------------------
(* Baselines: EnsureColdStart *)

\* A cold start that finds a baseline does nothing, but any error of the read
\* is taken for a missing one.
ColdRead(c, t) ==
  /\ "daily" \in crontab.jobs /\ cold[c] = "idle"
  /\ cold' = [cold EXCEPT ![c] = t]
  /\ \/ /\ baseline[t] = Absent
        /\ overlapped' = IF \E d \in ColdStarts : cold[d] = t THEN overlapped \cup {t} ELSE overlapped
        /\ UNCHANGED <<sent, owed, misread, lost, failures>>
     \/ /\ baseline[t] # Absent /\ Fails
        /\ misread' = misread \cup {t}
        /\ UNCHANGED <<sent, owed, overlapped, lost>>
  /\ UNCHANGED <<hour, crontab, up, overlaps, active, tables, job>>

\* The category's median may be missing, or the write fail.
ColdWrite(c) ==
  LET t == cold[c] IN
  /\ t \in Talents
  /\ cold' = [cold EXCEPT ![c] = "done"]
  /\ \/ /\ baseline' = [baseline EXCEPT ![t] = Seed]
        /\ owed' = IF owed[t] = Absent THEN [owed EXCEPT ![t] = Seed] ELSE owed
        /\ UNCHANGED failures
     \/ Fails /\ UNCHANGED <<baseline, owed>>
  /\ UNCHANGED <<hour, crontab, up, overlaps, active, events, flagged, dispatched, job, sent, overlapped, misread, lost>>

-----------------------------------------------------------------------------
(* FallbackCheckJob *)

\* The day of the event, and the day after it, have passed.
WindowPassed(e) == hour >= (Day(e[2]) + 2) * DayHours

\* One update for each day; those of one that fails are left for the next hour.
FlagFallback(i) ==
  /\ "fallback" \in Due /\ At(i, "fallback", "off")
  /\ Goto(i, "fallback", "ended")
  /\ LET old == IF active THEN {e \in events : WindowPassed(e)} ELSE {} IN
       \/ flagged' = flagged \cup old /\ UNCHANGED failures
       \/ \E d \in 0..Day(hour) : flagged' = flagged \cup {e \in old : Day(e[2]) # d} /\ Fails
  /\ UNCHANGED <<hour, crontab, up, overlaps, active, events, baseline, dispatched, cold, sent, owed, overlapped, misread, lost>>

-----------------------------------------------------------------------------
(* CycleRemindersJob *)

\* ReminderWindow: the reminders of the cycle that are due.
DueTemplates ==
  LET untilEnd == CycleEnd - hour IN
  {m \in {"cycle_mid", "cycle_ending_3d", "cycle_ending_24h"} :
     CASE m = "cycle_mid"        -> 2 * hour >= CycleEnd
       [] m = "cycle_ending_3d"  -> untilEnd <= 3 * DayHours /\ untilEnd > DayHours
       [] m = "cycle_ending_24h" -> untilEnd <= DayHours /\ untilEnd > 0}

\* Reminders are keyed by the cycle, digests by the day as well.
DueKeys == (IF active THEN DueTemplates \X {0} \X Recipients ELSE {})
             \cup {<<"brand_stats_daily", Day(hour), r>> : r \in Recipients}

StartReminders(i) ==
  /\ "reminders" \in Due /\ At(i, "reminders", "off")
  /\ job' = [job EXCEPT ![i]["reminders"] = [Off EXCEPT !.pc = "next", !.keys = DueKeys]]
  /\ UNCHANGED <<hour, crontab, up, overlaps, active, tables, cold, ghosts>>

\* A deviation: the row is not looked at.
NewDispatchAlways(key) == TRUE

\* INSERT ... ON CONFLICT DO NOTHING inserted a row.
NewDispatch(key) == key \notin dispatched

TryRecordEmailDispatch(i, key) ==
  LET j == job[i]["reminders"]
      rest == [j EXCEPT !.keys = @ \ {key}] IN
  /\ At(i, "reminders", "next") /\ key \in j.keys
  /\ \/ /\ NewDispatch(key)
        /\ dispatched' = dispatched \cup {key}
        /\ job' = [job EXCEPT ![i]["reminders"] = [rest EXCEPT !.pc = "send", !.key = key]]
        /\ UNCHANGED failures
     \/ /\ \/ ~NewDispatch(key) /\ UNCHANGED failures
           \/ Fails
        /\ job' = [job EXCEPT ![i]["reminders"] = rest]
        /\ UNCHANGED dispatched
  /\ UNCHANGED <<hour, crontab, up, overlaps, active, events, flagged, baseline, cold, sent, owed, overlapped, misread, lost>>

\* The mailer sends in a goroutine of its own and only logs an error.
SendReminder(i) ==
  LET key == job[i]["reminders"].key IN
  /\ At(i, "reminders", "send")
  /\ job' = [job EXCEPT ![i]["reminders"].pc = "next", ![i]["reminders"].key = NoKey]
  /\ \/ sent' = [sent EXCEPT ![key] = @ + 1] /\ UNCHANGED <<lost, failures>>
     \/ Fails /\ lost' = lost \cup {key} /\ UNCHANGED sent
  /\ UNCHANGED <<hour, crontab, up, overlaps, active, tables, cold, owed, overlapped, misread>>

-----------------------------------------------------------------------------
Next ==
  \/ EndCycle \/ Strike
  \/ \E t \in Talents : LogConversion(t) \/ \E c \in ColdStarts : ColdRead(c, t)
  \/ \E c \in ColdStarts : ColdWrite(c)
  \/ \E i \in up :
       \/ Crash(i) \/ ReadOutput(i) \/ ReadBaseline(i, "daily", "read") \/ ReadBaseline(i, "nightly", "next")
       \/ FlagFallback(i) \/ StartReminders(i) \/ SendReminder(i)
       \/ \E key \in Keys : TryRecordEmailDispatch(i, key)
       \/ \E j \in Jobs : Start(i, j) \/ CutOff(i, j) \/ LoopEnds(i, j)
       \/ \E j \in {"daily", "nightly"} : WriteBaseline(i, j)

Spec == Init /\ [][Next]_vars

-----------------------------------------------------------------------------
\* Although a baseline is read and written in separate steps, no update is
\* lost: the jobs of one instance never meet, because each is cut off before
\* the next starts.  Updates are lost only when two instances run the same job,
\* two requests seed the same talent, or a cold start whose read failed
\* overwrites what was learned (internal/jobs/daily_compute.go:151,
\* internal/baseline/coldstart.go:13).
LearningKept ==
  \A t \in Talents \ (overlapped \cup misread) : baseline[t] = owed[t]

\* A reminder is sent at most once, whatever instances and hours overlap, and
\* one that is recorded is sent, unless the instance stopped in between or the
\* mail server refused it (internal/jobs/cycle_reminders.go:22, 94).
RemindersOnce ==
  \A key \in Keys :
    /\ sent[key] <= 1
    /\ key \in dispatched =>
         sent[key] = 1 \/ key \in lost \/ \E i \in Instances : job[i]["reminders"].key = key
=============================================================================
