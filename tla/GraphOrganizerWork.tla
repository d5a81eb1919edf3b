------------------------- MODULE GraphOrganizerWork -------------------------
(***************************************************************************)
(* Theorems about GraphOrganizer, continued: as long as no database call   *)
(* raises and no input is unusable, no job is lost or stranded, and one at *)
(* rest is left alone.                                                     *)
(***************************************************************************)
EXTENDS GraphOrganizerProofs

-----------------------------------------------------------------------------
(* No job is lost or stranded, as long as nothing fails under the organizer's *)
(* feet: no database call raises (dbErrors = 0), no input is unusable.        *)

\* What only the worker, or a cancel handler, leaves; what a cancelled job is.
Held == {"analyzing", "pause_requested", "cancel_requested"}
Withdrawn == {"cancel_requested", "cancelled", "absent"}
WorkingPcs == SectionPcs \cup {"gate", "finish", "failing"}
BusyPcs == WorkingPcs \cup {"interrupted", "requeue"}
UnbegunPcs == {"load", "snapshot", "begin"}
CancelPcs == {"signal", "await", "refresh", "settle"}
Ending(t) == task[t].cancelling \/ task[t].pc \in {"interrupted", "requeue"}

\* A cancel request sticks, and a retry finds the job failed and is alone.
CancelSticks ==
    \A r \in Requests : req[r].pc \in CancelPcs
                        => job[req[r].job].status \in Withdrawn
RetriesFailed ==
    \A r \in Requests : req[r].pc = "retry" =>
        /\ job[req[r].job].status = "failed"
        /\ \A q \in Requests : req[q].pc = "retry" /\ req[q].job = req[r].job => q = r
OnlyUpServes == phase # "up" => \A r \in Requests : req[r].pc = "idle"

\* The job that a worker has begun is one that nothing but the worker ends.
WorksSoundly(l) ==
    /\ l.pc # "broken"
    /\ l.pc \in WorkingPcs /\ Exists(l.job) => job[l.job].status \in Held
    /\ l.pc = "loop_failing" => ~Exists(l.job)
    /\ l.pc = "requeue" /\ Exists(l.job) =>
          \/ job[l.job].status = l.seen
          \/ l.seen = "cancel_requested" /\ job[l.job].status = "cancelled"
WorkIsSound == \A t \in Tasks : WorksSoundly(task[t])

\* A cancel handler that is past its signal does not find the job worked on by
\* another task than the one it awaits.
CancelWaits ==
    \A r \in Requests : \A t \in Tasks :
        /\ req[r].pc \in {"await", "refresh", "settle"}
        /\ task[t].pc \in WorkingPcs /\ task[t].job = req[r].job
        /\ Exists(req[r].job)
        => req[r].pc = "await" /\ req[r].task = t

\* While the process runs, a worker ends only for a handler that awaits it and
\* will start its successor.
Awaited(t) ==
    \E r \in Requests : /\ req[r].pc = "await" /\ req[r].task = t
                        /\ req[r].job = task[t].job
EndingIsAwaited ==
    phase = "up" =>
        /\ \A t \in Alive : /\ Ending(t) => Awaited(t)
                            /\ task[t].pc = "requeue" => task[t].seen = "cancel_requested"
        /\ workerTask \notin Alive =>
              \E r \in Requests : req[r].pc = "await" /\ req[r].task = workerTask

\* NoStrandedJob, with the program counters that matter.
HeldByWorker(j) == \E t \in Tasks : task[t].job = j /\ task[t].pc \in BusyPcs
HeldByCancel(j) ==
    /\ job[j].status = "cancel_requested"
    /\ \E r \in Requests : req[r].job = j /\ req[r].pc \in CancelPcs
HeldIsWorkedOn ==
    phase = "up" =>
        \A j \in Jobs : job[j].status \in Held => HeldByWorker(j) \/ HeldByCancel(j)

\* NoLostJob, of one job.
Waits(j) ==
    \/ j \in queued
    \/ \E t \in Tasks : task[t].job = j /\ task[t].pc \in UnbegunPcs
    \/ \E r \in Requests : req[r].job = j /\ req[r].pc = "enqueue"
QueuedWaits == phase = "up" => \A j \in Jobs : job[j].status = "queued" => Waits(j)

WorkInv ==
    /\ CancelSticks /\ RetriesFailed /\ OnlyUpServes
    /\ WorkIsSound /\ CancelWaits /\ EndingIsAwaited /\ HeldIsWorkedOn /\ QueuedWaits

\* The worker that ends while the process runs has a job that was withdrawn.
LEMMA EndingIsWithdrawn ==
    ASSUME TypeOK, WorkInv, phase = "up", NEW t \in Alive, Ending(t)
    PROVE  task[t].job \in Jobs /\ job[task[t].job].status \in Withdrawn
<1>1. PICK r \in Requests : req[r].pc = "await" /\ req[r].job = task[t].job
  BY DEF WorkInv, EndingIsAwaited, Awaited
<1>2. req[r].pc \in CancelPcs /\ req[r].job \in Jobs
  BY <1>1 DEF CancelPcs, TypeOK
<1> QED BY <1>1, <1>2 DEF WorkInv, CancelSticks

\* The property follows.
LEMMA WorkIsHeldThen ==
    ASSUME TypeOK, WorkerInv, WorkInv
    PROVE  WorkIsHeld
<1>1. \A t \in Tasks : task[t].pc \in BusyPcs \cup UnbegunPcs => t \in Alive
  BY DEF Alive, BusyPcs, WorkingPcs, UnbegunPcs, SectionPcs, DeadPcs
<1>2. NoLostJob
  BY <1>1 DEF NoLostJob, WorkInv, QueuedWaits, Waits, UnbegunPcs
<1>3. NoStrandedJob
  <2>1. \A r \in Requests : req[r].pc \in CancelPcs => req[r].pc # "idle"
    BY DEF CancelPcs
  <2> QED
    BY <1>1, <2>1
       DEF NoStrandedJob, WorkInv, HeldIsWorkedOn, HeldByWorker, HeldByCancel, Held
<1>4. QueueHasWorker
  BY DEF QueueHasWorker, WorkInv, EndingIsAwaited
<1> QED BY <1>2, <1>3, <1>4 DEF WorkIsHeld, WorkerInv

\* What a step of the task t inside the job j means for the others.
RowsAround(t) ==
    \A i \in Jobs : /\ i # task[t].job => job'[i].status = job[i].status
                    /\ job'[i].status = "absent" <=> job[i].status = "absent"
                    /\ Locked(i) => job'[i].status = job[i].status
                    /\ phase = "up" /\ job[i].status \in Withdrawn
                          => job'[i].status \in Withdrawn
WorkBegins(t) ==
    task'[t].pc \in WorkingPcs => \/ task[t].pc \in WorkingPcs
                                  \/ job[task[t].job].status \notin Withdrawn
EndBegins(t) ==
    phase = "up" =>
        /\ task'[t].pc \in {"interrupted", "requeue"} => Ending(t)
        /\ task'[t].pc \in DeadPcs => Ending(t)
        /\ task'[t].pc = "requeue" => task'[t].seen = "cancel_requested"
HeldStays(t) ==
    phase = "up" /\ task[t].job \in Jobs /\ job'[task[t].job].status \in Held =>
        \/ task'[t].pc \in BusyPcs
        \/ job'[task[t].job].status = "cancel_requested" /\ Ending(t)
        \/ task[t].pc \notin BusyPcs /\ job'[task[t].job].status = job[task[t].job].status
QueuedStays(t) ==
    phase = "up" /\ task[t].job \in Jobs /\ job'[task[t].job].status = "queued" =>
        /\ job[task[t].job].status = "queued"
        /\ task[t].pc \in UnbegunPcs => task'[t].pc \in UnbegunPcs
Effects(t) ==
    /\ RowsAround(t)
    /\ WorksSoundly(task[t])'
    /\ WorkBegins(t) /\ EndBegins(t) /\ HeldStays(t) /\ QueuedStays(t)

\* What WorkInv says of the task that takes the step.
Before(t) ==
    /\ task[t].pc \notin DeadPcs
    /\ task[t].pc \in TryPcs \cup HandlerPcs => task[t].job \in Jobs
    /\ task[t].pc = "requeue" => task[t].seen \in DOMAIN AfterTaskCancel
    /\ WorksSoundly(task[t])
    /\ phase = "up" /\ Ending(t) => job[task[t].job].status \in Withdrawn
    /\ phase = "up" /\ task[t].pc = "requeue" => task[t].seen = "cancel_requested"

LEMMA BeforeHolds ==
    ASSUME TypeOK, WorkInv, NEW t \in Tasks, task[t].pc \notin DeadPcs
    PROVE  Before(t)
<1>1. t \in Alive
  BY DEF Alive
<1> QED
  BY <1>1, EndingIsWithdrawn DEF Before, TypeOK, WorkInv, WorkIsSound, EndingIsAwaited

\* An interrupted task.
LEMMA CancelledEffects ==
    ASSUME TypeOK, NEW t \in Tasks, Before(t), task[t].cancelling, task'[t] = OnCancel(task[t]),
           RowsAround(t)
    PROVE  Effects(t)
<1>1. /\ task'[t].pc \in {"interrupted", "done"}
      /\ task[t].pc \notin TryPcs => task'[t].pc = "done"
      /\ task[t].pc \in TryPcs => task'[t].pc = "interrupted"
  BY OnCancelIs
<1>2. Ending(t) /\ (phase = "up" => job[task[t].job].status \in Withdrawn)
  BY DEF Before, Ending
<1>3. phase = "up" /\ task[t].job \in Jobs => job'[task[t].job].status \in Withdrawn
  BY <1>2 DEF RowsAround
<1>4. WorksSoundly(task[t])'
  BY <1>1 DEF WorksSoundly, WorkingPcs, SectionPcs
<1>5. WorkBegins(t) /\ EndBegins(t)
  BY <1>1, <1>2 DEF WorkBegins, EndBegins, WorkingPcs, SectionPcs
<1>6. HeldStays(t) /\ QueuedStays(t)
  BY <1>2, <1>3 DEF HeldStays, QueuedStays, Withdrawn, Held
<1> QED BY <1>4, <1>5, <1>6 DEF Effects

LEMMA SameRowsAround ==
    ASSUME NEW t \in Tasks, \A i \in Jobs : job'[i].status = job[i].status
    PROVE  RowsAround(t)
BY DEF RowsAround

LEMMA ReadEffects ==
    ASSUME TypeOK, ~SetupFails, NEW t \in Tasks, JobStepIs(t), Before(t), UNCHANGED job, Reads(t)
    PROVE  Effects(t)
<1>1. RowsAround(t)
  BY SameRowsAround
<1>2. CASE task[t].cancelling
  BY <1>1, <1>2, CancelledEffects DEF JobStepIs
<1>3. CASE ~task[t].cancelling
  <2> DEFINE j == task[t].job
             s == job[j].status
  <2>1. Reads(t) /\ ~task[t].cancelling /\ ~SetupFails
    BY <1>3
  <2>2. /\ s \in RUNNABLE => s \notin Withdrawn
        /\ s \in {"pause_requested", "cancel_requested", "analyzing"} <=> s \in Held
        /\ s \in DOMAIN AfterTaskCancel <=> s \in Held
        /\ Exists(j) <=> s # "absent"
    BY DEF RUNNABLE, Withdrawn, Held, AfterTaskCancel, Exists
  <2>3. task'[t].pc \notin DeadPcs => task'[t].job = j
    BY DEF JobStepIs, OnlyTask
  <2>4. WorksSoundly(task[t])'
    <3>1. \/ task'[t].pc \in {"leave", "left", "snapshot", "begin", "done"}
          \/ /\ task'[t].pc \in WorkingPcs
             /\ task[t].pc \in WorkingPcs \/ ~Exists(j)
          \/ task'[t].pc = "loop_failing" /\ ~Exists(j)
          \/ task'[t].pc = "requeue" /\ task'[t].seen = s
      BY <2>1 DEF Reads, Turns, WorkingPcs, SectionPcs
    <3>2. task[t].pc \in WorkingPcs /\ Exists(j) => s \in Held
      BY DEF Before, WorksSoundly
    <3>3. CASE task'[t].pc \in {"leave", "left", "snapshot", "begin", "done"}
      BY <3>3 DEF WorksSoundly, WorkingPcs, SectionPcs
    <3>4. CASE task'[t].pc \in WorkingPcs /\ (task[t].pc \in WorkingPcs \/ ~Exists(j))
      BY <2>2, <2>3, <3>2, <3>4 DEF WorksSoundly, WorkingPcs, SectionPcs, DeadPcs, Exists
    <3>5. CASE task'[t].pc = "loop_failing" /\ ~Exists(j)
      BY <2>3, <3>5 DEF WorksSoundly, WorkingPcs, SectionPcs, DeadPcs, Exists
    <3>6. CASE task'[t].pc = "requeue" /\ task'[t].seen = s
      BY <2>3, <3>6 DEF WorksSoundly, WorkingPcs, SectionPcs, DeadPcs, Exists
    <3> QED BY <3>1, <3>3, <3>4, <3>5, <3>6
  <2>5. WorkBegins(t)
    BY <2>1 DEF Reads, Turns, WorkBegins, WorkingPcs, SectionPcs
  <2>6. EndBegins(t)
    <3>1. /\ task'[t].pc \in {"interrupted", "requeue"} \cup DeadPcs => task[t].pc = "interrupted"
          /\ task'[t].pc = "requeue" => task'[t].seen = s /\ s \in DOMAIN AfterTaskCancel
      BY <2>1 DEF Reads, Turns, DeadPcs
    <3>2. phase = "up" /\ task[t].pc = "interrupted" => Ending(t) /\ s \in Withdrawn
      BY DEF Before, Ending
    <3> QED BY <2>2, <3>1, <3>2 DEF EndBegins, Withdrawn, Held
  <2>7. HeldStays(t)
    <3>1. \/ s \notin Held \/ task[t].pc \notin BusyPcs \/ task'[t].pc \in BusyPcs
      BY <2>1, <2>2 DEF Reads, Turns, BusyPcs, WorkingPcs, SectionPcs, Held
    <3> QED BY <3>1 DEF HeldStays
  <2>8. QueuedStays(t)
    <3>1. task[t].pc \in UnbegunPcs /\ s = "queued" => task'[t].pc \in UnbegunPcs
      BY <2>1 DEF Reads, Turns, UnbegunPcs, RUNNABLE, Exists
    <3> QED BY <3>1 DEF QueuedStays
  <2> QED BY <1>1, <2>4, <2>5, <2>6, <2>7, <2>8 DEF Effects
<1> QED BY <1>2, <1>3

\* The status that a write finds, and the one it leaves.
WrittenFrom(t) ==
    LET s == job[task[t].job].status
        s2 == job'[task[t].job].status
    IN /\ task[t].job \in Jobs
       /\ \A i \in Jobs : i # task[t].job => job'[i].status = job[i].status
       /\ s \in Held \cup {"cancelled"}
       /\ s2 \in {"paused", "cancelled", "applied", "failed", "queued"}
       /\ s \in Withdrawn => s2 = "cancelled"
       /\ task[t].pc # "requeue" => s2 # "queued"
       /\ task[t].pc = "requeue" => s2 = AfterTaskCancel[task[t].seen]

LEMMA WriteIs ==
    ASSUME TypeOK, NEW t \in Tasks, Before(t), Writes(t)
    PROVE  WrittenFrom(t)
<1> DEFINE j == task[t].job
           s == job[j].status
           s2 == job'[j].status
<1>1. task[t].pc \in {"gate", "finish", "failing", "loop_failing", "requeue"} /\ j \in Jobs
  <2>1. task[t].pc \in {"gate", "finish", "failing", "loop_failing", "requeue"}
    BY DEF Writes, Turns
  <2> QED BY <2>1 DEF Before, TryPcs, HandlerPcs
<1>2. PICK v : SetStatus(j, v)
  BY DEF Writes
<1>3. /\ s2 = v
      /\ \A i \in Jobs : job'[i].status = IF i = j THEN v ELSE job[i].status
  BY <1>1, <1>2, SetStatusIs
<1>4. /\ task[t].pc \in WorkingPcs /\ s # "absent" => s \in Held
      /\ task[t].pc = "loop_failing" => s = "absent"
      /\ task[t].pc = "requeue" /\ s # "absent" =>
            s = task[t].seen \/ (task[t].seen = "cancel_requested" /\ s = "cancelled")
  <2>1. WorksSoundly(task[t])
    BY DEF Before
  <2> QED BY ONLY <2>1, SMT DEF WorksSoundly, Exists
\* What the row's status becomes.
<1>5. /\ s \in Held \cup {"cancelled"}
      /\ s2 \in {"paused", "cancelled", "applied", "failed", "queued"}
      /\ s \in Withdrawn => s2 = "cancelled"
      /\ task[t].pc # "requeue" => s2 # "queued"
      /\ task[t].pc = "requeue" => s2 = AfterTaskCancel[task[t].seen]
  <2>1. CASE task[t].pc = "requeue"
    <3>1. s # "absent" /\ s2 = AfterTaskCancel[task[t].seen]
      BY <1>1, <2>1, SetStatusIs DEF Writes, Turns, Exists
    <3>2. task[t].seen \in {"analyzing", "pause_requested", "cancel_requested"}
      BY <2>1 DEF Before, AfterTaskCancel
    <3>3. /\ task[t].seen = "analyzing" => s2 = "queued"
          /\ task[t].seen = "pause_requested" => s2 = "paused"
          /\ task[t].seen = "cancel_requested" => s2 = "cancelled"
      BY <3>1 DEF AfterTaskCancel
    <3> QED BY <1>4, <2>1, <3>1, <3>2, <3>3 DEF Held, Withdrawn
  <2>2. CASE task[t].pc \in {"gate", "finish", "failing", "loop_failing"}
    <3>1. \/ s = "pause_requested" /\ SetStatus(j, "paused")
          \/ s = "cancel_requested" /\ SetStatus(j, "cancelled")
          \/ s = "analyzing" /\ SetStatus(j, "applied")
          \/ s # "absent" /\ SetStatus(j, IF s = "cancel_requested" THEN "cancelled" ELSE "failed")
      BY <2>2 DEF Writes, Exists
    <3>2. \/ s = "pause_requested" /\ s2 = "paused"
          \/ s = "cancel_requested" /\ s2 = "cancelled"
          \/ s = "analyzing" /\ s2 = "applied"
          \/ s # "absent" /\ s2 = (IF s = "cancel_requested" THEN "cancelled" ELSE "failed")
      BY <1>1, <3>1, SetStatusIs
    <3>3. s \in Held
      BY <1>4, <2>2, <3>2 DEF WorkingPcs, Held
    <3> QED BY <2>2, <3>2, <3>3 DEF Held, Withdrawn
  <2> QED BY <1>1, <2>1, <2>2
<1> QED BY <1>1, <1>3, <1>5 DEF WrittenFrom

LEMMA WriteEffects ==
    ASSUME TypeOK, NEW t \in Tasks, JobStepIs(t), Before(t), ~Locked(task[t].job), Writes(t)
    PROVE  Effects(t)
<1> DEFINE s == job[task[t].job].status
           s2 == job'[task[t].job].status
<1>1. WrittenFrom(t)
  BY WriteIs
<1>6. RowsAround(t)
  BY <1>1 DEF WrittenFrom, RowsAround, Withdrawn, Held
<1>7. CASE task[t].cancelling
  BY <1>6, <1>7, CancelledEffects DEF JobStepIs
<1>8. CASE ~task[t].cancelling
  <2>1. task'[t].pc \in {"leave", "left", "done"} /\ (task'[t].pc = "done" => task[t].pc = "requeue")
    BY <1>8 DEF Writes, Turns
  <2>2. WorksSoundly(task[t])'
    BY <2>1 DEF WorksSoundly, WorkingPcs, SectionPcs
  <2>3. WorkBegins(t)
    BY <2>1 DEF WorkBegins, WorkingPcs, SectionPcs
  <2>4. EndBegins(t)
    BY <2>1 DEF EndBegins, Ending, DeadPcs
  <2>5. HeldStays(t)
    BY <1>1 DEF WrittenFrom, HeldStays, Held
  <2>6. QueuedStays(t)
    <3>1. phase = "up" /\ task[t].pc = "requeue" => task[t].seen = "cancel_requested"
      BY DEF Before
    <3>2. phase = "up" => s2 # "queued"
      BY <1>1, <3>1 DEF WrittenFrom, AfterTaskCancel
    <3> QED BY <3>2 DEF QueuedStays
  <2> QED BY <1>6, <2>2, <2>3, <2>4, <2>5, <2>6 DEF Effects
<1> QED BY <1>7, <1>8

LEMMA BeginEffects ==
    ASSUME TypeOK, NEW t \in Tasks, JobStepIs(t), Before(t), ~Locked(task[t].job),
           Turns(t, "begin", "gate"), job[task[t].job].status \in RUNNABLE,
           job' = [job EXCEPT ![task[t].job] = Begun(@)]
    PROVE  Effects(t)
<1> DEFINE j == task[t].job
<1>1. task[t].pc = "begin" /\ j \in Jobs
  BY DEF Turns, Before, TryPcs
<1>2. /\ job'[j].status = "analyzing"
      /\ \A i \in Jobs \ {j} : job'[i] = job[i]
  <2>1. job'[j] = Begun(job[j]) /\ \A i \in Jobs \ {j} : job'[i] = job[i]
    BY <1>1 DEF TypeOK
  <2>2. Begun(job[j]).status = "analyzing"
    BY <1>1 DEF Begun, TypeOK, Rows
  <2> QED BY <2>1, <2>2
<1>3. job[j].status \in {"queued", "analyzing"}
  BY DEF RUNNABLE
<1>4. RowsAround(t)
  BY <1>1, <1>2, <1>3 DEF RowsAround, Withdrawn
<1>5. CASE task[t].cancelling
  BY <1>4, <1>5, CancelledEffects DEF JobStepIs
<1>6. CASE ~task[t].cancelling
  <2>1. task'[t].pc = "gate" /\ task'[t].job = j
    BY <1>6 DEF Turns, JobStepIs, OnlyTask, DeadPcs
  <2>2. WorksSoundly(task[t])'
    BY <1>2, <2>1 DEF WorksSoundly, Held
  <2>3. WorkBegins(t) /\ EndBegins(t)
    BY <1>3, <2>1 DEF WorkBegins, EndBegins, Withdrawn, DeadPcs
  <2>4. HeldStays(t) /\ QueuedStays(t)
    BY <1>2, <2>1 DEF HeldStays, QueuedStays, BusyPcs, WorkingPcs
  <2> QED BY <1>4, <2>2, <2>3, <2>4 DEF Effects
<1> QED BY <1>5, <1>6

\* A submission and a record change no status.
LEMMA SectionEffects ==
    ASSUME TypeOK, NEW t \in Tasks, JobStepIs(t), Before(t),
           Turns(t, "extract", "extract") \/ Turns(t, "record", "gate"),
           \A i \in Jobs : job'[i].status = job[i].status
    PROVE  Effects(t)
<1> DEFINE j == task[t].job
<1>1. task[t].pc \in {"extract", "record"} /\ j \in Jobs /\ RowsAround(t)
  BY SameRowsAround DEF Turns, Before, TryPcs
<1>2. CASE task[t].cancelling
  BY <1>1, <1>2, CancelledEffects DEF JobStepIs
<1>3. CASE ~task[t].cancelling
  <2>1. task'[t].pc \in {"extract", "gate"} /\ task'[t].job = j
    BY <1>3 DEF Turns, JobStepIs, OnlyTask, DeadPcs
  <2>2. job[j].status # "absent" => job[j].status \in Held
    BY <1>1 DEF Before, WorksSoundly, Exists, WorkingPcs, SectionPcs
  <2>3. WorksSoundly(task[t])'
    BY <1>1, <2>1, <2>2 DEF WorksSoundly, Exists
  <2>4. WorkBegins(t) /\ EndBegins(t)
    BY <1>1, <2>1 DEF WorkBegins, EndBegins, WorkingPcs, SectionPcs, DeadPcs
  <2>5. HeldStays(t) /\ QueuedStays(t)
    BY <1>1, <2>1 DEF HeldStays, QueuedStays, BusyPcs, WorkingPcs, SectionPcs, UnbegunPcs
  <2> QED BY <1>1, <2>3, <2>4, <2>5 DEF Effects
<1> QED BY <1>2, <1>3

LEMMA JobStepEffects ==
    ASSUME TypeOK, ~SetupFails, WorkerInv, WorkInv, NEW t \in Tasks, JobStep(t)
    PROVE  JobStepIs(t) /\ Effects(t)
<1>1. JobStepIs(t) /\ Outcome(t)
  BY JobStepOutcome
<1>2. Before(t)
  BY <1>1, BeforeHolds DEF JobStepIs, OnlyTask
<1>3. CASE UNCHANGED job /\ Turns(t, "extract", "extract")
  BY <1>1, <1>2, <1>3, SectionEffects
<1>4. CASE Turns(t, "record", "gate") /\ job' = [job EXCEPT ![task[t].job] = Recorded(@, task[t].sec)]
  <2>1. \A i \in Jobs : job'[i].status = job[i].status
    BY <1>4 DEF TypeOK, Recorded, Rows
  <2> QED BY <1>1, <1>2, <1>4, <2>1, SectionEffects
<1> QED
  BY <1>1, <1>2, <1>3, <1>4, ReadEffects, WriteEffects, BeginEffects DEF Outcome

\* A step of the one worker inside its job keeps every part of WorkInv.
LEMMA EffectsKeepWork ==
    ASSUME TypeOK, WorkerInv, WorkInv, NEW t \in Tasks, JobStepIs(t), Effects(t)
    PROVE  WorkInv'
<1> DEFINE j == task[t].job
<1>1. /\ task[t].pc \notin DeadPcs /\ workerTask = t
      /\ \A u \in Tasks \ {t} : task'[u] = task[u] /\ task[u].pc \in DeadPcs
      /\ UNCHANGED <<queued, workerTask, phase, req>>
      /\ task'[t].pc \notin DeadPcs => task'[t].job = j
  BY DEF JobStepIs, OnlyTask, WorkerInv, OneWorker, Alive
<1>2. CancelSticks' /\ OnlyUpServes'
  <2>1. \A r \in Requests : req[r].pc \in CancelPcs => req[r].job \in Jobs /\ phase = "up"
    BY DEF CancelPcs, TypeOK, WorkInv, OnlyUpServes
  <2>2. CancelSticks'
    BY <1>1, <2>1 DEF WorkInv, CancelSticks, Effects, RowsAround
  <2> QED BY <1>1, <2>2 DEF WorkInv, OnlyUpServes
<1>3. RetriesFailed'
  <2>1. \A r \in Requests : req[r].pc = "retry" =>
            /\ req[r].job \in Jobs /\ Locked(req[r].job)
            /\ job[req[r].job].status = "failed"
    BY DEF Locked, TypeOK, WorkInv, RetriesFailed
  <2>2. \A r \in Requests : req[r].pc = "retry" => job'[req[r].job].status = "failed"
    BY <2>1 DEF Effects, RowsAround
  <2> QED BY <1>1, <2>2 DEF WorkInv, RetriesFailed
<1>4. WorkIsSound'
  <2>1. \A u \in Tasks \ {t} : task'[u].pc \in DeadPcs /\ task'[u].pc # "broken"
    BY <1>1 DEF WorkInv, WorkIsSound, WorksSoundly
  <2>2. \A u \in Tasks \ {t} : WorksSoundly(task[u])'
    BY <2>1 DEF WorksSoundly, DeadPcs, WorkingPcs, SectionPcs
  <2> QED BY <2>2 DEF WorkIsSound, Effects
<1>5. CancelWaits'
  <2> SUFFICES ASSUME NEW r \in Requests, NEW u \in Tasks,
                      req[r].pc \in {"await", "refresh", "settle"},
                      task'[u].pc \in WorkingPcs, task'[u].job = req[r].job,
                      job'[req[r].job].status # "absent"
               PROVE  req[r].pc = "await" /\ req[r].task = u
    BY <1>1 DEF CancelWaits, Exists
  <2>1. task'[u].pc \notin DeadPcs
    BY DEF WorkingPcs, SectionPcs, DeadPcs
  <2>2. u = t /\ j = req[r].job
    BY <1>1, <2>1
  <2>3. j \in Jobs /\ job[j].status # "absent" /\ job[j].status \in Withdrawn
    BY <2>2 DEF TypeOK, Effects, RowsAround, WorkInv, CancelSticks, CancelPcs
  <2>4. task[t].pc \in WorkingPcs
    BY <2>2, <2>3 DEF Effects, WorkBegins
  <2> QED BY <2>2, <2>3, <2>4 DEF WorkInv, CancelWaits, Exists
<1>6. EndingIsAwaited'
  <2> SUFFICES ASSUME phase = "up" PROVE EndingIsAwaited'
    BY <1>1 DEF EndingIsAwaited
  <2>1. Ending(t) => \E r \in Requests : req[r].pc = "await" /\ req[r].task = t /\ req[r].job = j
    BY <1>1 DEF WorkInv, EndingIsAwaited, Awaited, Alive
  <2>2. ~task'[t].cancelling
    BY DEF JobStepIs
  <2>3. /\ task'[t].pc \in {"interrupted", "requeue"} \/ task'[t].pc \in DeadPcs => Ending(t)
        /\ task'[t].pc = "requeue" => task'[t].seen = "cancel_requested"
    BY DEF Effects, EndBegins
  <2>4. \A u \in Alive' : u = t
    BY <1>1 DEF Alive
  <2>5. ASSUME NEW u \in Alive'
        PROVE  /\ Ending(u)' => Awaited(u)'
               /\ task'[u].pc = "requeue" => task'[u].seen = "cancel_requested"
    <3>1. u = t /\ task'[t].job = j
      BY <1>1, <2>4, <2>5 DEF Alive
    <3>2. Ending(u)' => Ending(t)
      BY <2>2, <2>3, <3>1 DEF Ending
    <3>3. Ending(t) => Awaited(u)'
      BY <1>1, <2>1, <3>1 DEF Awaited
    <3> QED BY <2>3, <3>1, <3>2, <3>3
  <2>6. workerTask' \notin Alive' =>
            \E r \in Requests : req'[r].pc = "await" /\ req'[r].task = workerTask'
    <3>1. t \notin Alive' => task'[t].pc \in DeadPcs
      BY DEF Alive
    <3> QED BY <1>1, <2>1, <2>3, <3>1
  <2> QED BY <2>5, <2>6 DEF EndingIsAwaited
<1>7. HeldIsWorkedOn'
  <2> SUFFICES ASSUME phase = "up", NEW i \in Jobs, job'[i].status \in Held
               PROVE  HeldByWorker(i)' \/ HeldByCancel(i)'
    BY <1>1 DEF HeldIsWorkedOn
  <2>1. \A u \in Tasks : task[u].pc \in BusyPcs => u = t
    BY <1>1 DEF BusyPcs, WorkingPcs, SectionPcs, DeadPcs
  <2>2. ASSUME job'[i].status = job[i].status, HeldByCancel(i)
        PROVE  HeldByCancel(i)'
    BY <1>1, <2>2 DEF HeldByCancel
  <2>3. CASE i # j
    <3>1. job'[i].status = job[i].status
      BY <2>3 DEF Effects, RowsAround
    <3>2. HeldByWorker(i) \/ HeldByCancel(i)
      BY <3>1 DEF WorkInv, HeldIsWorkedOn
    <3>3. ~HeldByWorker(i)
      BY <2>1, <2>3 DEF HeldByWorker
    <3> QED BY <2>2, <3>1, <3>2, <3>3
  <2>4. CASE i = j
    <3>1. CASE task'[t].pc \in BusyPcs
      <4>1. task'[t].job = j
        BY <1>1, <3>1 DEF BusyPcs, WorkingPcs, SectionPcs, DeadPcs
      <4> QED BY <2>4, <3>1, <4>1 DEF HeldByWorker
    <3>2. CASE job'[j].status = "cancel_requested" /\ Ending(t)
      <4>1. PICK r \in Requests : req[r].pc = "await" /\ req[r].job = j
        BY <1>1, <3>2 DEF WorkInv, EndingIsAwaited, Awaited, Alive
      <4> QED BY <1>1, <2>4, <3>2, <4>1 DEF HeldByCancel, CancelPcs
    <3>3. CASE task[t].pc \notin BusyPcs /\ job'[j].status = job[j].status
      <4>1. HeldByWorker(i) \/ HeldByCancel(i)
        BY <2>4, <3>3 DEF WorkInv, HeldIsWorkedOn
      <4>2. ~HeldByWorker(i)
        BY <2>1, <3>3 DEF HeldByWorker
      <4> QED BY <2>2, <2>4, <3>3, <4>1, <4>2
    <3> QED BY <2>4, <3>1, <3>2, <3>3 DEF Effects, HeldStays
  <2> QED BY <2>3, <2>4
<1>8. QueuedWaits'
  <2> SUFFICES ASSUME phase = "up", NEW i \in Jobs, job'[i].status = "queued"
               PROVE  Waits(i)'
    BY <1>1 DEF QueuedWaits
  <2>1. job[i].status = "queued" /\ (i = j /\ task[t].pc \in UnbegunPcs => task'[t].pc \in UnbegunPcs)
    BY DEF Effects, RowsAround, QueuedStays
  <2>2. Waits(i)
    BY <2>1 DEF WorkInv, QueuedWaits
  <2>3. CASE \E u \in Tasks : task[u].job = i /\ task[u].pc \in UnbegunPcs
    <3>1. i = j /\ task[t].pc \in UnbegunPcs
      BY <1>1, <2>3 DEF UnbegunPcs, DeadPcs
    <3>2. task'[t].pc \in UnbegunPcs /\ task'[t].job = i
      BY <1>1, <2>1, <3>1 DEF UnbegunPcs, DeadPcs
    <3> QED BY <3>2 DEF Waits
  <2> QED BY <1>1, <2>2, <2>3 DEF Waits
<1> QED BY <1>2, <1>3, <1>4, <1>5, <1>6, <1>7, <1>8 DEF WorkInv

\* The worker takes its next job, or waits for one.
LEMMA NextJobKeepsWork ==
    ASSUME TypeOK, WorkerInv, WorkInv, NEW t \in Tasks,
           worker_loop_get(t) \/ worker_loop_finally(t)
    PROVE  WorkInv'
<1>1. /\ task[t].pc \in {"get", "leave", "left"} /\ NextJob(t)
      /\ UNCHANGED <<job, workerTask, phase, req>>
  BY DEF worker_loop_get, worker_loop_finally, database
<1>2. /\ workerTask = t
      /\ \A u \in Tasks \ {t} : task'[u] = task[u] /\ task[u].pc \in DeadPcs
      /\ task'[t].pc \in {"get", "load"} /\ ~task'[t].cancelling
      /\ task'[t].job = current' /\ queued' = queued \ {current'}
      /\ current' \in queued => task'[t].pc = "load"
  BY <1>1, NextJobIs DEF WorkerInv, OneWorker, Alive, DeadPcs
<1>3. CancelSticks' /\ RetriesFailed' /\ OnlyUpServes'
  BY <1>1 DEF WorkInv, CancelSticks, RetriesFailed, OnlyUpServes
<1>4. \A u \in Tasks : task'[u].pc \in DeadPcs \cup {"get", "load"} /\ task'[u].pc # "broken"
  BY <1>2 DEF WorkInv, WorkIsSound, WorksSoundly
<1>5. WorkIsSound' /\ CancelWaits'
  BY <1>4 DEF WorkIsSound, WorksSoundly, CancelWaits, WorkingPcs, SectionPcs, DeadPcs
<1>6. EndingIsAwaited'
  <2>1. workerTask' \in Alive' /\ \A u \in Alive' : u = t
    BY <1>1, <1>2 DEF Alive, DeadPcs
  <2>2. ~Ending(t)'
    BY <1>2 DEF Ending
  <2> QED BY <1>2, <2>1, <2>2 DEF EndingIsAwaited
<1>7. HeldIsWorkedOn'
  <2>1. \A i \in Jobs : ~HeldByWorker(i)
    BY <1>1, <1>2 DEF HeldByWorker, BusyPcs, WorkingPcs, SectionPcs, DeadPcs
  <2> QED BY <1>1, <2>1 DEF WorkInv, HeldIsWorkedOn, HeldByCancel
<1>8. QueuedWaits'
  <2> SUFFICES ASSUME phase = "up", NEW i \in Jobs, job[i].status = "queued"
               PROVE  Waits(i)'
    BY <1>1 DEF QueuedWaits
  <2>1. Waits(i) /\ ~\E u \in Tasks : task[u].job = i /\ task[u].pc \in UnbegunPcs
    BY <1>1, <1>2 DEF WorkInv, QueuedWaits, UnbegunPcs, DeadPcs
  <2>2. CASE i \in queued
    BY <1>2, <2>2 DEF Waits, UnbegunPcs
  <2> QED BY <1>1, <2>1, <2>2 DEF Waits
<1> QED BY <1>3, <1>5, <1>6, <1>7, <1>8 DEF WorkInv

-----------------------------------------------------------------------------
(* The handlers *)

\* What a handler's step must respect, when it leaves the worker alone.
Respects(r) ==
    /\ phase = "up" /\ req[r].pc # "await"
    /\ UNCHANGED <<task, workerTask, queued, phase>>
    /\ \A q \in Requests \ {r} : req'[q] = req[q]
    /\ \A i \in Jobs : i <= created =>
          /\ job[i].status \in Withdrawn => job'[i].status \in Withdrawn
          /\ job[i].status = "absent" => job'[i].status = "absent"
    /\ \A q \in Requests \ {r} : req[q].pc = "retry" =>
          job'[req[q].job].status = job[req[q].job].status
    /\ \A u \in Tasks : task[u].pc \in WorkingPcs =>
          \/ job'[task[u].job].status \in Held \cup {"absent"}
          \/ job'[task[u].job].status = job[task[u].job].status
\* What the handler itself is entitled to afterwards.
CancelsSoundly(x) ==
    /\ x.pc \in CancelPcs => job'[x.job].status \in Withdrawn
    /\ x.pc \in {"await", "refresh", "settle"} =>
          \A u \in Tasks : /\ task[u].pc \in WorkingPcs /\ task[u].job = x.job
                           /\ job'[x.job].status # "absent"
                           => x.pc = "await" /\ x.task = u
RetriesSoundly(r) ==
    req'[r].pc = "retry" =>
        /\ job'[req'[r].job].status = "failed"
        /\ \A q \in Requests \ {r} : req[q].pc = "retry" => req[q].job # req'[r].job
\* The jobs that it, or the row it wrote, answers for.
HoldsOn(r) ==
    /\ \A i \in Jobs : job'[i].status \in Held =>
          job'[i].status = job[i].status \/ HeldByWorker(i) \/ HeldByCancel(i)'
    /\ req[r].pc \in CancelPcs =>
          \/ req'[r].pc \in CancelPcs /\ req'[r].job = req[r].job
          \/ job'[req[r].job].status # "cancel_requested"
    /\ \A i \in Jobs : job'[i].status = "queued" =>
          job[i].status = "queued" \/ (req'[r].job = i /\ req'[r].pc = "enqueue")
    /\ req[r].pc = "enqueue" => job'[req[r].job].status # "queued"

LEMMA RequestKeepsWork ==
    ASSUME TypeOK, ProgressInv, WorkInv, NEW r \in Requests,
           Respects(r), CancelsSoundly(req'[r]), RetriesSoundly(r), HoldsOn(r)
    PROVE  WorkInv'
<1>1. /\ phase = "up" /\ req[r].pc # "await"
      /\ UNCHANGED <<task, workerTask, queued, phase>>
      /\ \A q \in Requests \ {r} : req'[q] = req[q]
  BY DEF Respects
<1>2. /\ \A q \in Requests : req[q].job <= created
      /\ \A q \in Requests : req[q].pc \in CancelPcs => req[q].job \in Jobs
      /\ \A u \in Tasks : task[u].job <= created
      /\ \A u \in Tasks : task[u].pc \in WorkingPcs \cup {"loop_failing", "requeue"}
                          => task[u].job \in Jobs
  <2>1. WorkingPcs \cup {"loop_failing", "requeue"} \subseteq TryPcs \cup HandlerPcs
    BY DEF WorkingPcs, SectionPcs, TryPcs, HandlerPcs
  <2>2. \A q \in Requests : req[q].pc \in CancelPcs => req[q].job \in Jobs
    BY DEF TypeOK, CancelPcs
  <2>3. \A u \in Tasks : task[u].pc \in WorkingPcs \cup {"loop_failing", "requeue"}
                          => task[u].job \in Jobs
    BY <2>1 DEF TypeOK
  <2> QED BY <2>2, <2>3 DEF ProgressInv, ReferencesAreCreated
<1>3. CancelSticks'
  BY <1>1, <1>2 DEF WorkInv, CancelSticks, Respects, CancelsSoundly
<1>4. RetriesFailed'
  BY <1>1 DEF WorkInv, RetriesFailed, Respects, RetriesSoundly
<1>5. OnlyUpServes'
  BY <1>1 DEF OnlyUpServes
<1>6. EndingIsAwaited'
  <2>1. \A u \in Tasks : Awaited(u) => Awaited(u)'
    BY <1>1 DEF Awaited
  <2>2. \A u \in Tasks : Ending(u)' <=> Ending(u)
    BY <1>1 DEF Ending
  <2> QED BY <1>1, <2>1, <2>2 DEF WorkInv, EndingIsAwaited, Alive
<1>7. WorkIsSound'
  <2> SUFFICES ASSUME NEW u \in Tasks PROVE WorksSoundly(task[u])'
    BY DEF WorkIsSound
  <2>1. WorksSoundly(task[u])
    BY DEF WorkInv, WorkIsSound
  <2>2. task[u].pc \in WorkingPcs /\ job'[task[u].job].status # "absent"
        => job'[task[u].job].status \in Held
    BY <1>2, <2>1 DEF WorksSoundly, Respects, Exists
  <2>3. task[u].pc = "loop_failing" => job'[task[u].job].status = "absent"
    BY <1>2, <2>1 DEF WorksSoundly, Respects, Exists
  <2>4. CASE task[u].pc = "requeue"
    <3>1. /\ task[u].seen = "cancel_requested"
          /\ \E q \in Requests : req'[q].pc = "await" /\ req'[q].job = task[u].job
      BY <1>1, <1>6, <2>4 DEF EndingIsAwaited, Ending, Awaited, Alive, DeadPcs
    <3>2. job'[task[u].job].status \in Withdrawn
      BY <1>3, <3>1 DEF CancelSticks, CancelPcs
    <3> QED
      BY <1>1, <2>4, <3>1, <3>2 DEF WorksSoundly, Withdrawn, Exists, WorkingPcs, SectionPcs
  <2> QED BY <1>1, <2>1, <2>2, <2>3, <2>4 DEF WorksSoundly, Exists
<1>8. CancelWaits'
  <2>1. \A q \in Requests, u \in Tasks :
            task[u].pc \in WorkingPcs /\ task[u].job = req[q].job
            /\ job'[req[q].job].status # "absent" => job[req[q].job].status # "absent"
    BY <1>2 DEF Respects
  <2>2. ASSUME NEW q \in Requests \ {r}, NEW u \in Tasks,
               req[q].pc \in {"await", "refresh", "settle"},
               task[u].pc \in WorkingPcs, task[u].job = req[q].job,
               job'[req[q].job].status # "absent"
        PROVE  req[q].pc = "await" /\ req[q].task = u
    BY <2>1, <2>2 DEF WorkInv, CancelWaits, Exists
  <2>3. ASSUME NEW u \in Tasks, req'[r].pc \in {"await", "refresh", "settle"},
               task[u].pc \in WorkingPcs, task[u].job = req'[r].job,
               job'[req'[r].job].status # "absent"
        PROVE  req'[r].pc = "await" /\ req'[r].task = u
    BY <2>3 DEF CancelsSoundly
  <2> QED BY <1>1, <2>2, <2>3 DEF CancelWaits, Exists
<1>9. HeldIsWorkedOn'
  <2> SUFFICES ASSUME NEW i \in Jobs, job'[i].status \in Held
               PROVE  HeldByWorker(i)' \/ HeldByCancel(i)'
    BY DEF HeldIsWorkedOn
  <2>1. HeldByWorker(i) => HeldByWorker(i)'
    BY <1>1 DEF HeldByWorker
  <2>2. CASE job'[i].status = job[i].status
    <3>1. HeldByWorker(i) \/ HeldByCancel(i)
      BY <1>1, <2>2 DEF WorkInv, HeldIsWorkedOn
    <3>2. HeldByCancel(i) => HeldByCancel(i)'
      BY <1>1, <2>2 DEF HeldByCancel, HoldsOn
    <3> QED BY <2>1, <3>1, <3>2
  <2> QED BY <2>1, <2>2 DEF HoldsOn
<1>10. QueuedWaits'
  <2> SUFFICES ASSUME NEW i \in Jobs, job'[i].status = "queued" PROVE Waits(i)'
    BY DEF QueuedWaits
  <2>1. CASE job[i].status = "queued"
    <3>1. Waits(i)
      BY <1>1, <2>1 DEF WorkInv, QueuedWaits
    <3>2. \A q \in Requests : req[q].job = i /\ req[q].pc = "enqueue" => req'[q] = req[q]
      BY <1>1 DEF HoldsOn
    <3> QED BY <1>1, <3>1, <3>2 DEF Waits
  <2>2. CASE req'[r].job = i /\ req'[r].pc = "enqueue"
    BY <2>2 DEF Waits
  <2> QED BY <2>1, <2>2 DEF HoldsOn
<1> QED BY <1>3, <1>4, <1>5, <1>6, <1>7, <1>8, <1>9, <1>10 DEF WorkInv

\* A handler that writes no job row.
LEMMA ReadingKeepsWork ==
    ASSUME TypeOK, ProgressInv, WorkInv, NEW r \in Requests,
           req[r].pc # "await", phase = "up", UNCHANGED <<job, phase>>, KeepWorker,
           \A q \in Requests \ {r} : req'[q] = req[q],
           CancelsSoundly(req'[r]), RetriesSoundly(r),
           req[r].pc \in CancelPcs =>
              \/ req'[r].pc \in CancelPcs /\ req'[r].job = req[r].job
              \/ job[req[r].job].status # "cancel_requested",
           req[r].pc = "enqueue" => job[req[r].job].status # "queued"
    PROVE  WorkInv'
<1>1. UNCHANGED <<task, workerTask, queued, job, phase>>
  BY DEF KeepWorker, manager
<1>2. Respects(r)
  BY <1>1 DEF Respects
<1>3. HoldsOn(r)
  BY <1>1 DEF HoldsOn
<1> QED BY <1>2, <1>3, RequestKeepsWork

\* A handler that writes the status of the job j.
LEMMA WritingKeepsWork ==
    ASSUME TypeOK, ProgressInv, WorkInv, NEW r \in Requests, NEW j \in Jobs, NEW s,
           SetStatus(j, s), Exists(j), s # "absent",
           req[r].pc \notin {"await", "enqueue"}, phase = "up", UNCHANGED phase, KeepWorker,
           \A q \in Requests \ {r} : req'[q] = req[q],
           \A q \in Requests \ {r} : ~(req[q].pc = "retry" /\ req[q].job = j),
           CancelsSoundly(req'[r]), RetriesSoundly(r),
           job[j].status \in Withdrawn => s \in Withdrawn,
           \A u \in Tasks : task[u].pc \in WorkingPcs /\ task[u].job = j => s \in Held,
           s \in Held => HeldByWorker(j) \/ HeldByCancel(j)',
           s = "queued" => req'[r].job = j /\ req'[r].pc = "enqueue",
           req[r].pc \in CancelPcs =>
              \/ req'[r].pc \in CancelPcs /\ req'[r].job = req[r].job
              \/ req[r].job = j /\ s # "cancel_requested"
    PROVE  WorkInv'
<1>1. UNCHANGED <<task, workerTask, queued, phase>>
  BY DEF KeepWorker, manager
<1>2. \A i \in Jobs : job'[i].status = IF i = j THEN s ELSE job[i].status
  BY SetStatusIs
<1>3. /\ \A u \in Tasks : task[u].pc \in WorkingPcs => task[u].job \in Jobs
      /\ \A q \in Requests : req[q].pc = "retry" => req[q].job \in Jobs
  BY DEF TypeOK, WorkingPcs, SectionPcs, TryPcs, HandlerPcs
<1>4. Respects(r)
  <2>1. \A i \in Jobs : i <= created =>
          /\ job[i].status \in Withdrawn => job'[i].status \in Withdrawn
          /\ job[i].status = "absent" => job'[i].status = "absent"
    BY <1>2 DEF Exists
  <2>2. \A q \in Requests \ {r} : req[q].pc = "retry" =>
          job'[req[q].job].status = job[req[q].job].status
    BY <1>2, <1>3
  <2>3. \A u \in Tasks : task[u].pc \in WorkingPcs =>
          \/ job'[task[u].job].status \in Held \cup {"absent"}
          \/ job'[task[u].job].status = job[task[u].job].status
    BY <1>2, <1>3
  <2> QED BY <1>1, <2>1, <2>2, <2>3 DEF Respects
<1>5. HoldsOn(r)
  <2>1. \A i \in Jobs : job'[i].status \in Held =>
          job'[i].status = job[i].status \/ HeldByWorker(i) \/ HeldByCancel(i)'
    BY <1>2
  <2>2. req[r].pc \in CancelPcs =>
          \/ req'[r].pc \in CancelPcs /\ req'[r].job = req[r].job
          \/ job'[req[r].job].status # "cancel_requested"
    BY <1>2
  <2>3. \A i \in Jobs : job'[i].status = "queued" =>
          job[i].status = "queued" \/ (req'[r].job = i /\ req'[r].pc = "enqueue")
    BY <1>2
  <2> QED BY <2>1, <2>2, <2>3 DEF HoldsOn
<1> QED BY <1>4, <1>5, RequestKeepsWork

\* Nobody works on a job that is not held.
LEMMA UnheldIsNotWorkedOn ==
    ASSUME TypeOK, WorkInv, NEW j \in Jobs, Exists(j), job[j].status \notin Held
    PROVE  \A u \in Tasks : ~(task[u].pc \in WorkingPcs /\ task[u].job = j)
BY DEF WorkInv, WorkIsSound, WorksSoundly

LEMMA ServedIsUp ==
    ASSUME WorkInv, NEW r \in Requests, req[r].pc # "idle"
    PROVE  phase = "up"
BY DEF WorkInv, OnlyUpServes

\* start: the check, the row and the answer.
LEMMA StartKeepsWork ==
    ASSUME TypeOK, ProgressInv, WorkInv, NEW r \in Requests,
           (\E d \in Docs : start_job_check(r, d)) \/ start_job_create(r)
    PROVE  WorkInv'
<1>1. CASE \E d \in Docs : start_job_check(r, d)
  <2>1. PICK d \in Docs : start_job_check(r, d)
    BY <1>1
  <2>2. req'[r].pc = "create" /\ \A q \in Requests \ {r} : req'[q] = req[q]
    BY <2>1 DEF start_job_check, TypeOK, RequestStates
  <2>3. CancelsSoundly(req'[r]) /\ RetriesSoundly(r)
    BY <2>2 DEF CancelsSoundly, RetriesSoundly, CancelPcs
  <2>4. req[r].pc = "idle" /\ phase = "up" /\ UNCHANGED <<job, phase>> /\ KeepWorker
    BY <2>1 DEF start_job_check, database
  <2> QED BY <2>2, <2>3, <2>4, ReadingKeepsWork DEF CancelPcs
<1>2. CASE start_job_create(r) /\ Reply(r) /\ UNCHANGED job
  <2>1. /\ req[r].pc = "create" /\ UNCHANGED <<job, phase>> /\ KeepWorker
        /\ req'[r].pc = "idle" /\ \A q \in Requests \ {r} : req'[q] = req[q]
    BY <1>2 DEF start_job_create, Reply, Idle, TypeOK
  <2>2. CancelsSoundly(req'[r]) /\ RetriesSoundly(r)
    BY <2>1 DEF CancelsSoundly, RetriesSoundly, CancelPcs
  <2>3. phase = "up"
    BY <2>1, ServedIsUp
  <2> QED BY <2>1, <2>2, <2>3, ReadingKeepsWork DEF CancelPcs
<1>3. ASSUME req[r].pc = "create", req[r].doc \in docs, created < MaxJobs,
             job' = [job EXCEPT ![created + 1] = Row(req[r].doc, "queued")],
             req' = [req EXCEPT ![r] = [Idle EXCEPT !.pc = "enqueue", !.job = created + 1]],
             KeepWorker, UNCHANGED phase
      PROVE  WorkInv'
  <2> DEFINE j == created + 1
  <2>1. j \in Jobs /\ created \in Nat
    BY <1>3, ConstantsAssumption DEF TypeOK, Jobs
  <2>2. /\ job'[j].status = "queued" /\ \A i \in Jobs \ {j} : job'[i] = job[i]
    BY <1>3, <2>1 DEF TypeOK, Row
  <2>3. /\ req'[r].pc = "enqueue" /\ req'[r].job = j
        /\ \A q \in Requests \ {r} : req'[q] = req[q]
    BY <1>3 DEF TypeOK, Idle
  <2>4. /\ \A u \in Tasks : task[u].pc \in WorkingPcs => task[u].job \in Jobs \ {j}
        /\ \A q \in Requests : req[q].pc = "retry" => req[q].job \in Jobs \ {j}
    <3>1. \A n \in Nat : n <= created => n # j
      BY <2>1
    <3>2. /\ \A u \in Tasks : task[u].job <= created
          /\ \A q \in Requests : req[q].job <= created
      BY DEF ProgressInv, ReferencesAreCreated
    <3>3. /\ \A u \in Tasks : task[u].pc \in WorkingPcs => task[u].job \in Jobs
          /\ \A q \in Requests : req[q].pc = "retry" => req[q].job \in Jobs
      BY DEF TypeOK, WorkingPcs, SectionPcs, TryPcs, HandlerPcs
    <3>4. Jobs \subseteq Nat
      BY DEF Jobs
    <3> QED BY <3>1, <3>2, <3>3, <3>4
  <2>5. phase = "up" /\ UNCHANGED <<task, workerTask, queued, phase>>
    BY <1>3, ServedIsUp DEF KeepWorker, manager
  <2>6. Respects(r)
    <3>1. \A i \in Jobs : i <= created => job'[i] = job[i]
      BY <2>1, <2>2 DEF Jobs
    <3> QED BY <1>3, <2>2, <2>3, <2>4, <2>5, <3>1 DEF Respects
  <2>7. CancelsSoundly(req'[r]) /\ RetriesSoundly(r)
    BY <2>3 DEF CancelsSoundly, RetriesSoundly, CancelPcs
  <2>8. HoldsOn(r)
    BY <1>3, <2>2, <2>3 DEF HoldsOn, Held, CancelPcs
  <2> QED BY <2>6, <2>7, <2>8, RequestKeepsWork
<1> QED BY <1>1, <1>2, <1>3 DEF start_job_create

\* A handler that gives up because the row is gone.
LEMMA GivingUpKeepsWork ==
    ASSUME TypeOK, ProgressInv, WorkInv, NEW r \in Requests, RowGone(r)
    PROVE  WorkInv'
<1>1. /\ req[r].pc \in {"enqueue", "signal"} /\ job[req[r].job].status = "absent"
      /\ UNCHANGED <<job, phase>> /\ KeepWorker
      /\ req'[r].pc = "idle" /\ \A q \in Requests \ {r} : req'[q] = req[q]
  BY DEF RowGone, Reply, Idle, TypeOK, database, Exists
<1>2. CancelsSoundly(req'[r]) /\ RetriesSoundly(r)
  BY <1>1 DEF CancelsSoundly, RetriesSoundly, CancelPcs
<1>3. phase = "up"
  BY <1>1, ServedIsUp
<1> QED BY <1>1, <1>2, <1>3, ReadingKeepsWork

LEMMA PauseKeepsWork ==
    ASSUME TypeOK, ProgressInv, WorkInv, NEW r \in Requests, NEW j \in Jobs,
           pause_job(r, j) \/ resume_job(r, j)
    PROVE  WorkInv'
<1>1. /\ phase = "up" /\ req[r].pc = "idle" /\ UNCHANGED phase /\ KeepWorker
      /\ \A q \in Requests : ~(req[q].pc = "retry" /\ req[q].job = j)
      /\ \A q \in Requests \ {r} : req'[q] = req[q]
  BY DEF pause_job, resume_job, Locked, TypeOK
<1>2. CASE pause_job(r, j)
  <2>1. req'[r].pc = "idle"
    BY <1>1, <1>2 DEF pause_job
  <2>2. CancelsSoundly(req'[r]) /\ RetriesSoundly(r)
    BY <2>1 DEF CancelsSoundly, RetriesSoundly, CancelPcs
  <2>3. PICK s : /\ SetStatus(j, s) /\ s \in {"paused", "pause_requested"}
                 /\ s = "paused" => job[j].status = "queued"
                 /\ s = "pause_requested" => job[j].status = "analyzing"
    BY <1>2 DEF pause_job
  <2>4. Exists(j) /\ job[j].status \notin Withdrawn
    BY <2>3 DEF Exists, Withdrawn
  <2>5. \A u \in Tasks : task[u].pc \in WorkingPcs /\ task[u].job = j => s \in Held
    BY <2>3, <2>4, UnheldIsNotWorkedOn DEF Held
  <2>6. s \in Held => HeldByWorker(j)
    BY <1>1, <2>3 DEF WorkInv, HeldIsWorkedOn, Held, HeldByCancel
  <2> QED BY <1>1, <2>2, <2>3, <2>4, <2>5, <2>6, WritingKeepsWork DEF CancelPcs
<1>3. CASE resume_job(r, j)
  <2>1. req'[r].pc = "enqueue" /\ req'[r].job = j
    BY <1>3 DEF resume_job, TypeOK, RequestStates
  <2>2. CancelsSoundly(req'[r]) /\ RetriesSoundly(r)
    BY <2>1 DEF CancelsSoundly, RetriesSoundly, CancelPcs
  <2>3. SetStatus(j, "queued") /\ job[j].status = "paused"
    BY <1>3 DEF resume_job
  <2>4. Exists(j) /\ job[j].status \notin Withdrawn \cup Held
    BY <2>3 DEF Exists, Withdrawn, Held
  <2>5. \A u \in Tasks : ~(task[u].pc \in WorkingPcs /\ task[u].job = j)
    BY <2>4, UnheldIsNotWorkedOn
  <2> QED BY <1>1, <2>1, <2>2, <2>3, <2>4, <2>5, WritingKeepsWork DEF CancelPcs, Held
<1> QED BY <1>2, <1>3

LEMMA RetryKeepsWork ==
    ASSUME TypeOK, ProgressInv, WorkInv, NEW r \in Requests,
           (\E j \in Jobs : retry_job_check(r, j)) \/ retry_job_commit(r)
    PROVE  WorkInv'
<1>1. ASSUME NEW j \in Jobs, retry_job_check(r, j) PROVE WorkInv'
  <2>1. /\ req'[r].pc = "retry" /\ req'[r].job = j
        /\ \A q \in Requests \ {r} : req'[q] = req[q]
    BY <1>1 DEF retry_job_check, TypeOK, RequestStates
  <2>2. /\ phase = "up" /\ req[r].pc = "idle" /\ UNCHANGED <<job, phase>> /\ KeepWorker
        /\ job[j].status = "failed"
        /\ \A q \in Requests : ~(req[q].pc = "retry" /\ req[q].job = j)
    BY <1>1 DEF retry_job_check, Locked, database
  <2>3. CancelsSoundly(req'[r]) /\ RetriesSoundly(r)
    BY <2>1, <2>2 DEF CancelsSoundly, RetriesSoundly, CancelPcs
  <2> QED BY <2>1, <2>2, <2>3, ReadingKeepsWork DEF CancelPcs
<1>2. CASE retry_job_commit(r)
  <2> DEFINE j == req[r].job
  <2>1. /\ req[r].pc = "retry" /\ SetStatus(j, "queued") /\ UNCHANGED phase /\ KeepWorker
        /\ j \in Jobs
        /\ req'[r].pc = "enqueue" /\ req'[r].job = j
        /\ \A q \in Requests \ {r} : req'[q] = req[q]
    BY <1>2 DEF retry_job_commit, TypeOK, RequestStates
  <2>2. /\ job[j].status = "failed"
        /\ \A q \in Requests \ {r} : ~(req[q].pc = "retry" /\ req[q].job = j)
    BY <2>1 DEF WorkInv, RetriesFailed
  <2>3. CancelsSoundly(req'[r]) /\ RetriesSoundly(r)
    BY <2>1 DEF CancelsSoundly, RetriesSoundly, CancelPcs
  <2>4. Exists(j) /\ job[j].status \notin Withdrawn \cup Held
    BY <2>2 DEF Exists, Withdrawn, Held
  <2>5. \A u \in Tasks : ~(task[u].pc \in WorkingPcs /\ task[u].job = j)
    BY <2>1, <2>4, UnheldIsNotWorkedOn
  <2>6. phase = "up"
    BY <2>1, ServedIsUp
  <2> QED BY <2>1, <2>2, <2>3, <2>4, <2>5, <2>6, WritingKeepsWork DEF CancelPcs, Held
<1> QED BY <1>1, <1>2

\* cancel: the status is written, ...
LEMMA CancelKeepsWork ==
    ASSUME TypeOK, ProgressInv, WorkInv, NEW r \in Requests, NEW j \in Jobs, cancel_job(r, j)
    PROVE  WorkInv'
<1>1. /\ phase = "up" /\ req[r].pc = "idle" /\ UNCHANGED phase /\ KeepWorker
      /\ \A q \in Requests : ~(req[q].pc = "retry" /\ req[q].job = j)
      /\ req'[r].pc = "signal" /\ req'[r].job = j
      /\ \A q \in Requests \ {r} : req'[q] = req[q]
  BY DEF cancel_job, Locked, TypeOK, RequestStates
<1>2. PICK s : /\ SetStatus(j, s) /\ s \in {"cancelled", "cancel_requested"}
               /\ s = "cancelled" => job[j].status \in {"queued", "paused"}
               /\ s = "cancel_requested" => job[j].status \in {"analyzing", "pause_requested"}
  BY DEF cancel_job
<1>3. Exists(j) /\ job[j].status \notin Withdrawn /\ s \in Withdrawn
  BY <1>2 DEF Exists, Withdrawn
<1>4. job'[j].status = s
  BY <1>2, SetStatusIs
<1>5. CancelsSoundly(req'[r]) /\ RetriesSoundly(r)
  BY <1>1, <1>3, <1>4 DEF CancelsSoundly, RetriesSoundly
<1>6. \A u \in Tasks : task[u].pc \in WorkingPcs /\ task[u].job = j => s \in Held
  BY <1>2, <1>3, UnheldIsNotWorkedOn DEF Held
<1>7. s \in Held => HeldByWorker(j)
  BY <1>1, <1>2 DEF WorkInv, HeldIsWorkedOn, Held, HeldByCancel
<1> QED BY <1>1, <1>2, <1>3, <1>5, <1>6, <1>7, WritingKeepsWork DEF CancelPcs

\* ... after the manager, the row is read again, and settled.
LEMMA SettleKeepsWork ==
    ASSUME TypeOK, ProgressInv, WorkInv, NEW r \in Requests,
           cancel_job_refresh(r) \/ cancel_job_settle(r)
    PROVE  WorkInv'
<1> DEFINE j == req[r].job
<1>1. /\ req[r].pc \in {"refresh", "settle"} /\ j \in Jobs
      /\ UNCHANGED phase /\ KeepWorker
      /\ req'[r] = Idle \/ (req'[r].pc = "settle" /\ req'[r].job = j)
      /\ \A q \in Requests \ {r} : req'[q] = req[q]
  BY DEF cancel_job_refresh, cancel_job_settle, Reply, TypeOK, RequestStates
<1>2. phase = "up"
  BY <1>1, ServedIsUp
<1>3. /\ job[j].status \in Withdrawn
      /\ Exists(j) => \A u \in Tasks : ~(task[u].pc \in WorkingPcs /\ task[u].job = j)
  BY <1>1 DEF WorkInv, CancelSticks, CancelWaits, CancelPcs
<1>4. RetriesSoundly(r)
  BY <1>1 DEF RetriesSoundly, Idle
<1>5. CASE UNCHANGED job
  <2>1. \/ req'[r].pc \in CancelPcs /\ req'[r].job = req[r].job
        \/ job[j].status # "cancel_requested"
    <3>1. CASE cancel_job_refresh(r) /\ job[j].status = "cancel_requested"
      <4>1. req' = [req EXCEPT ![r].pc = "settle"]
        BY <3>1 DEF cancel_job_refresh
      <4>2. req'[r].pc = "settle" /\ req'[r].job = j
        BY <4>1 DEF TypeOK, RequestStates
      <4> QED BY <4>2 DEF CancelPcs
    <3>2. CASE cancel_job_settle(r) /\ Exists(j)
      <4>1. SetStatus(j, "cancelled")
        BY <3>2 DEF cancel_job_settle
      <4>2. job'[j].status = "cancelled"
        BY <1>1, <4>1, SetStatusIs
      <4> QED BY <1>5, <4>2
    <3>3. CASE ~Exists(j)
      BY <3>3 DEF Exists
    <3> QED BY <3>1, <3>2, <3>3
  <2>2. CancelsSoundly(req'[r])
    BY <1>1, <1>3, <1>5 DEF CancelsSoundly, CancelPcs, Idle, Exists
  <2> QED BY <1>1, <1>2, <1>4, <1>5, <2>1, <2>2, ReadingKeepsWork
<1>6. CASE SetStatus(j, "cancelled") /\ Exists(j) /\ cancel_job_settle(r)
  <2>1. /\ req'[r] = Idle
        /\ \A q \in Requests : ~(req[q].pc = "retry" /\ req[q].job = j)
    BY <1>6 DEF cancel_job_settle, Reply, TypeOK, Locked
  <2>2. CancelsSoundly(req'[r])
    BY <2>1 DEF CancelsSoundly, CancelPcs, Idle
  <2> QED
    BY <1>1, <1>2, <1>3, <1>4, <1>6, <2>1, <2>2, WritingKeepsWork DEF Withdrawn, Held
<1> QED
  BY <1>5, <1>6 DEF cancel_job_refresh, cancel_job_settle, database

\* manager.cancel finds no worker at work on the job.
LEMMA UnawaitedKeepsWork ==
    ASSUME TypeOK, ProgressInv, WorkerInv, WorkInv, NEW r \in Requests,
           req[r].pc = "signal", req' = [req EXCEPT ![r].pc = "refresh"],
           UNCHANGED <<job, phase>>, KeepWorker,
           \/ current # req[r].job \/ workerTask = NoTask
           \/ task[workerTask].pc \in DeadPcs
    PROVE  WorkInv'
<1>1. /\ req'[r].pc = "refresh" /\ req'[r].job = req[r].job
      /\ \A q \in Requests \ {r} : req'[q] = req[q]
  BY DEF TypeOK, RequestStates
<1>2. \A u \in Tasks : task[u].pc \in WorkingPcs => task[u].job # req[r].job
  <2>1. ASSUME NEW u \in Tasks, task[u].pc \in WorkingPcs PROVE u \in Alive
    BY <2>1 DEF Alive, WorkingPcs, SectionPcs, DeadPcs
  <2>2. \A u \in Alive : u \in Tasks /\ task[u].pc \notin DeadPcs
    BY DEF Alive
  <2> QED
    BY <2>1, <2>2, ConstantsAssumption DEF WorkerInv, OneWorker, Tasks, NoTask
<1>3. job[req[r].job].status \in Withdrawn
  BY DEF WorkInv, CancelSticks, CancelPcs
<1>4. CancelsSoundly(req'[r]) /\ RetriesSoundly(r)
  BY <1>1, <1>2, <1>3 DEF CancelsSoundly, RetriesSoundly
<1>5. phase = "up"
  BY ServedIsUp
<1> QED BY <1>1, <1>4, <1>5, ReadingKeepsWork DEF CancelPcs

\* manager.cancel cancels the worker, and its handler awaits it.
LEMMA FlaggedKeepsWork ==
    ASSUME TypeOK, WorkerInv, WorkInv, NEW r \in Requests,
           req[r].pc = "signal", current = req[r].job, workerTask \in Alive,
           task' = [task EXCEPT ![workerTask].cancelling = TRUE],
           req' = [req EXCEPT ![r].pc = "await", ![r].task = workerTask],
           UNCHANGED <<job, phase, manager>>
    PROVE  WorkInv'
<1> DEFINE w == workerTask
           j == req[r].job
<1>1. /\ UNCHANGED <<workerTask, current, queued>>
      /\ task[w].job = j /\ \A u \in Alive : u = w
  BY DEF manager, WorkerInv, OneWorker
<1>2. \A u \in Tasks : /\ task'[u].pc = task[u].pc /\ task'[u].job = task[u].job
                       /\ task'[u].seen = task[u].seen
                       /\ task'[u].cancelling = (task[u].cancelling \/ u = w)
  BY <1>1, FlagKeepsWorker
<1>3. /\ req'[r].pc = "await" /\ req'[r].task = w /\ req'[r].job = j
      /\ \A q \in Requests \ {r} : req'[q] = req[q]
  BY DEF TypeOK, RequestStates
<1>4. phase = "up" /\ job[j].status \in Withdrawn
  BY ServedIsUp DEF WorkInv, CancelSticks, CancelPcs
<1>5. CancelSticks' /\ OnlyUpServes'
  BY <1>3, <1>4 DEF WorkInv, CancelSticks, OnlyUpServes, CancelPcs
<1>6. RetriesFailed'
  <2>1. UNCHANGED job /\ RetriesFailed
    BY DEF WorkInv
  <2>2. \A q \in Requests : req'[q].pc = "retry" => q # r /\ req'[q] = req[q]
    BY <1>3
  <2> QED BY ONLY <2>1, <2>2 DEF RetriesFailed
<1>7. WorkIsSound'
  BY <1>2 DEF WorkInv, WorkIsSound, WorksSoundly, Exists
<1>8. CancelWaits'
  <2>1. \A u \in Tasks : task[u].pc \in WorkingPcs => u = w
    BY <1>1 DEF Alive, WorkingPcs, SectionPcs, DeadPcs
  <2>2. UNCHANGED job /\ CancelWaits
    BY DEF WorkInv
  <2>3. \A q \in Requests : q # r => req'[q] = req[q]
    BY <1>3
  <2>4. ASSUME NEW q \in Requests, NEW u \in Tasks,
               req'[q].pc \in {"await", "refresh", "settle"},
               task'[u].pc \in WorkingPcs, task'[u].job = req'[q].job,
               job'[req'[q].job].status # "absent"
        PROVE  req'[q].pc = "await" /\ req'[q].task = u
    <3>1. task[u].pc \in WorkingPcs /\ task[u].job = req'[q].job
      BY ONLY <1>2, <2>4
    <3>2. job[req'[q].job].status # "absent"
      BY ONLY <2>2, <2>4
    <3>3. CASE q = r
      BY ONLY <1>3, <2>1, <3>1, <3>3
    <3>4. CASE q # r
      <4>1. req'[q] = req[q]
        BY <2>3, <3>4
      <4> QED BY ONLY <2>2, <2>4, <3>1, <3>2, <4>1 DEF CancelWaits, Exists
    <3> QED BY <3>3, <3>4
  <2> QED BY ONLY <2>4 DEF CancelWaits, Exists
<1>9. EndingIsAwaited'
  <2>1. Alive' = Alive /\ workerTask' \in Alive'
    BY <1>1, <1>2 DEF Alive
  <2>2. Awaited(w)'
    <3>1. task'[workerTask'].job = j /\ workerTask' = w
      BY <1>1, <1>2 DEF Alive
    <3> QED BY ONLY <1>3, <3>1, r \in Requests DEF Awaited
  <2>3. \A u \in Alive : task[u].pc = "requeue" => task[u].seen = "cancel_requested"
    BY <1>4 DEF WorkInv, EndingIsAwaited
  <2> QED BY <1>1, <1>2, <2>1, <2>2, <2>3 DEF EndingIsAwaited, Alive
<1>10. HeldIsWorkedOn'
  <2>1. ASSUME NEW i \in Jobs, HeldByWorker(i) PROVE HeldByWorker(i)'
    <3>1. PICK u \in Tasks : task[u].job = i /\ task[u].pc \in BusyPcs
      BY <2>1 DEF HeldByWorker
    <3>2. task'[u].job = i /\ task'[u].pc \in BusyPcs
      BY <1>2, <3>1
    <3> QED BY ONLY <3>2, u \in Tasks DEF HeldByWorker
  <2>2. \A i \in Jobs : HeldByCancel(i) => HeldByCancel(i)'
    <3>1. UNCHANGED job
      OBVIOUS
    <3>2. \A q \in Requests : req[q].pc \in CancelPcs =>
             req'[q].pc \in CancelPcs /\ req'[q].job = req[q].job
      BY <1>3 DEF CancelPcs
    <3> QED BY ONLY <3>1, <3>2 DEF HeldByCancel
  <2> QED BY <2>1, <2>2 DEF WorkInv, HeldIsWorkedOn
<1>11. QueuedWaits'
  <2>1. \A i \in Jobs : Waits(i) => Waits(i)'
    BY <1>1, <1>2, <1>3 DEF Waits
  <2> QED BY <2>1 DEF WorkInv, QueuedWaits
<1> QED BY <1>5, <1>6, <1>7, <1>8, <1>9, <1>10, <1>11 DEF WorkInv

LEMMA SignalKeepsWork ==
    ASSUME TypeOK, ProgressInv, WorkerInv, WorkInv, NEW r \in Requests, manager_cancel(r)
    PROVE  WorkInv'
<1>1. req[r].pc = "signal" /\ UNCHANGED <<job, phase, manager>>
  BY DEF manager_cancel, database
<1>2. CASE \/ current # req[r].job \/ workerTask = NoTask
           \/ task[workerTask].pc \in DeadPcs
  BY <1>1, <1>2, UnawaitedKeepsWork DEF manager_cancel, KeepWorker
<1>3. CASE ~(\/ current # req[r].job \/ workerTask = NoTask
             \/ task[workerTask].pc \in DeadPcs)
  <2>1. workerTask \in Alive
    BY <1>3 DEF TypeOK, Alive
  <2> QED BY <1>1, <1>3, <2>1, FlaggedKeepsWork DEF manager_cancel
<1> QED BY <1>2, <1>3

\* A handler ensures a worker: w lives on, or all tasks have ended and a new one
\* begins.  The handler has enqueued its job, or awaited the worker that ended.
LEMMA EnsuringKeepsWork ==
    ASSUME TypeOK, WorkerInv, WorkInv, NEW r \in Requests, NEW w \in Tasks \cup {NoTask},
           ensure_worker(w), \A u \in Alive : u = w,
           phase = "up", UNCHANGED <<job, phase>>, queued \subseteq queued',
           \A q \in Requests \ {r} : req'[q] = req[q],
           \/ /\ req[r].pc = "enqueue" /\ req[r].job \in queued'
              /\ req'[r].pc = "idle"
           \/ /\ req[r].pc = "await" /\ task[req[r].task].pc \in DeadPcs
              /\ req'[r].pc = "refresh" /\ req'[r].job = req[r].job
    PROVE  WorkInv'
<1>1. \/ /\ workerTask' = w /\ w \in Alive /\ UNCHANGED task
      \/ /\ Alive = {} /\ workerTask' \in Tasks
         /\ task'[workerTask'].pc = "get" /\ ~task'[workerTask'].cancelling
         /\ \A u \in Tasks \ {workerTask'} : task'[u] = task[u]
  <2>1. Fresh("get").pc = "get" /\ Fresh("get").cancelling = FALSE
    BY DEF Fresh, At
  <2> QED BY <2>1, EnsureWorkerIs DEF FreeTasks, TypeOK
\* A task that is at work, or is about to be, was so before.
<1>2. \A u \in Tasks : task'[u] = task[u] \/ (task'[u].pc = "get" /\ ~task'[u].cancelling)
  BY <1>1
<1>3. \A u \in Tasks : task[u].pc \in BusyPcs \cup UnbegunPcs => task'[u] = task[u]
  BY <1>1 DEF Alive, BusyPcs, WorkingPcs, UnbegunPcs, SectionPcs, DeadPcs
<1>4. CancelSticks' /\ RetriesFailed' /\ OnlyUpServes'
  <2>1. CancelSticks'
    BY DEF WorkInv, CancelSticks, CancelPcs
  <2>2. RetriesFailed'
    BY DEF WorkInv, RetriesFailed
  <2> QED BY <2>1, <2>2 DEF OnlyUpServes
<1>5. WorkIsSound'
  <2>1. \A u \in Tasks : task'[u].pc = "get" => WorksSoundly(task[u])'
    BY DEF WorksSoundly, WorkingPcs, SectionPcs
  <2>2. \A u \in Tasks : task'[u] = task[u] => WorksSoundly(task[u])'
    BY DEF WorkInv, WorkIsSound, WorksSoundly, Exists
  <2> QED BY <1>2, <2>1, <2>2 DEF WorkIsSound
<1>6. CancelWaits'
  <2> SUFFICES ASSUME NEW q \in Requests, NEW u \in Tasks,
                      req'[q].pc \in {"await", "refresh", "settle"},
                      task'[u].pc \in WorkingPcs, task'[u].job = req'[q].job,
                      job[req'[q].job].status # "absent"
               PROVE  req'[q].pc = "await" /\ req'[q].task = u
    BY DEF CancelWaits, Exists
  <2>1. task'[u] = task[u] /\ task[u].pc \notin DeadPcs
    BY <1>2 DEF WorkingPcs, SectionPcs, DeadPcs
  <2>2. req[q].pc \in {"await", "refresh", "settle"} /\ req[q].job = req'[q].job
    OBVIOUS
  <2>3. req[q].pc = "await" /\ req[q].task = u
    BY <2>1, <2>2 DEF WorkInv, CancelWaits, Exists
  <2>4. q # r
    BY <2>1, <2>3
  <2> QED BY <2>3, <2>4
<1>7. EndingIsAwaited'
  <2>1. workerTask' \in Alive' /\ \A u \in Alive' : u = workerTask'
    <3>1. CASE workerTask' = w /\ w \in Alive /\ UNCHANGED task
      BY <3>1 DEF Alive
    <3>2. CASE Alive = {} /\ workerTask' \in Tasks /\ task'[workerTask'].pc = "get"
               /\ \A u \in Tasks \ {workerTask'} : task'[u] = task[u]
      BY <3>2 DEF Alive, DeadPcs
    <3> QED BY <1>1, <3>1, <3>2
  <2>2. ASSUME NEW u \in Alive'
        PROVE  /\ Ending(u)' => Awaited(u)'
               /\ task'[u].pc = "requeue" => task'[u].seen = "cancel_requested"
    <3>1. u \in Tasks /\ task'[u].pc \notin DeadPcs
      BY <2>2 DEF Alive
    <3>2. CASE task'[u].pc = "get" /\ ~task'[u].cancelling
      BY <3>2 DEF Ending
    <3>3. CASE task'[u] = task[u]
      <4>1. u \in Alive
        BY <3>1, <3>3 DEF Alive
      <4>2. /\ Ending(u) => Awaited(u)
            /\ task[u].pc = "requeue" => task[u].seen = "cancel_requested"
        BY <4>1 DEF WorkInv, EndingIsAwaited
      <4>3. ASSUME Awaited(u) PROVE Awaited(u)'
        <5>1. PICK q \in Requests : req[q].pc = "await" /\ req[q].task = u
                                    /\ req[q].job = task[u].job
          BY <4>3 DEF Awaited
        <5>2. q # r
          BY <3>1, <3>3, <5>1
        <5> QED BY <3>3, <5>1, <5>2 DEF Awaited
      <4> QED BY <3>3, <4>2, <4>3 DEF Ending
    <3> QED BY <1>2, <3>1, <3>2, <3>3
  <2> QED BY <2>1, <2>2 DEF EndingIsAwaited
<1>8. HeldIsWorkedOn'
  <2>1. \A i \in Jobs : HeldByWorker(i) => HeldByWorker(i)'
    BY <1>3 DEF HeldByWorker
  <2>2. \A i \in Jobs : HeldByCancel(i) => HeldByCancel(i)'
    BY DEF HeldByCancel, CancelPcs
  <2> QED BY <2>1, <2>2 DEF WorkInv, HeldIsWorkedOn
<1>9. QueuedWaits'
  <2> SUFFICES ASSUME NEW i \in Jobs, job[i].status = "queued" PROVE Waits(i)'
    BY DEF QueuedWaits
  <2>1. Waits(i)
    BY DEF WorkInv, QueuedWaits
  <2>2. CASE i \in queued
    BY <2>2 DEF Waits
  <2>3. CASE \E u \in Tasks : task[u].job = i /\ task[u].pc \in UnbegunPcs
    BY <1>3, <2>3 DEF Waits
  <2>4. CASE \E q \in Requests : req[q].job = i /\ req[q].pc = "enqueue"
    BY <2>4 DEF Waits
  <2> QED BY <2>1, <2>2, <2>3, <2>4 DEF Waits
<1> QED BY <1>4, <1>5, <1>6, <1>7, <1>8, <1>9 DEF WorkInv

LEMMA EnqueueKeepsWork ==
    ASSUME TypeOK, WorkerInv, WorkInv, NEW r \in Requests, audit_and_enqueue(r)
    PROVE  WorkInv'
<1>1. /\ req[r].pc = "enqueue" /\ enqueue(req[r].job) /\ UNCHANGED <<job, phase>>
      /\ req'[r].pc = "idle" /\ \A q \in Requests \ {r} : req'[q] = req[q]
  BY DEF audit_and_enqueue, database, Reply, Idle, TypeOK
<1>2. ensure_worker(workerTask) /\ queued \subseteq queued' /\ req[r].job \in queued'
  BY <1>1 DEF enqueue
<1>3. workerTask \in Tasks \cup {NoTask} /\ \A u \in Alive : u = workerTask
  BY DEF TypeOK, WorkerInv, OneWorker
<1>4. phase = "up"
  BY <1>1, ServedIsUp
<1> QED BY <1>1, <1>2, <1>3, <1>4, EnsuringKeepsWork

LEMMA AwaitedKeepsWork ==
    ASSUME TypeOK, WorkerInv, WorkInv, NEW r \in Requests, manager_cancelled(r)
    PROVE  WorkInv'
<1> DEFINE e == req[r].task
<1>1. req[r].pc = "await" /\ e \in Tasks /\ task[e].pc \in DeadPcs
      /\ UNCHANGED <<job, phase, queued>>
  BY DEF manager_cancelled, TypeOK, database
<1>2. task[e].pc # "broken"
  BY <1>1 DEF WorkInv, WorkIsSound, WorksSoundly
<1>3. /\ ensure_worker(KeptWorker(e))
      /\ req' = [req EXCEPT ![r].pc = "refresh", ![r].task = NoTask]
  BY <1>2 DEF manager_cancelled
<1>4. /\ req'[r].pc = "refresh" /\ req'[r].job = req[r].job
      /\ \A q \in Requests \ {r} : req'[q] = req[q]
  BY <1>3 DEF TypeOK, RequestStates
<1>5. KeptWorker(e) \in Tasks \cup {NoTask} /\ \A u \in Alive : u = KeptWorker(e)
  BY <1>1, KeptWorkerIs DEF WorkerInv
<1>6. phase = "up"
  BY <1>1, ServedIsUp
<1> QED BY <1>1, <1>3, <1>4, <1>5, <1>6, EnsuringKeepsWork

LEMMA HandlerKeepsWork ==
    ASSUME TypeOK, ProgressInv, WorkerInv, WorkInv, NEW r \in Requests,
           RequestStep(r) \/ NewRequest(r)
    PROVE  WorkInv'
BY StartKeepsWork, GivingUpKeepsWork, PauseKeepsWork, RetryKeepsWork, CancelKeepsWork,
   SettleKeepsWork, SignalKeepsWork, EnqueueKeepsWork, AwaitedKeepsWork
   DEF RequestStep, NewRequest

-----------------------------------------------------------------------------
(* The process *)

LEMMA ForgottenIs ==
    ASSUME ForgetMemory
    PROVE  /\ phase' = "down"
           /\ \A u \in Tasks : task'[u].pc = "done"
           /\ \A q \in Requests : req'[q].pc = "idle"
BY DEF ForgetMemory, Fresh, At, Idle

\* With no handler in flight and no task at work, little remains to be said.
LEMMA QuietKeepsWork ==
    ASSUME \A u \in Tasks : task'[u].pc \in {"get", "done"},
           \A q \in Requests : req'[q].pc = "idle",
           phase' = "up" =>
              /\ workerTask' \in Alive'
              /\ \A u \in Tasks : task'[u].pc = "get" => ~task'[u].cancelling
              /\ \A i \in Jobs : job'[i].status \notin Held
              /\ \A i \in Jobs : job'[i].status = "queued" => i \in queued'
    PROVE  WorkInv'
<1>1. CancelSticks' /\ RetriesFailed' /\ OnlyUpServes'
  BY DEF CancelSticks, RetriesFailed, OnlyUpServes, CancelPcs
<1>2. WorkIsSound' /\ CancelWaits'
  BY DEF WorkIsSound, WorksSoundly, CancelWaits, WorkingPcs, SectionPcs
<1>3. EndingIsAwaited'
  <2>1. \A u \in Alive' : task'[u].pc = "get"
    BY DEF Alive, DeadPcs
  <2> QED BY <2>1 DEF EndingIsAwaited, Ending, Alive
<1>4. HeldIsWorkedOn' /\ QueuedWaits'
  BY DEF HeldIsWorkedOn, QueuedWaits, Waits
<1> QED BY <1>1, <1>2, <1>3, <1>4 DEF WorkInv

\* A process that is down has no task.
DownIsEmpty == phase = "down" => Alive = {}

\* start: the rows that only a worker leaves are recovered, the queued ones
\* are enqueued.
LEMMA RecoveryKeepsWork ==
    ASSUME TypeOK, WorkerInv, WorkInv, DownIsEmpty, start
    PROVE  WorkInv'
<1>1. /\ Alive = {} /\ ensure_worker(workerTask) /\ job' = Recovered
      /\ queued' = {j \in Jobs : Recovered[j].status = "queued"}
      /\ \A q \in Requests : req'[q].pc = "idle"
  BY DEF start, DownIsEmpty, WorkInv, OnlyUpServes
<1>2. \A u \in Tasks : task[u].pc = "done"
  BY <1>1 DEF Alive, DeadPcs, WorkInv, WorkIsSound, WorksSoundly
<1>3. /\ workerTask' \in Tasks
      /\ task' = [task EXCEPT ![workerTask'] = Fresh("get")]
  BY <1>1, EnsureWorkerIs DEF TypeOK, FreeTasks
<1>4. /\ task'[workerTask'].pc = "get" /\ ~task'[workerTask'].cancelling
      /\ \A u \in Tasks \ {workerTask'} : task'[u].pc = "done"
  <2>1. Fresh("get").pc = "get" /\ Fresh("get").cancelling = FALSE
    BY DEF Fresh, At
  <2> QED BY <1>2, <1>3, <2>1 DEF TypeOK
<1>5. \A i \in Jobs : Recovered[i].status \notin Held
  <2> SUFFICES ASSUME NEW i \in Jobs PROVE Recovered[i].status \notin Held
    OBVIOUS
  <2>1. Recovered[i].status = CASE job[i].status = "analyzing" -> "queued"
                                [] job[i].status = "pause_requested" -> "paused"
                                [] job[i].status = "cancel_requested" -> "cancelled"
                                [] OTHER -> job[i].status
    BY DEF Recovered, TypeOK, Rows
  <2> QED BY <2>1 DEF Held
<1>6. /\ workerTask' \in Alive'
      /\ \A u \in Tasks : task'[u].pc = "get" => ~task'[u].cancelling
  BY <1>3, <1>4 DEF Alive, DeadPcs
<1>7. \A i \in Jobs : /\ job'[i].status \notin Held
                      /\ job'[i].status = "queued" => i \in queued'
  BY <1>1, <1>5
<1>8. \A u \in Tasks : task'[u].pc \in {"get", "done"}
  BY <1>4
<1> QED BY <1>1, <1>6, <1>7, <1>8, QuietKeepsWork

\* stop: no request is in flight, so no worker is ending; one is made to end.
LEMMA StopKeepsWork ==
    ASSUME TypeOK, WorkerInv, WorkInv, stop
    PROVE  WorkInv'
<1>1. /\ phase' = "stopping" /\ UNCHANGED <<job, workerTask, current, queued, req>>
      /\ \A q \in Requests : req[q].pc = "idle"
  BY DEF stop, manager, database
<1>2. \A u \in Tasks : /\ task'[u].pc = task[u].pc /\ task'[u].job = task[u].job
                       /\ task'[u].seen = task[u].seen
  <2>1. CASE task # task'
    <3>1. workerTask \in Alive /\ task' = [task EXCEPT ![workerTask].cancelling = TRUE]
      BY <2>1 DEF stop, TypeOK, Alive
    <3> QED BY <1>1, <3>1, FlagKeepsWorker
  <2> QED BY <2>1
<1>3. CancelSticks' /\ RetriesFailed' /\ OnlyUpServes'
  BY <1>1 DEF WorkInv, CancelSticks, RetriesFailed, OnlyUpServes, CancelPcs
<1>4. WorkIsSound'
  BY <1>1, <1>2 DEF WorkInv, WorkIsSound, WorksSoundly, Exists
<1>5. CancelWaits' /\ EndingIsAwaited' /\ HeldIsWorkedOn' /\ QueuedWaits'
  BY <1>1 DEF CancelWaits, EndingIsAwaited, HeldIsWorkedOn, QueuedWaits
<1> QED BY <1>3, <1>4, <1>5 DEF WorkInv

LEMMA EndKeepsWork ==
    ASSUME stopped \/ Crash
    PROVE  WorkInv'
<1>1. ForgetMemory
  BY DEF stopped, Crash
<1> QED BY <1>1, ForgottenIs, QuietKeepsWork

\* A document's jobs go with it, except one that is being retried.
LEMMA DeletionKeepsWork ==
    ASSUME TypeOK, WorkInv, NEW d \in Docs, delete_document(d)
    PROVE  WorkInv'
<1>1. UNCHANGED <<task, workerTask, queued, phase, req>> /\ phase = "up"
  BY DEF delete_document, KeepWorker, manager
<1>2. \A i \in Jobs : /\ job'[i].status = job[i].status \/ job'[i].status = "absent"
                      /\ Locked(i) => job'[i].status = job[i].status
  BY DEF delete_document, Row
<1>3. CancelSticks'
  BY <1>1, <1>2 DEF WorkInv, CancelSticks, Withdrawn, CancelPcs, TypeOK
<1>4. RetriesFailed'
  <2>1. \A q \in Requests : req[q].pc = "retry" => req[q].job \in Jobs /\ Locked(req[q].job)
    BY DEF TypeOK, Locked
  <2> QED BY <1>1, <1>2, <2>1 DEF WorkInv, RetriesFailed
<1>5. WorkIsSound' /\ CancelWaits'
  <2>1. \A u \in Tasks : task[u].pc \in WorkingPcs \cup {"loop_failing", "requeue"}
                         => task[u].job \in Jobs
    <3>1. WorkingPcs \cup {"loop_failing", "requeue"} \subseteq TryPcs \cup HandlerPcs
      BY DEF WorkingPcs, SectionPcs, TryPcs, HandlerPcs
    <3> QED BY <3>1 DEF TypeOK
  <2>2. WorkIsSound'
    <3> SUFFICES ASSUME NEW u \in Tasks PROVE WorksSoundly(task[u])'
      BY DEF WorkIsSound
    <3>1. WorksSoundly(task[u])
      BY DEF WorkInv, WorkIsSound
    <3> QED BY <1>1, <1>2, <2>1, <3>1 DEF WorksSoundly, Exists
  <2>3. CancelWaits'
    <3>1. \A q \in Requests : req[q].pc \in {"await", "refresh", "settle"} => req[q].job \in Jobs
      BY DEF TypeOK
    <3> QED BY <1>1, <1>2, <3>1 DEF WorkInv, CancelWaits, Exists
  <2> QED BY <2>2, <2>3
<1>6. EndingIsAwaited'
  <2>1. \A u \in Tasks : (Awaited(u) => Awaited(u)') /\ (Ending(u)' <=> Ending(u))
    BY <1>1 DEF Awaited, Ending
  <2> QED BY <1>1, <2>1 DEF WorkInv, EndingIsAwaited, Alive
<1>7. HeldIsWorkedOn'
  <2> SUFFICES ASSUME NEW i \in Jobs, job'[i].status \in Held
               PROVE  HeldByWorker(i)' \/ HeldByCancel(i)'
    BY DEF HeldIsWorkedOn
  <2>1. job'[i].status = job[i].status
    BY <1>2 DEF Held
  <2>2. HeldByWorker(i) \/ HeldByCancel(i)
    BY <1>1, <2>1 DEF WorkInv, HeldIsWorkedOn
  <2> QED BY <1>1, <2>1, <2>2 DEF HeldByWorker, HeldByCancel
<1>8. QueuedWaits'
  BY <1>1, <1>2 DEF WorkInv, QueuedWaits, Waits
<1>9. OnlyUpServes'
  BY <1>1 DEF OnlyUpServes
<1> QED BY <1>3, <1>4, <1>5, <1>6, <1>7, <1>8, <1>9 DEF WorkInv

LEMMA UnchangedKeepsWork ==
    ASSUME WorkInv, UNCHANGED vars
    PROVE  WorkInv'
<1> USE DEF vars
<1>1. CancelSticks' /\ RetriesFailed' /\ OnlyUpServes'
  BY DEF WorkInv, CancelSticks, RetriesFailed, OnlyUpServes
<1>2. WorkIsSound' /\ CancelWaits'
  BY DEF WorkInv, WorkIsSound, WorksSoundly, CancelWaits, Exists
<1>3. EndingIsAwaited'
  BY DEF WorkInv, EndingIsAwaited, Alive, Ending, Awaited
<1>4. HeldIsWorkedOn' /\ QueuedWaits'
  BY DEF WorkInv, HeldIsWorkedOn, HeldByWorker, HeldByCancel, QueuedWaits, Waits
<1> QED BY <1>1, <1>2, <1>3, <1>4 DEF WorkInv

LEMMA LivingTaskSteps ==
    ASSUME TypeOK, WorkerInv, NEW t \in Tasks, TaskStep(t)
    PROVE  t \in Alive /\ UNCHANGED phase
<1>1. CASE worker_loop_get(t) \/ worker_loop_finally(t)
  BY <1>1 DEF worker_loop_get, worker_loop_finally, Alive, DeadPcs
<1>2. CASE JobStep(t)
  BY <1>2, JobStepOutcome DEF JobStepIs, OnlyTask, Alive
<1> QED BY <1>1, <1>2 DEF TaskStep, JobStep

LEMMA DownStaysEmpty ==
    ASSUME TypeOK, WorkerInv, WorkInv, DownIsEmpty, [Next]_vars, UNCHANGED dbErrors
    PROVE  DownIsEmpty'
<1> SUFFICES ASSUME phase' = "down" PROVE Alive' = {}
  BY DEF DownIsEmpty
<1>1. CASE start \/ stop
  BY <1>1 DEF start, stop
<1>2. CASE stopped \/ Crash
  <2>1. ForgetMemory
    BY <1>2 DEF stopped, Crash
  <2> QED BY <2>1, ForgottenIs DEF Alive, DeadPcs
<1>3. CASE UNCHANGED vars
  BY <1>3 DEF vars, DownIsEmpty, Alive
<1>4. ASSUME NEW t \in Tasks, TaskStep(t) PROVE FALSE
  BY <1>4, LivingTaskSteps DEF DownIsEmpty
<1>5. ASSUME NEW r \in Requests, RequestStep(r) \/ NewRequest(r) PROVE FALSE
  <2>1. phase = "up" /\ UNCHANGED phase
    <3>1. req[r].pc # "idle" \/ phase = "up"
      BY <1>5
         DEF RequestStep, NewRequest, start_job_check, start_job_create, RowGone,
             retry_job_commit, cancel_job_refresh, cancel_job_settle, pause_job, resume_job,
             retry_job_check, cancel_job, audit_and_enqueue, manager_cancel, manager_cancelled
    <3>2. UNCHANGED phase
      BY <1>5
         DEF RequestStep, NewRequest, start_job_check, start_job_create, RowGone,
             retry_job_commit, cancel_job_refresh, cancel_job_settle, pause_job, resume_job,
             retry_job_check, cancel_job, audit_and_enqueue, manager_cancel, manager_cancelled
    <3> QED BY <3>1, <3>2, ServedIsUp
  <2> QED BY <2>1
<1>6. ASSUME NEW d \in Docs, delete_document(d) PROVE FALSE
  BY <1>6 DEF delete_document
<1>7. \A t \in Tasks : ~DbError(t)
  <2>1. dbErrors + 1 # dbErrors
    BY DEF TypeOK
  <2> QED BY <2>1 DEF DbError
<1>8. \A r \in Requests : ~AuditError(r)
  <2>1. dbErrors + 1 # dbErrors
    BY DEF TypeOK
  <2> QED BY <2>1 DEF AuditError
<1> QED BY <1>1, <1>2, <1>3, <1>4, <1>5, <1>6, <1>7, <1>8 DEF Next

\* No database call raises, no input is unusable.
LEMMA WorkKept ==
    ASSUME ~SetupFails, TypeOK, ProgressInv, WorkerInv, WorkInv, DownIsEmpty,
           [Next]_vars, UNCHANGED dbErrors
    PROVE  WorkInv'
<1>1. dbErrors + 1 # dbErrors
  BY DEF TypeOK
<1>2. \A t \in Tasks : ~DbError(t)
  BY <1>1 DEF DbError
<1>3. \A r \in Requests : ~AuditError(r)
  BY <1>1 DEF AuditError
<1>4. ASSUME NEW t \in Tasks, TaskStep(t) PROVE WorkInv'
  <2>1. CASE worker_loop_get(t) \/ worker_loop_finally(t)
    BY <2>1, NextJobKeepsWork
  <2>2. CASE JobStep(t)
    BY <2>2, JobStepEffects, EffectsKeepWork
  <2> QED BY <1>4, <2>1, <2>2 DEF TaskStep, JobStep
<1> QED
  BY <1>2, <1>3, <1>4, HandlerKeepsWork, RecoveryKeepsWork, StopKeepsWork, EndKeepsWork,
     DeletionKeepsWork, UnchangedKeepsWork
     DEF Next

LEMMA WorkAtFirst == Init => WorkInv /\ DownIsEmpty
<1> SUFFICES ASSUME Init PROVE WorkInv /\ DownIsEmpty
  OBVIOUS
<1>1. /\ phase = "down" /\ \A t \in Tasks : task[t].pc = "done"
      /\ \A r \in Requests : req[r].pc = "idle"
  BY DEF Init, Fresh, At, Idle
<1>2. CancelSticks /\ RetriesFailed /\ OnlyUpServes
  BY <1>1 DEF CancelSticks, RetriesFailed, OnlyUpServes, CancelPcs
<1>3. WorkIsSound /\ CancelWaits
  BY <1>1 DEF WorkIsSound, WorksSoundly, CancelWaits, WorkingPcs, SectionPcs
<1>4. EndingIsAwaited /\ HeldIsWorkedOn /\ QueuedWaits
  BY <1>1 DEF EndingIsAwaited, HeldIsWorkedOn, QueuedWaits
<1>5. DownIsEmpty
  BY <1>1 DEF DownIsEmpty, Alive, DeadPcs
<1> QED BY <1>2, <1>3, <1>4, <1>5 DEF WorkInv

LEMMA WorkAlways ==
    ASSUME ~SetupFails
    PROVE  Spec /\ [](dbErrors = 0) => [](WorkInv /\ DownIsEmpty)
<1>1. /\ TypeOK /\ ProgressInv /\ WorkerInv /\ WorkInv /\ DownIsEmpty
      /\ [Next]_vars /\ dbErrors = 0 /\ (dbErrors = 0)'
      => (WorkInv /\ DownIsEmpty)'
  BY WorkKept, DownStaysEmpty
<1> QED BY <1>1, WorkAtFirst, TypeCorrect, ProgressAlways, WorkerAlways, PTL DEF Spec

\* As long as no database call raises and no job's inputs are unusable: a
\* queued job waits in the queue or is in hands that will begin or enqueue it,
\* a job that only the worker can end is being worked on or settled by a
\* cancel handler, a queue has its worker, and there is one worker; whatever
\* pauses, cancels, retries, deletions, kills and shutdowns come in between.
THEOREM NoJobIsLost ==
    ASSUME ~SetupFails
    PROVE  Spec /\ [](dbErrors = 0) => []WorkIsHeld
<1>1. TypeOK /\ WorkerInv /\ WorkInv => WorkIsHeld
  BY WorkIsHeldThen
<1> QED BY <1>1, WorkAlways, WorkerAlways, TypeCorrect, PTL

-----------------------------------------------------------------------------
(* A job that has come to rest is left alone *)

Resting == {"queued", "paused", "cancelled", "failed", "applied"}

\* What a step does to the row of a job, and to its part of the graph.
LeavesAlone(i) ==
    /\ job[i].status = "cancelled" => job'[i].status \in {"cancelled", "absent"}
    /\ job[i].status \in Resting =>
          /\ graph'[i] = graph[i]
          /\ job'[i].offset = job[i].offset \/ job'[i].status = "absent"

LEMMA SameRowIsLeftAlone ==
    ASSUME NEW i, job'[i] = job[i] \/ job'[i].status = "absent", graph'[i] = graph[i]
    PROVE  LeavesAlone(i)
BY DEF LeavesAlone

\* A step that writes the status of j, which was not cancelled.
LEMMA StatusIsLeftAlone ==
    ASSUME TypeOK, NEW j \in Jobs, NEW s, SetStatus(j, s), UNCHANGED graph,
           job[j].status = "cancelled" => s = "cancelled"
    PROVE  \A i \in Jobs : LeavesAlone(i)
BY SetStatusIs DEF LeavesAlone

LEMMA JobStepLeavesAlone ==
    ASSUME TypeOK, CountInv, WorkerInv, WorkInv, NEW t \in Tasks, JobStep(t)
    PROVE  \A i \in Jobs : LeavesAlone(i)
<1> DEFINE j == task[t].job
<1>1. JobStepIs(t) /\ Outcome(t)
  BY JobStepOutcome
<1>2. Before(t)
  BY <1>1, BeforeHolds DEF JobStepIs, OnlyTask
<1>3. CASE UNCHANGED <<job, graph>>
  BY <1>3, SameRowIsLeftAlone
<1>4. CASE UNCHANGED graph /\ Writes(t)
  <2>1. WrittenFrom(t)
    BY <1>2, <1>4, WriteIs
  <2>2. PICK s : SetStatus(j, s)
    BY <1>4 DEF Writes
  <2>3. j \in Jobs /\ job'[j].status = s
    BY <2>1, <2>2, SetStatusIs DEF WrittenFrom
  <2> QED BY <1>4, <2>1, <2>2, <2>3, StatusIsLeftAlone DEF WrittenFrom, Withdrawn
\* A section is submitted, and recorded, by a task that works on its job.
<1>5. ASSUME task[t].pc \in {"extract", "record"}
      PROVE  j \in Jobs /\ job[j].status \notin Resting
  <2>1. j \in Jobs /\ (job[j].status # "absent" => job[j].status \in Held)
    BY <1>2, <1>5 DEF Before, WorksSoundly, Exists, WorkingPcs, SectionPcs, TryPcs
  <2> QED BY <2>1 DEF Held, Resting
<1>6. CASE /\ UNCHANGED job /\ Turns(t, "extract", "extract")
           /\ graph' = [graph EXCEPT ![j] = @ \cup {task[t].sec}]
  <2>1. j \in Jobs /\ job[j].status \notin Resting
    BY <1>5, <1>6 DEF Turns
  <2>2. \A i \in Jobs \ {j} : graph'[i] = graph[i]
    BY <1>6 DEF TypeOK
  <2> QED BY <1>6, <2>1, <2>2 DEF LeavesAlone, Resting
<1>7. CASE /\ UNCHANGED graph /\ Turns(t, "record", "gate")
           /\ job' = [job EXCEPT ![j] = Recorded(@, task[t].sec)]
  <2>1. j \in Jobs /\ job[j].status \notin Resting
    BY <1>5, <1>7 DEF Turns
  <2>2. \A i \in Jobs \ {j} : job'[i] = job[i]
    BY <1>7 DEF TypeOK
  <2> QED BY <1>7, <2>1, <2>2 DEF LeavesAlone, Resting
<1>8. CASE /\ UNCHANGED graph /\ job[j].status \in RUNNABLE /\ Turns(t, "begin", "gate")
           /\ job' = [job EXCEPT ![j] = Begun(@)]
  <2>1. j \in Jobs
    BY <1>2, <1>8 DEF Before, Turns, TryPcs
  <2>2. job'[j] = Begun(job[j]) /\ \A i \in Jobs \ {j} : job'[i] = job[i]
    BY <1>8, <2>1 DEF TypeOK
  <2>3. job[j] \in Rows /\ (job[j].offset # 0 => job[j].started)
    BY <2>1 DEF TypeOK, CountInv, RecordedIsBegun
  <2>4. Begun(job[j]).offset = job[j].offset
    BY <2>3 DEF Begun, Rows
  <2> QED BY <1>8, <2>2, <2>4 DEF LeavesAlone, RUNNABLE
<1> QED BY <1>1, <1>3, <1>4, <1>6, <1>7, <1>8 DEF Outcome

LEMMA HandlerLeavesAlone ==
    ASSUME TypeOK, ProgressInv, WorkInv, NEW r \in Requests, RequestStep(r) \/ NewRequest(r)
    PROVE  \A i \in Jobs : LeavesAlone(i)
<1>1. UNCHANGED graph
  BY DEF RequestStep, NewRequest, start_job_check, start_job_create, RowGone,
         retry_job_commit, cancel_job_refresh, cancel_job_settle, pause_job, resume_job,
         retry_job_check, cancel_job, audit_and_enqueue, manager_cancel, manager_cancelled
<1>2. CASE UNCHANGED job
  BY <1>1, <1>2, SameRowIsLeftAlone
<1>3. ASSUME NEW j \in Jobs, NEW s, SetStatus(j, s), job[j].status = "cancelled" => s = "cancelled"
      PROVE  \A i \in Jobs : LeavesAlone(i)
  BY <1>1, <1>3, StatusIsLeftAlone
<1>4. CASE start_job_create(r) /\ job # job'
  <2>1. created < MaxJobs /\ job' = [job EXCEPT ![created + 1] = Row(req[r].doc, "queued")]
    BY <1>4 DEF start_job_create
  <2>2. created + 1 \in Jobs /\ ~(created + 1 <= created)
    BY <2>1, ConstantsAssumption DEF TypeOK, Jobs
  <2>3. job[created + 1].status = "absent"
    BY <2>2 DEF ProgressInv, ReferencesAreCreated, Exists
  <2>4. \A i \in Jobs \ {created + 1} : job'[i] = job[i]
    BY <2>1 DEF TypeOK
  <2> QED BY <1>1, <2>3, <2>4 DEF LeavesAlone, Resting
<1>5. CASE retry_job_commit(r)
  <2>1. /\ req[r].job \in Jobs /\ job[req[r].job].status = "failed"
        /\ SetStatus(req[r].job, "queued")
    BY <1>5 DEF retry_job_commit, WorkInv, RetriesFailed, TypeOK
  <2> QED BY <1>3, <2>1
<1>6. CASE cancel_job_settle(r) /\ job # job'
  BY <1>3, <1>6 DEF cancel_job_settle, TypeOK
<1>7. ASSUME NEW j \in Jobs, pause_job(r, j) \/ resume_job(r, j) \/ cancel_job(r, j)
      PROVE  \A i \in Jobs : LeavesAlone(i)
  BY <1>3, <1>7 DEF pause_job, resume_job, cancel_job
<1> QED
  BY <1>2, <1>4, <1>5, <1>6, <1>7
     DEF RequestStep, NewRequest, start_job_check, RowGone, audit_and_enqueue,
         manager_cancel, manager_cancelled, cancel_job_refresh, retry_job_check, database

LEMMA ProcessLeavesAlone ==
    ASSUME TypeOK,
           start \/ stop \/ stopped \/ Crash \/ (\E d \in Docs : delete_document(d))
    PROVE  \A i \in Jobs : LeavesAlone(i)
<1>1. UNCHANGED graph
  BY DEF start, stop, stopped, Crash, delete_document
<1>2. CASE start
  <2>1. job' = Recovered
    BY <1>2 DEF start
  <2>2. \A i \in Jobs : /\ job[i].status = "cancelled" => Recovered[i].status = "cancelled"
                        /\ Recovered[i].offset = job[i].offset
    BY DEF Recovered, TypeOK, Rows
  <2> QED BY <1>1, <2>1, <2>2 DEF LeavesAlone
<1>3. CASE stop \/ stopped \/ Crash
  BY <1>1, <1>3, SameRowIsLeftAlone DEF stop, stopped, Crash, database
<1>4. ASSUME NEW d \in Docs, delete_document(d) PROVE \A i \in Jobs : LeavesAlone(i)
  <2>1. \A i \in Jobs : job'[i] = job[i] \/ job'[i].status = "absent"
    BY <1>4 DEF delete_document, Row
  <2> QED BY <1>1, <2>1, SameRowIsLeftAlone
<1> QED BY <1>2, <1>3, <1>4

LEMMA RestStays ==
    ASSUME TypeOK, ProgressInv, CountInv, WorkerInv, WorkInv, Next, UNCHANGED dbErrors
    PROVE  \A i \in Jobs : LeavesAlone(i)
<1>1. dbErrors + 1 # dbErrors
  BY DEF TypeOK
<1>2. \A t \in Tasks : ~DbError(t)
  BY <1>1 DEF DbError
<1>3. \A r \in Requests : ~AuditError(r)
  BY <1>1 DEF AuditError
<1>4. ASSUME NEW t \in Tasks, TaskStep(t) PROVE \A i \in Jobs : LeavesAlone(i)
  <2>1. CASE worker_loop_get(t) \/ worker_loop_finally(t)
    BY <2>1, SameRowIsLeftAlone DEF worker_loop_get, worker_loop_finally, database
  <2>2. CASE JobStep(t)
    BY <2>2, JobStepLeavesAlone
  <2> QED BY <1>4, <2>1, <2>2 DEF TaskStep, JobStep
<1> QED
  BY <1>2, <1>3, <1>4, HandlerLeavesAlone, ProcessLeavesAlone DEF Next

\* Under the same conditions a cancelled job stays cancelled until its row is
\* deleted, and of a job that is queued, paused, cancelled, failed or applied
\* no section reaches the graph and current_offset stands still: no straggling
\* task, handler or recovery writes for it.
THEOREM RestIsLeftAlone ==
    ASSUME ~SetupFails
    PROVE  Spec /\ [](dbErrors = 0) => RestIsKept
<1> DEFINE Final == [\A j \in Jobs : job[j].status = "cancelled"
                                     => job'[j].status \in {"cancelled", "absent"}]_vars
           Still == [\A j \in Jobs :
                        job[j].status \in {"queued", "paused", "cancelled", "failed", "applied"}
                        => graph'[j] = graph[j]
                           /\ (job'[j].offset = job[j].offset \/ job'[j].status = "absent")]_vars
<1>1. /\ TypeOK /\ ProgressInv /\ CountInv /\ WorkerInv /\ WorkInv
      /\ [Next]_vars /\ dbErrors = 0 /\ (dbErrors = 0)'
      => Final /\ Still
  BY RestStays DEF LeavesAlone, Resting
<1>2. RestIsKept <=> [][\A j \in Jobs : job[j].status = "cancelled"
                                     => job'[j].status \in {"cancelled", "absent"}]_vars
                     /\ [][\A j \in Jobs :
                        job[j].status \in {"queued", "paused", "cancelled", "failed", "applied"}
                        => graph'[j] = graph[j]
                           /\ (job'[j].offset = job[j].offset \/ job'[j].status = "absent")]_vars
  BY DEF RestIsKept, CancelledIsFinal, AtRestNothingMoves
<1> QED
  BY <1>1, <1>2, WorkAlways, WorkerAlways, CountsAlways, TypeCorrect, ProgressAlways, PTL DEF Spec
=============================================================================
