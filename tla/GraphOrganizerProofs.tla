------------------------ MODULE GraphOrganizerProofs ------------------------
(***************************************************************************)
(* Theorems about GraphOrganizer for every number of documents, jobs,      *)
(* sections, attempts, tasks and requests, and for every budget of crashes *)
(* and database errors.                                                    *)
(***************************************************************************)
EXTENDS GraphOrganizer, SequenceTheorems, TLAPS

-----------------------------------------------------------------------------
(* Type correctness *)

\* What the operators that build a task's next locals return.
LEMMA AtType ==
    ASSUME NEW pc \in TaskPcs, NEW j \in Jobs \cup {NoJob}
    PROVE  /\ At(pc, j) \in TaskStates
           /\ At(pc, j).pc = pc /\ At(pc, j).job = j
BY ConstantsAssumption
   DEF At, TaskStates, Statuses, NoJob, Jobs

LEMMA FreshType ==
    ASSUME NEW pc \in DeadPcs \cup {"get"}
    PROVE  /\ Fresh(pc) \in TaskStates
           /\ Fresh(pc).pc = pc /\ Fresh(pc).job = NoJob
BY AtType DEF Fresh, TaskPcs

\* The locals of a task that are consistent with its program counter.
TaskOK(l) ==
    /\ l \in TaskStates
    /\ l.pc \in TryPcs \cup HandlerPcs => l.job \in Jobs
    /\ l.pc \in SectionPcs => l.sec \in Sections
    /\ l.pc = "requeue" => l.seen \in DOMAIN AfterTaskCancel

\* A cancelled task is left with consistent locals.
LEMMA OnCancelType ==
    ASSUME NEW l, TaskOK(l)
    PROVE  TaskOK(OnCancel(l))
<1>1. CASE l.pc \in TryPcs
  <2>1. l.job \in Jobs
    BY <1>1 DEF TaskOK
  <2>2. /\ At("interrupted", l.job) \in TaskStates
        /\ At("interrupted", l.job).pc = "interrupted"
        /\ At("interrupted", l.job).job = l.job
    BY <2>1, AtType DEF TaskPcs, HandlerPcs
  <2> QED
    BY <1>1, <2>1, <2>2 DEF OnCancel, TaskOK, SectionPcs
<1>2. CASE l.pc \notin TryPcs
  BY <1>2, FreshType
     DEF OnCancel, TaskOK, DeadPcs, TryPcs, HandlerPcs, SectionPcs
<1> QED BY <1>1, <1>2

\* A step of one task to consistent locals keeps the tasks' types.
LEMMA ResumeType ==
    ASSUME TypeOK, NEW t \in Tasks, NEW l, TaskOK(l), Resume(t, l)
    PROVE  /\ task' \in [Tasks -> TaskStates]
           /\ \A u \in Tasks : TaskOK(task'[u])
           /\ current' \in Jobs \cup {NoJob}
<1>1. \A u \in Tasks : TaskOK(task[u])
  BY DEF TypeOK, TaskOK
<1>2. TaskOK(OnCancel(task[t]))
  BY <1>1, OnCancelType
<1>3. task' = [task EXCEPT ![t] = IF task[t].cancelling
                                  THEN OnCancel(task[t]) ELSE l]
  BY DEF Resume, TypeOK
<1>4. task' \in [Tasks -> TaskStates] /\ \A u \in Tasks : TaskOK(task'[u])
  BY <1>1, <1>2, <1>3 DEF TypeOK, TaskOK
<1>5. current' \in Jobs \cup {NoJob}
  BY DEF Resume, TypeOK
<1> QED BY <1>4, <1>5

\* Going on at pc with the locals as they are, or with the job alone.
LEMMA GotoType ==
    ASSUME TypeOK, NEW t \in Tasks, NEW pc \in TaskPcs,
           task[t].pc \in TryPcs \cup HandlerPcs,
           pc \in SectionPcs => task[t].sec \in Sections,
           pc # "requeue"
    PROVE  TaskOK([task[t] EXCEPT !.pc = pc])
BY ZenonT(40) DEF TypeOK, TaskOK, TaskStates

LEMMA QuitType ==
    ASSUME TypeOK, NEW t \in Tasks, NEW pc \in {"leave", "left", "failing", "loop_failing"},
           task[t].pc \in TryPcs \cup HandlerPcs
    PROVE  TaskOK(At(pc, task[t].job))
<1>1. task[t].job \in Jobs /\ pc \in TaskPcs
  BY DEF TypeOK, TaskPcs, TryPcs, HandlerPcs
<1>2. /\ At(pc, task[t].job) \in TaskStates
      /\ At(pc, task[t].job).pc = pc /\ At(pc, task[t].job).job = task[t].job
  BY <1>1, AtType
<1> QED BY <1>1, <1>2 DEF TaskOK, SectionPcs

\* What a step of one task must leave in order for the task's part of the
\* state to be well typed.
TasksOK ==
    /\ task \in [Tasks -> TaskStates]
    /\ \A u \in Tasks : TaskOK(task[u])
    /\ current \in Jobs \cup {NoJob}

\* _worker_loop takes the head of the queue, or waits.
LEMMA NextJobType ==
    ASSUME TypeOK, NEW t \in Tasks, NextJob(t)
    PROVE  TasksOK' /\ queue' \in Seq(Jobs) /\ queued' \subseteq Jobs
<1>1. \A u \in Tasks : TaskOK(task[u])
  BY DEF TypeOK, TaskOK
<1>2. CASE queue = <<>>
  <2>1. TaskOK(Fresh("get"))
    BY FreshType DEF TaskOK, TryPcs, HandlerPcs, SectionPcs
  <2> QED
    BY <1>1, <1>2, <2>1 DEF NextJob, TypeOK, TasksOK, TaskOK
<1>3. CASE queue # <<>>
  <2>1. Head(queue) \in Jobs /\ Tail(queue) \in Seq(Jobs)
    BY <1>3 DEF TypeOK
  <2>2. TaskOK(At("load", Head(queue)))
    <3>1. /\ At("load", Head(queue)) \in TaskStates
          /\ At("load", Head(queue)).pc = "load"
          /\ At("load", Head(queue)).job = Head(queue)
      BY <2>1, AtType DEF TaskPcs, TryPcs
    <3> QED BY <2>1, <3>1 DEF TaskOK, SectionPcs
  <2> QED
    BY <1>1, <1>3, <2>1, <2>2 DEF NextJob, TypeOK, TasksOK, TaskOK
<1> QED BY <1>2, <1>3

\* _ensure_worker creates a worker task or leaves the one there is.
LEMMA EnsureWorkerType ==
    ASSUME TypeOK, NEW w \in Tasks \cup {NoTask}, ensure_worker(w)
    PROVE  /\ task' \in [Tasks -> TaskStates]
           /\ \A u \in Tasks : TaskOK(task'[u])
           /\ workerTask' \in Tasks \cup {NoTask}
<1>1. \A u \in Tasks : TaskOK(task[u])
  BY DEF TypeOK, TaskOK
<1>2. TaskOK(Fresh("get"))
  BY FreshType DEF TaskOK, TryPcs, HandlerPcs, SectionPcs
<1> QED
  BY <1>1, <1>2 DEF ensure_worker, TypeOK, TaskOK, FreeTasks

LEMMA ForgetMemoryType ==
    ASSUME TypeOK, ForgetMemory
    PROVE  /\ TasksOK' /\ queue' \in Seq(Jobs) /\ queued' \subseteq Jobs
           /\ workerTask' \in Tasks \cup {NoTask}
           /\ req' \in [Requests -> RequestStates]
           /\ \A r \in Requests : req'[r].pc = "idle"
           /\ phase' \in {"down", "up", "stopping"}
<1>1. TaskOK(Fresh("done"))
  BY FreshType DEF TaskOK, DeadPcs, TryPcs, HandlerPcs, SectionPcs
<1>2. Idle \in RequestStates /\ Idle.pc = "idle"
  BY DEF Idle, RequestStates, RequestPcs
<1> QED
  BY <1>1, <1>2 DEF ForgetMemory, TasksOK, TaskOK

\* Writing a status keeps the job rows' type.
LEMMA SetStatusType ==
    ASSUME TypeOK, NEW j \in Jobs, NEW s \in Statuses, SetStatus(j, s)
    PROVE  job' \in [Jobs -> Rows]
<1>1. job[j] \in Rows /\ job \in [Jobs -> Rows]
  BY DEF TypeOK
<1>2. [job[j] EXCEPT !.status = s] \in Rows
  BY <1>1 DEF Rows
<1>3. job' = [job EXCEPT ![j] = [job[j] EXCEPT !.status = s]]
  BY DEF SetStatus
<1> QED
  BY <1>1, <1>2, <1>3

\* The rows that _begin_analysis and _record_section write.
LEMMA BegunType ==
    ASSUME NEW row \in Rows
    PROVE  Begun(row) \in Rows
<1>1. 0 \in 0 .. NumSections /\ 0 \in Nat /\ "analyzing" \in Statuses
  BY ConstantsAssumption DEF Statuses, UNFINISHED
<1>2. [row EXCEPT !.status = "analyzing"] \in Rows
  BY <1>1 DEF Rows
<1>3. [row EXCEPT !.status = "analyzing", !.started = TRUE,
                  !.offset = 0, !.counted = 0] \in Rows
  BY <1>1 DEF Rows
<1> QED BY <1>2, <1>3 DEF Begun

LEMMA RecordedType ==
    ASSUME NEW row \in Rows, NEW s \in 0 .. NumSections
    PROVE  Recorded(row, s) \in Rows
<1>1. row.counted + 1 \in Nat
  BY DEF Rows
<1> QED BY <1>1 DEF Rows, Recorded

\* task.cancel() keeps the tasks' type.
LEMMA CancelFlagType ==
    ASSUME TypeOK, NEW t \in Tasks, task' = [task EXCEPT ![t].cancelling = TRUE]
    PROVE  /\ task' \in [Tasks -> TaskStates]
           /\ \A u \in Tasks : TaskOK(task'[u])
<1>1. \A u \in Tasks : TaskOK(task[u])
  BY DEF TypeOK, TaskOK
<1>2. TaskOK([task[t] EXCEPT !.cancelling = TRUE])
  BY <1>1 DEF TaskOK, TaskStates
<1>3. task' = [task EXCEPT ![t] = [task[t] EXCEPT !.cancelling = TRUE]]
  OBVIOUS
<1> QED
  BY <1>1, <1>2, <1>3 DEF TypeOK, TaskOK

-----------------------------------------------------------------------------
(* The steps of the process *)

LEMMA InitType == Init => TypeOK
<1> SUFFICES ASSUME Init PROVE TypeOK
  OBVIOUS
<1>1. TaskOK(Fresh("done"))
  BY FreshType DEF TaskOK, DeadPcs, TryPcs, HandlerPcs, SectionPcs
<1>2. Idle \in RequestStates /\ Idle.pc = "idle"
  BY DEF Idle, RequestStates, RequestPcs
<1>3. Row(NoDoc, "absent") \in Rows
  BY ConstantsAssumption DEF Row, Rows, Statuses
<1>4. task \in [Tasks -> TaskStates] /\ \A t \in Tasks : TaskOK(task[t])
  BY <1>1 DEF Init, TaskOK
<1>5. job \in [Jobs -> Rows]
  BY <1>3 DEF Init
<1>6. req \in [Requests -> RequestStates] /\ \A r \in Requests : req[r].pc = "idle"
  BY <1>2 DEF Init
<1> QED
  BY <1>4, <1>5, <1>6, ConstantsAssumption DEF Init, TypeOK, TaskOK

LEMMA StartType == TypeOK /\ start => TypeOK'
<1> SUFFICES ASSUME TypeOK, start PROVE TypeOK'
  OBVIOUS
<1>1. \A j \in Jobs : job[j] \in Rows /\ Recovered[j] \in Rows
  BY ZenonT(40) DEF TypeOK, Recovered, Rows, Statuses, UNFINISHED
<1>2. job' \in [Jobs -> Rows]
  BY <1>1 DEF start, Recovered
<1>3. queued' \subseteq Jobs
  BY DEF start
<1>4. queue' \in Seq(Jobs)
  <2>1. PICK n \in 0 .. MaxJobs : queue' \in [1 .. n -> queued']
    BY DEF start, InCreationOrder
  <2>2. n \in Nat
    BY ConstantsAssumption
  <2>3. queue' \in [1 .. n -> Jobs]
    BY <1>3, <2>1
  <2> QED BY <2>2, <2>3, SeqDef
<1>5. workerTask \in Tasks \cup {NoTask} /\ ensure_worker(workerTask)
  BY DEF start, TypeOK
<1>6. /\ task' \in [Tasks -> TaskStates]
      /\ \A u \in Tasks : TaskOK(task'[u])
      /\ workerTask' \in Tasks \cup {NoTask}
  BY <1>5, EnsureWorkerType
<1> QED
  BY <1>2, <1>3, <1>4, <1>6 DEF start, TypeOK, TaskOK, budgets

LEMMA ProcessType == TypeOK /\ (stop \/ stopped \/ Crash) => TypeOK'
<1> SUFFICES ASSUME TypeOK PROVE stop \/ stopped \/ Crash => TypeOK'
  OBVIOUS
<1>1. ASSUME stop PROVE TypeOK'
  <2>1. \A u \in Tasks : TaskOK(task[u])
    BY DEF TypeOK, TaskOK
  <2>2. task' \in [Tasks -> TaskStates] /\ \A u \in Tasks : TaskOK(task'[u])
    <3>1. CASE workerTask = NoTask \/ task[workerTask].pc \in DeadPcs
      BY <1>1, <2>1, <3>1 DEF stop, TypeOK
    <3>2. CASE ~(workerTask = NoTask \/ task[workerTask].pc \in DeadPcs)
      BY <1>1, <3>2, CancelFlagType DEF stop, TypeOK
    <3> QED BY <3>1, <3>2
  <2> QED
    BY <1>1, <2>2 DEF stop, TypeOK, TaskOK, database, manager, budgets
<1>2. ASSUME stopped PROVE TypeOK'
  <2>1. ForgetMemory
    BY <1>2 DEF stopped
  <2> QED
    BY <1>2, <2>1, ForgetMemoryType
       DEF stopped, TypeOK, TasksOK, TaskOK, database, budgets
<1>3. ASSUME Crash PROVE TypeOK'
  <2>1. ForgetMemory /\ crashes' \in 0 .. MaxCrashes
    BY <1>3, ConstantsAssumption DEF Crash, TypeOK
  <2> QED
    BY <1>3, <2>1, ForgetMemoryType DEF Crash, TypeOK, TasksOK, TaskOK, database
<1> QED BY <1>1, <1>2, <1>3

-----------------------------------------------------------------------------
(* The steps of a worker task *)

LEMMA GotoStep ==
    ASSUME TypeOK, NEW t \in Tasks, NEW pc \in TaskPcs, Goto(t, pc),
           task[t].pc \in TryPcs \cup HandlerPcs,
           pc \in SectionPcs => task[t].sec \in Sections,
           pc # "requeue"
    PROVE  TasksOK'
BY GotoType, ResumeType DEF Goto, TasksOK

LEMMA QuitStep ==
    ASSUME TypeOK, NEW t \in Tasks, task[t].pc \in TryPcs \cup HandlerPcs,
           NEW pc \in {"leave", "left", "failing", "loop_failing"}, Quit(t, pc)
    PROVE  TasksOK'
BY QuitType, ResumeType DEF Quit, TasksOK

\* Steps that look at the job and write nothing.
LEMMA ReadStepType ==
    ASSUME TypeOK, NEW t \in Tasks,
           \/ Interrupt(t) \/ worker_loop_get(t) \/ worker_loop_finally(t)
           \/ load_job_inputs(t) \/ job_snapshot(t)
           \/ extract_graph_section(t) \/ record_trace_failed(t)
           \/ mark_after_task_cancel_read(t)
    PROVE  TypeOK'
<1>1. \A u \in Tasks : TaskOK(task[u])
  BY DEF TypeOK, TaskOK
<1>2. CASE Interrupt(t)
  <2>1. TaskOK(OnCancel(task[t]))
    BY <1>1, OnCancelType
  <2>2. TasksOK'
    BY <1>1, <1>2, <2>1 DEF Interrupt, TypeOK, TasksOK, TaskOK
  <2> QED
    BY <1>2, <2>2 DEF Interrupt, TypeOK, TasksOK, TaskOK, KeepManager, database, budgets
<1>3. CASE worker_loop_get(t) \/ worker_loop_finally(t)
  <2>1. NextJob(t)
    BY <1>3 DEF worker_loop_get, worker_loop_finally
  <2> QED
    BY <1>3, <2>1, NextJobType
       DEF worker_loop_get, worker_loop_finally, TypeOK, TasksOK, TaskOK, database, budgets
<1>4. CASE load_job_inputs(t)
  <2>1. TasksOK'
    BY <1>4, GotoStep, QuitStep DEF load_job_inputs, TryPcs, TaskPcs, SectionPcs
  <2> QED
    BY <1>4, <2>1 DEF load_job_inputs, TypeOK, TasksOK, TaskOK, KeepManager, database, budgets
<1>5. CASE job_snapshot(t)
  <2>0. task[t].job \in Jobs /\ task[t] \in TaskStates
    BY <1>5 DEF job_snapshot, TypeOK, TryPcs
  <2>1. job[task[t].job].offset \in 0 .. NumSections
    BY <2>0 DEF TypeOK, Rows
  <2> DEFINE l == [task[t] EXCEPT !.pc = "begin", !.sec = job[task[t].job].offset]
  <2>2. TaskOK(l)
    BY <2>0, <2>1 DEF TaskOK, TaskStates, TaskPcs, TryPcs, SectionPcs
  <2>3. Resume(t, l) => TasksOK'
    BY <2>2, ResumeType DEF TasksOK
  <2>4. TasksOK'
    BY <1>5, <2>3, QuitStep DEF job_snapshot, TryPcs
  <2> QED
    BY <1>5, <2>4 DEF job_snapshot, TypeOK, TasksOK, TaskOK, KeepManager, database, budgets
<1>6. CASE extract_graph_section(t)
  <2>1. task[t].job \in Jobs /\ task[t].sec \in Sections /\ task[t] \in TaskStates
    BY <1>6 DEF extract_graph_section, TypeOK, TryPcs, SectionPcs
  <2>2. TaskOK([task[t] EXCEPT !.pc = "trace_ok", !.submitted = FALSE])
    BY <2>1 DEF TaskOK, TaskStates, TaskPcs, TryPcs, SectionPcs
  <2>3. \A again \in BOOLEAN :
           TaskOK([task[t] EXCEPT !.pc = "trace_failed", !.again = again, !.submitted = FALSE])
    BY <2>1 DEF TaskOK, TaskStates, TaskPcs, TryPcs, SectionPcs
  <2>4. TasksOK'
    BY <1>6, <2>2, <2>3, ResumeType DEF extract_graph_section, TasksOK
  <2> QED
    BY <1>6, <2>4 DEF extract_graph_section, TypeOK, TasksOK, TaskOK, KeepManager, database, budgets
<1>7. CASE record_trace_failed(t)
  <2>1. task[t].job \in Jobs /\ task[t].sec \in Sections /\ task[t] \in TaskStates
    BY <1>7 DEF record_trace_failed, TypeOK, TryPcs, SectionPcs
  <2>2. ASSUME task[t].attempt < MaxAttempts
        PROVE  TaskOK(Session(task[t], task[t].sec, task[t].attempt + 1))
    <3>1. task[t].attempt + 1 \in 0 .. MaxAttempts /\ task[t].sec \in 0 .. NumSections
      BY <2>1, <2>2, ConstantsAssumption DEF TaskStates
    <3> QED
      BY <2>1, <3>1 DEF Session, TaskOK, TaskStates, TaskPcs, TryPcs, SectionPcs
  <2>3. TasksOK'
    BY <1>7, <2>2, ResumeType, QuitStep DEF record_trace_failed, TasksOK, TryPcs
  <2> QED
    BY <1>7, <2>3 DEF record_trace_failed, TypeOK, TasksOK, TaskOK, KeepManager, database, budgets
<1>8. CASE mark_after_task_cancel_read(t)
  <2> DEFINE s == job[task[t].job].status
             l == [task[t] EXCEPT !.pc = "requeue", !.seen = s]
  <2>1. task[t].job \in Jobs /\ s \in Statuses /\ task[t] \in TaskStates
    BY <1>8 DEF mark_after_task_cancel_read, TypeOK, HandlerPcs, Rows
  <2>2. s \in DOMAIN AfterTaskCancel => TaskOK(l)
    <3> HIDE DEF s
    <3> QED
      BY <2>1 DEF TaskOK, TaskStates, TaskPcs, HandlerPcs, SectionPcs
  <2>3. TaskOK(Fresh("done"))
    BY FreshType DEF TaskOK, DeadPcs, TryPcs, HandlerPcs, SectionPcs
  <2>4. ASSUME s \in DOMAIN AfterTaskCancel PROVE TasksOK'
    <3>1. task' = [task EXCEPT ![t] = l] /\ current' = current
      BY <1>8, <2>4 DEF mark_after_task_cancel_read, TypeOK
    <3> HIDE DEF l, s
    <3> QED
      BY <1>1, <2>2, <2>4, <3>1 DEF TypeOK, TasksOK, TaskOK
  <2>5. ASSUME s \notin DOMAIN AfterTaskCancel PROVE TasksOK'
    <3>1. task' = [task EXCEPT ![t] = Fresh("done")] /\ current' = NoJob
      BY <1>8, <2>5 DEF mark_after_task_cancel_read
    <3> QED
      BY <1>1, <2>3, <3>1 DEF TypeOK, TasksOK, TaskOK
  <2>6. TasksOK'
    BY <2>4, <2>5
  <2> QED
    BY <1>8, <2>6 DEF mark_after_task_cancel_read, TypeOK, TasksOK, TaskOK, KeepManager,
                      database, budgets
<1> QED BY <1>2, <1>3, <1>4, <1>5, <1>6, <1>7, <1>8

\* Steps that write the databases.
LEMMA WriteStepType ==
    ASSUME TypeOK, NEW t \in Tasks,
           \/ begin_analysis(t) \/ pause_at_section_boundary(t)
           \/ submit_rule_graph(t) \/ record_trace_completed(t)
           \/ record_section(t) \/ mark_applied(t) \/ mark_failed(t)
           \/ mark_after_task_cancel_write(t) \/ DbError(t)
    PROVE  TypeOK'
<1>1. /\ \A u \in Tasks : TaskOK(task[u])
      /\ task[t] \in TaskStates
      /\ task[t].pc \in TryPcs \cup HandlerPcs => task[t].job \in Jobs
      /\ \A j \in Jobs : job[j] \in Rows
  BY DEF TypeOK, TaskOK
<1>2. CASE begin_analysis(t)
  <2>1. task[t].pc = "begin" /\ task[t].job \in Jobs
    BY <1>1, <1>2 DEF begin_analysis, TryPcs
  <2>2. TasksOK'
    BY <1>2, <2>1, GotoStep, QuitStep DEF begin_analysis, TryPcs, TaskPcs, SectionPcs
  <2>3. job' \in [Jobs -> Rows]
    <3>1. Begun(job[task[t].job]) \in Rows
      BY <1>1, <2>1, BegunType
    <3> QED BY <1>2, <2>1, <3>1 DEF begin_analysis, TypeOK
  <2> QED
    BY <1>2, <2>2, <2>3 DEF begin_analysis, TypeOK, TasksOK, TaskOK, KeepManager, budgets
<1>3. CASE pause_at_section_boundary(t)
  <2>1. task[t].pc = "gate" /\ task[t].job \in Jobs
    BY <1>1, <1>3 DEF pause_at_section_boundary, TryPcs
  <2>2. ASSUME Remaining(task[t].sec)
        PROVE  TaskOK(Session(task[t], task[t].sec + 1, 1))
    <3>1. /\ task[t].sec + 1 \in Sections /\ task[t].sec + 1 \in 0 .. NumSections
          /\ 1 \in 0 .. MaxAttempts
      BY <1>1, <2>2, ConstantsAssumption DEF TaskStates, Sections, Remaining
    <3> QED
      BY <1>1, <2>1, <3>1 DEF Session, TaskOK, TaskStates, TaskPcs, TryPcs, SectionPcs
  <2>3. TasksOK'
    BY <1>3, <2>1, <2>2, ResumeType, GotoStep, QuitStep
       DEF pause_at_section_boundary, TasksOK, TryPcs, TaskPcs, SectionPcs
  <2>4. job' \in [Jobs -> Rows]
    BY <1>3, <2>1, SetStatusType
       DEF pause_at_section_boundary, TypeOK, Statuses, UNFINISHED
  <2> QED
    BY <1>3, <2>3, <2>4
       DEF pause_at_section_boundary, TypeOK, TasksOK, TaskOK, KeepManager, budgets
<1>4. CASE submit_rule_graph(t)
  <2>1. task[t].job \in Jobs /\ task[t].sec \in Sections
    BY <1>4 DEF submit_rule_graph, TypeOK, TryPcs, SectionPcs
  <2>2. TaskOK([task[t] EXCEPT !.submitted = TRUE])
    BY <1>1 DEF TaskOK, TaskStates
  <2>3. TasksOK'
    BY <1>4, <2>2, ResumeType DEF submit_rule_graph, TasksOK
  <2> QED
    BY <1>4, <2>1, <2>3
       DEF submit_rule_graph, TypeOK, TasksOK, TaskOK, KeepManager, database, budgets
<1>5. CASE record_trace_completed(t)
  <2>1. task[t].pc = "trace_ok" /\ task[t].job \in Jobs /\ task[t].sec \in Sections
    BY <1>5 DEF record_trace_completed, TypeOK, TryPcs, SectionPcs
  <2>2. TasksOK'
    BY <1>5, <2>1, GotoStep, QuitStep DEF record_trace_completed, TryPcs, TaskPcs
  <2>3. traced' \in [Jobs -> SUBSET Sections]
    BY <1>5, <2>1 DEF record_trace_completed, TypeOK
  <2> QED
    BY <1>5, <2>2, <2>3
       DEF record_trace_completed, TypeOK, TasksOK, TaskOK, KeepManager, budgets
<1>6. CASE record_section(t)
  <2>1. task[t].pc = "record" /\ task[t].job \in Jobs /\ task[t].sec \in 0 .. NumSections
    BY <1>1, <1>6 DEF record_section, TryPcs, TaskStates
  <2>2. TasksOK'
    BY <1>6, <2>1, GotoStep DEF record_section, TryPcs, TaskPcs, SectionPcs
  <2>3. job' \in [Jobs -> Rows]
    <3>1. Recorded(job[task[t].job], task[t].sec) \in Rows
      BY <1>1, <2>1, RecordedType
    <3> QED BY <1>6, <2>1, <3>1 DEF record_section, TypeOK
  <2> QED
    BY <1>6, <2>2, <2>3 DEF record_section, TypeOK, TasksOK, TaskOK, KeepManager, budgets
<1>7. CASE mark_applied(t)
  <2>1. task[t].pc = "finish" /\ task[t].job \in Jobs
    BY <1>1, <1>7 DEF mark_applied, TryPcs
  <2>2. TasksOK'
    BY <1>7, <2>1, QuitStep DEF mark_applied, TryPcs
  <2>3. job' \in [Jobs -> Rows]
    BY <1>7, <2>1, SetStatusType DEF mark_applied, TypeOK, Statuses, UNFINISHED
  <2> QED
    BY <1>7, <2>2, <2>3 DEF mark_applied, TypeOK, TasksOK, TaskOK, KeepManager, budgets
<1>8. CASE mark_failed(t)
  <2>1. task[t].pc \in HandlerPcs /\ task[t].job \in Jobs
    BY <1>1, <1>8 DEF mark_failed, HandlerPcs
  <2>2. TasksOK'
    BY <1>8, <2>1, QuitStep DEF mark_failed
  <2>3. job' \in [Jobs -> Rows]
    BY <1>8, <2>1, SetStatusType DEF mark_failed, TypeOK, Statuses
  <2> QED
    BY <1>8, <2>2, <2>3 DEF mark_failed, TypeOK, TasksOK, TaskOK, KeepManager, budgets
<1>9. CASE mark_after_task_cancel_write(t)
  <2>1. /\ task[t].pc = "requeue" /\ task[t].job \in Jobs
        /\ task[t].seen \in DOMAIN AfterTaskCancel
    BY <1>1, <1>9 DEF mark_after_task_cancel_write, HandlerPcs, TaskOK
  <2>2. AfterTaskCancel[task[t].seen] \in Statuses
    BY <2>1 DEF AfterTaskCancel, Statuses, UNFINISHED
  <2>3. TaskOK(Fresh("done"))
    BY FreshType DEF TaskOK, DeadPcs, TryPcs, HandlerPcs, SectionPcs
  <2>4. TasksOK'
    <3>1. CASE Exists(task[t].job)
      BY <1>1, <1>9, <2>3, <3>1 DEF mark_after_task_cancel_write, TypeOK, TasksOK, TaskOK
    <3>2. CASE ~Exists(task[t].job)
      BY <1>9, <2>1, <3>2, QuitStep DEF mark_after_task_cancel_write, HandlerPcs
    <3> QED BY <3>1, <3>2
  <2>5. job' \in [Jobs -> Rows]
    BY <1>9, <2>1, <2>2, SetStatusType DEF mark_after_task_cancel_write, TypeOK
  <2> QED
    BY <1>9, <2>4, <2>5
       DEF mark_after_task_cancel_write, TypeOK, TasksOK, TaskOK, KeepManager, budgets
<1>10. CASE DbError(t)
  <2>1. task[t].job \in Jobs
    BY <1>1, <1>10 DEF DbError, DbPcs
  <2> DEFINE pc == OnError(task[t].pc)
  <2>2. pc \in {"failing", "loop_failing", "broken"}
    BY DEF OnError
  <2>3. TaskOK(At(pc, task[t].job))
    <3> HIDE DEF pc
    <3>1. /\ At(pc, task[t].job) \in TaskStates
          /\ At(pc, task[t].job).pc = pc /\ At(pc, task[t].job).job = task[t].job
      BY <2>1, <2>2, AtType DEF TaskPcs, HandlerPcs, DeadPcs
    <3> QED BY <2>1, <2>2, <3>1 DEF TaskOK, SectionPcs
  <2>4. task' = [task EXCEPT ![t] = At(pc, task[t].job)] /\ current' \in {current, NoJob}
    BY <1>10 DEF DbError, TypeOK
  <2>5. TasksOK'
    <3> HIDE DEF pc
    <3> QED BY <1>1, <2>3, <2>4 DEF TypeOK, TasksOK, TaskOK
  <2>6. dbErrors' \in 0 .. MaxDbErrors
    BY <1>10, ConstantsAssumption DEF DbError, TypeOK
  <2> QED
    BY <1>10, <2>5, <2>6 DEF DbError, TypeOK, TasksOK, TaskOK, database
<1> QED BY <1>2, <1>3, <1>4, <1>5, <1>6, <1>7, <1>8, <1>9, <1>10

-----------------------------------------------------------------------------
(* The steps of the routes *)

\* A handler's next locals keep the handlers' type.
RequestOK(l) ==
    /\ l \in RequestStates
    /\ l.pc \notin {"idle", "create"} => l.job \in Jobs
    /\ l.pc = "create" => l.doc \in Docs
    /\ l.pc = "await" => l.task \in Tasks

RequestsOK ==
    /\ req \in [Requests -> RequestStates]
    /\ \A r \in Requests : RequestOK(req[r])

LEMMA RequestStepOK ==
    ASSUME TypeOK, NEW r \in Requests, NEW l, RequestOK(l), req' = [req EXCEPT ![r] = l]
    PROVE  RequestsOK'
BY DEF TypeOK, RequestsOK, RequestOK

LEMMA ReplyOK ==
    ASSUME TypeOK, NEW r \in Requests, Reply(r)
    PROVE  RequestsOK'
<1>1. RequestOK(Idle)
  BY DEF Idle, RequestOK, RequestStates, RequestPcs
<1> QED BY <1>1, RequestStepOK DEF Reply

LEMMA NewRequestType ==
    ASSUME TypeOK, NEW r \in Requests, NewRequest(r)
    PROVE  TypeOK'
<1>1. req[r] \in RequestStates
  BY DEF TypeOK
<1>2. ASSUME NEW d \in Docs, start_job_check(r, d) PROVE TypeOK'
  <2>1. RequestOK([req[r] EXCEPT !.pc = "create", !.doc = d])
    BY <1>1 DEF RequestOK, RequestStates, RequestPcs
  <2>2. req' = [req EXCEPT ![r] = [req[r] EXCEPT !.pc = "create", !.doc = d]]
    BY <1>2 DEF start_job_check
  <2>3. RequestsOK'
    BY <2>1, <2>2, RequestStepOK
  <2> QED
    BY <1>2, <2>3 DEF start_job_check, RequestsOK, RequestOK, TypeOK, KeepWorker,
                      manager, database, budgets
<1>3. ASSUME NEW j \in Jobs, pause_job(r, j) PROVE TypeOK'
  <2>1. job' \in [Jobs -> Rows]
    BY <1>3, SetStatusType DEF pause_job, Statuses, UNFINISHED
  <2> QED
    BY <1>3, <2>1 DEF pause_job, TypeOK, KeepWorker, manager, budgets
<1>4. ASSUME NEW j \in Jobs, NEW pc \in {"enqueue", "retry", "signal"},
             req' = [req EXCEPT ![r].pc = pc, ![r].job = j]
      PROVE  RequestsOK'
  <2>1. RequestOK([req[r] EXCEPT !.pc = pc, !.job = j])
    BY <1>1 DEF RequestOK, RequestStates, RequestPcs
  <2>2. req' = [req EXCEPT ![r] = [req[r] EXCEPT !.pc = pc, !.job = j]]
    BY <1>4
  <2> QED BY <2>1, <2>2, RequestStepOK
<1>5. ASSUME NEW j \in Jobs, resume_job(r, j) PROVE TypeOK'
  <2>1. job' \in [Jobs -> Rows] /\ RequestsOK'
    BY <1>4, <1>5, SetStatusType DEF resume_job, Statuses, UNFINISHED
  <2> QED
    BY <1>5, <2>1 DEF resume_job, RequestsOK, RequestOK, TypeOK, KeepWorker, manager, budgets
<1>6. ASSUME NEW j \in Jobs, retry_job_check(r, j) PROVE TypeOK'
  <2>1. RequestsOK'
    BY <1>4, <1>6 DEF retry_job_check
  <2> QED
    BY <1>6, <2>1 DEF retry_job_check, RequestsOK, RequestOK, TypeOK, KeepWorker,
                      manager, database, budgets
<1>7. ASSUME NEW j \in Jobs, cancel_job(r, j) PROVE TypeOK'
  <2>1. job' \in [Jobs -> Rows] /\ RequestsOK'
    BY <1>4, <1>7, SetStatusType DEF cancel_job, Statuses, UNFINISHED
  <2> QED
    BY <1>7, <2>1 DEF cancel_job, RequestsOK, RequestOK, TypeOK, KeepWorker, manager, budgets
<1> QED BY <1>2, <1>3, <1>5, <1>6, <1>7 DEF NewRequest

LEMMA RequestStepType ==
    ASSUME TypeOK, NEW r \in Requests, RequestStep(r) \/ AuditError(r)
    PROVE  TypeOK'
<1>1. /\ req[r] \in RequestStates
      /\ req[r].pc \notin {"idle", "create"} => req[r].job \in Jobs
      /\ req[r].pc = "await" => req[r].task \in Tasks
  BY DEF TypeOK
<1>2. CASE start_job_create(r)
  <2>1. CASE req[r].doc \in docs /\ created < MaxJobs
    <3>1. created + 1 \in Jobs /\ created + 1 \in 0 .. MaxJobs
      BY <2>1, ConstantsAssumption DEF TypeOK, Jobs
    <3>2. Row(req[r].doc, "queued") \in Rows
      BY <1>1, ConstantsAssumption DEF Row, Rows, RequestStates, Statuses, UNFINISHED
    <3>3. RequestOK([Idle EXCEPT !.pc = "enqueue", !.job = created + 1])
      BY <3>1 DEF RequestOK, Idle, RequestStates, RequestPcs
    <3>4. RequestsOK'
      BY <1>2, <2>1, <3>3, RequestStepOK DEF start_job_create
    <3>5. job' \in [Jobs -> Rows] /\ created' \in 0 .. MaxJobs
      BY <1>2, <2>1, <3>1, <3>2 DEF start_job_create, TypeOK
    <3> QED
      BY <1>2, <3>4, <3>5 DEF start_job_create, RequestsOK, RequestOK, TypeOK, KeepWorker,
                              manager, budgets
  <2>2. CASE ~(req[r].doc \in docs /\ created < MaxJobs)
    <3>1. RequestsOK'
      BY <1>2, <2>2, ReplyOK DEF start_job_create
    <3> QED
      BY <1>2, <2>2, <3>1 DEF start_job_create, RequestsOK, RequestOK, TypeOK, KeepWorker,
                              manager, budgets
  <2> QED BY <2>1, <2>2
<1>3. CASE audit_and_enqueue(r)
  <2>1. req[r].job \in Jobs /\ enqueue(req[r].job)
    BY <1>1, <1>3 DEF audit_and_enqueue
  <2>2. queued' \subseteq Jobs /\ queue' \in Seq(Jobs)
    <3>1. queue \in Seq(Jobs) /\ queued \subseteq Jobs
      BY DEF TypeOK
    <3>2. Append(queue, req[r].job) \in Seq(Jobs)
      BY <2>1, <3>1, AppendProperties
    <3> QED BY <2>1, <3>1, <3>2 DEF enqueue
  <2>3. /\ task' \in [Tasks -> TaskStates]
        /\ \A u \in Tasks : TaskOK(task'[u])
        /\ workerTask' \in Tasks \cup {NoTask}
    BY <2>1, EnsureWorkerType DEF enqueue, TypeOK
  <2>4. RequestsOK'
    BY <1>3, ReplyOK DEF audit_and_enqueue
  <2> QED
    BY <1>3, <2>1, <2>2, <2>3, <2>4
       DEF audit_and_enqueue, enqueue, RequestsOK, RequestOK, TypeOK, TaskOK, database, budgets
<1>4. CASE AuditError(r)
  <2>1. RequestsOK' /\ dbErrors' \in 0 .. MaxDbErrors
    BY <1>4, ReplyOK, ConstantsAssumption DEF AuditError, TypeOK
  <2> QED
    BY <1>4, <2>1 DEF AuditError, RequestsOK, RequestOK, TypeOK, KeepWorker, manager, database
<1>11. CASE RowGone(r)
  <2>1. RequestsOK'
    BY <1>11, ReplyOK DEF RowGone
  <2> QED
    BY <1>11, <2>1 DEF RowGone, RequestsOK, RequestOK, TypeOK, KeepWorker, manager, database,
                       budgets
<1>5. ASSUME NEW pc \in {"enqueue", "refresh", "settle"}, req[r].pc \notin {"idle", "create"},
             req' = [req EXCEPT ![r].pc = pc]
      PROVE  RequestsOK'
  <2>1. RequestOK([req[r] EXCEPT !.pc = pc])
    BY <1>1, <1>5 DEF RequestOK, RequestStates, RequestPcs
  <2>2. req' = [req EXCEPT ![r] = [req[r] EXCEPT !.pc = pc]]
    BY <1>5
  <2> QED BY <2>1, <2>2, RequestStepOK
<1>6. CASE retry_job_commit(r)
  <2>1. RequestsOK'
    BY <1>5, <1>6 DEF retry_job_commit
  <2>2. job' \in [Jobs -> Rows]
    BY <1>1, <1>6, SetStatusType DEF retry_job_commit, Statuses, UNFINISHED
  <2> QED
    BY <1>6, <2>1, <2>2 DEF retry_job_commit, RequestsOK, RequestOK, TypeOK, KeepWorker,
                            manager, budgets
<1>7. CASE manager_cancel(r)
  <2>1. CASE \/ current # req[r].job \/ workerTask = NoTask
             \/ task[workerTask].pc \in DeadPcs
    <3>1. RequestsOK' /\ task' = task
      BY <1>5, <1>7, <2>1 DEF manager_cancel
    <3> QED
      BY <1>7, <3>1 DEF manager_cancel, RequestsOK, RequestOK, TypeOK, manager, database, budgets
  <2>2. CASE ~(\/ current # req[r].job \/ workerTask = NoTask
               \/ task[workerTask].pc \in DeadPcs)
    <3>1. workerTask \in Tasks /\ req[r].job \in Jobs
      BY <1>1, <1>7, <2>2 DEF manager_cancel, TypeOK
    <3>2. RequestOK([req[r] EXCEPT !.pc = "await", !.task = workerTask])
      BY <1>1, <3>1 DEF RequestOK, RequestStates, RequestPcs
    <3>3. req' = [req EXCEPT ![r] = [req[r] EXCEPT !.pc = "await", !.task = workerTask]]
      BY <1>7, <2>2 DEF manager_cancel
    <3>4. RequestsOK'
      BY <3>2, <3>3, RequestStepOK
    <3>5. task' \in [Tasks -> TaskStates] /\ \A u \in Tasks : TaskOK(task'[u])
      BY <1>7, <2>2, <3>1, CancelFlagType DEF manager_cancel
    <3> QED
      BY <1>7, <3>4, <3>5 DEF manager_cancel, RequestsOK, RequestOK, TypeOK, TaskOK, manager,
                              database, budgets
  <2> QED BY <2>1, <2>2
<1>8. CASE manager_cancelled(r)
  <2>1. CASE task[req[r].task].pc = "broken"
    <3>1. RequestsOK'
      BY <1>8, <2>1, ReplyOK DEF manager_cancelled
    <3> QED
      BY <1>8, <2>1, <3>1 DEF manager_cancelled, RequestsOK, RequestOK, TypeOK, database, budgets
  <2>2. CASE task[req[r].task].pc # "broken"
    <3>1. RequestOK([req[r] EXCEPT !.pc = "refresh", !.task = NoTask])
      BY <1>1, <1>8 DEF manager_cancelled, RequestOK, RequestStates, RequestPcs
    <3>2. req' = [req EXCEPT ![r] = [req[r] EXCEPT !.pc = "refresh", !.task = NoTask]]
      BY <1>8, <2>2 DEF manager_cancelled
    <3>3. RequestsOK'
      BY <3>1, <3>2, RequestStepOK
    <3>4. /\ task' \in [Tasks -> TaskStates]
          /\ \A u \in Tasks : TaskOK(task'[u])
          /\ workerTask' \in Tasks \cup {NoTask}
      BY <1>8, <2>2, EnsureWorkerType DEF manager_cancelled, KeptWorker, TypeOK
    <3> QED
      BY <1>8, <3>3, <3>4 DEF manager_cancelled, RequestsOK, RequestOK, TypeOK, TaskOK,
                              database, budgets
  <2> QED BY <2>1, <2>2
<1>9. CASE cancel_job_refresh(r)
  <2>1. RequestsOK'
    BY <1>5, <1>9, ReplyOK DEF cancel_job_refresh
  <2> QED
    BY <1>9, <2>1 DEF cancel_job_refresh, RequestsOK, RequestOK, TypeOK, KeepWorker, manager,
                      database, budgets
<1>10. CASE cancel_job_settle(r)
  <2>1. RequestsOK'
    BY <1>10, ReplyOK DEF cancel_job_settle
  <2>2. job' \in [Jobs -> Rows]
    BY <1>1, <1>10, SetStatusType DEF cancel_job_settle, TypeOK, Statuses
  <2> QED
    BY <1>10, <2>1, <2>2 DEF cancel_job_settle, RequestsOK, RequestOK, TypeOK, KeepWorker,
                             manager, budgets
<1> QED BY <1>2, <1>3, <1>4, <1>6, <1>7, <1>8, <1>9, <1>10, <1>11 DEF RequestStep

LEMMA DeleteType ==
    ASSUME TypeOK, NEW d \in Docs, delete_document(d)
    PROVE  TypeOK'
<1>1. Row(NoDoc, "absent") \in Rows
  BY ConstantsAssumption DEF Row, Rows, Statuses
<1>2. job' \in [Jobs -> Rows] /\ traced' \in [Jobs -> SUBSET Sections]
  BY <1>1 DEF delete_document, TypeOK
<1> QED
  BY <1>2 DEF delete_document, TypeOK, KeepWorker, manager, budgets

-----------------------------------------------------------------------------

LEMMA NextType == TypeOK /\ [Next]_vars => TypeOK'
<1> SUFFICES ASSUME TypeOK, [Next]_vars PROVE TypeOK'
  OBVIOUS
<1>1. ASSUME NEW t \in Tasks, TaskStep(t) \/ DbError(t) PROVE TypeOK'
  BY <1>1, ReadStepType, WriteStepType DEF TaskStep
<1>2. CASE UNCHANGED vars
  BY <1>2 DEF vars, TypeOK
<1> QED
  BY <1>1, <1>2, StartType, ProcessType, RequestStepType, NewRequestType, DeleteType
     DEF Next

\* Every variable keeps its type, every task that executes a job has one, and
\* every handler past its first step knows its job, whatever the interleaving
\* of the worker, the routes, crashes and database errors.
THEOREM TypeCorrect == Spec => []TypeOK
BY InitType, NextType, PTL DEF Spec

-----------------------------------------------------------------------------
(* The queue and the set of queued jobs *)

Agree(q, s) == /\ s = {q[i] : i \in DOMAIN q}
               /\ \A i, k \in DOMAIN q : q[i] = q[k] => i = k

LEMMA AppendAgrees ==
    ASSUME NEW q \in Seq(Jobs), NEW s, NEW j \in Jobs, Agree(q, s), j \notin s
    PROVE  Agree(Append(q, j), s \cup {j})
<1>1. /\ Len(q) \in Nat /\ DOMAIN q = 1 .. Len(q)
      /\ DOMAIN Append(q, j) = 1 .. Len(q) + 1
      /\ \A i \in 1 .. Len(q) : Append(q, j)[i] = q[i]
      /\ Append(q, j)[Len(q) + 1] = j
  BY AppendProperties
<1>2. 1 .. Len(q) + 1 = (1 .. Len(q)) \cup {Len(q) + 1}
  BY <1>1
<1>3. {Append(q, j)[i] : i \in DOMAIN Append(q, j)} = s \cup {j}
  BY <1>1, <1>2 DEF Agree
<1>4. \A i, k \in DOMAIN Append(q, j) : Append(q, j)[i] = Append(q, j)[k] => i = k
  BY <1>1, <1>2 DEF Agree
<1> QED BY <1>3, <1>4 DEF Agree

LEMMA TailAgrees ==
    ASSUME NEW q \in Seq(Jobs), NEW s, Agree(q, s), q # <<>>
    PROVE  Agree(Tail(q), s \ {Head(q)})
<1>1. /\ Len(q) \in Nat \ {0} /\ DOMAIN q = 1 .. Len(q) /\ Head(q) = q[1]
      /\ DOMAIN Tail(q) = 1 .. (Len(q) - 1)
      /\ \A i \in 1 .. (Len(q) - 1) : Tail(q)[i] = q[i + 1]
  BY HeadTailProperties, EmptySeq
<1>2. \A i, k \in DOMAIN Tail(q) : Tail(q)[i] = Tail(q)[k] => i = k
  BY <1>1 DEF Agree
<1>3. \A x \in {Tail(q)[i] : i \in DOMAIN Tail(q)} : x \in s /\ x # Head(q)
  BY <1>1 DEF Agree
<1>4. ASSUME NEW x \in s, x # Head(q) PROVE x \in {Tail(q)[i] : i \in DOMAIN Tail(q)}
  <2>1. PICK i \in 1 .. Len(q) : x = q[i]
    BY <1>1 DEF Agree
  <2>2. i - 1 \in 1 .. (Len(q) - 1) /\ Tail(q)[i - 1] = q[i]
    BY <1>1, <1>4, <2>1
  <2> QED BY <1>1, <2>1, <2>2
<1>5. {Tail(q)[i] : i \in DOMAIN Tail(q)} = s \ {Head(q)}
  BY <1>3, <1>4
<1> QED BY <1>2, <1>5 DEF Agree

LEMMA QueueStep == TypeOK /\ QueueAgrees /\ [Next]_vars => QueueAgrees'
<1> SUFFICES ASSUME TypeOK, Agree(queue, queued), [Next]_vars
             PROVE  Agree(queue', queued')
  BY DEF QueueAgrees, Agree
<1>1. ASSUME UNCHANGED <<queue, queued>> PROVE Agree(queue', queued')
  BY <1>1 DEF Agree
<1>2. CASE start
  <2>1. PICK n \in 0 .. MaxJobs : queue' \in [1 .. n -> queued']
    BY <1>2 DEF start, InCreationOrder
  <2>2. /\ \A a, b \in DOMAIN queue' : a < b => queue'[a] < queue'[b]
        /\ \A j \in queued' : \E a \in DOMAIN queue' : queue'[a] = j
        /\ queued' \subseteq Jobs /\ DOMAIN queue' = 1 .. n
    BY <1>2, <2>1 DEF start, InCreationOrder
  <2>3. queued' = {queue'[i] : i \in DOMAIN queue'}
    BY <2>1, <2>2
  <2>4. \A i \in DOMAIN queue' : queue'[i] \in Nat /\ i \in Nat
    <3>1. Jobs \subseteq Nat /\ 1 .. n \subseteq Nat
      BY ConstantsAssumption DEF Jobs
    <3>2. \A i \in 1 .. n : queue'[i] \in queued'
      BY <2>1
    <3> QED BY <2>2, <3>1, <3>2
  <2>5. \A i, k \in DOMAIN queue' : queue'[i] = queue'[k] => i = k
    BY <2>2, <2>4
  <2> QED BY <2>3, <2>5 DEF Agree
<1>3. CASE stopped \/ Crash
  BY <1>3 DEF stopped, Crash, ForgetMemory, Agree
<1>4. ASSUME NEW t \in Tasks, worker_loop_get(t) \/ worker_loop_finally(t)
      PROVE  Agree(queue', queued')
  <2>1. NextJob(t)
    BY <1>4 DEF worker_loop_get, worker_loop_finally
  <2>2. queue \in Seq(Jobs)
    BY DEF TypeOK
  <2> QED
    BY <1>1, <2>1, <2>2, TailAgrees DEF NextJob
<1>5. ASSUME NEW r \in Requests, audit_and_enqueue(r) PROVE Agree(queue', queued')
  <2>1. enqueue(req[r].job) /\ req[r].job \in Jobs /\ queue \in Seq(Jobs)
    BY <1>5 DEF audit_and_enqueue, TypeOK
  <2> QED
    BY <1>1, <2>1, AppendAgrees, ZenonT(40) DEF enqueue
<1>6. ASSUME NEW t \in Tasks, TaskStep(t) \/ DbError(t) PROVE Agree(queue', queued')
  BY <1>1, <1>4, <1>6, ZenonT(30)
     DEF TaskStep, DbError, KeepManager, Interrupt, load_job_inputs, job_snapshot,
         begin_analysis, pause_at_section_boundary, submit_rule_graph,
         extract_graph_section, record_trace_completed, record_trace_failed,
         record_section, mark_applied, mark_failed, mark_after_task_cancel_read,
         mark_after_task_cancel_write
<1>7. ASSUME NEW r \in Requests, RequestStep(r) \/ AuditError(r) PROVE Agree(queue', queued')
  BY <1>1, <1>5, <1>7
     DEF RequestStep, AuditError, RowGone, KeepWorker, manager, start_job_create,
         retry_job_commit, manager_cancel, manager_cancelled, cancel_job_refresh,
         cancel_job_settle
<1>8. ASSUME NEW r \in Requests, NewRequest(r) PROVE Agree(queue', queued')
  BY <1>1, <1>8
     DEF NewRequest, KeepWorker, manager, start_job_check, pause_job, resume_job,
         retry_job_check, cancel_job
<1>9. CASE stop \/ (\E d \in Docs : delete_document(d)) \/ UNCHANGED vars
  BY <1>1, <1>9 DEF stop, delete_document, KeepWorker, manager, vars
<1> QED BY <1>2, <1>3, <1>6, <1>7, <1>8, <1>9 DEF Next

\* The queue and the set that guards it never drift apart: no job is queued
\* twice, and one that is not in _queued can always be queued.
THEOREM QueueCorrect == Spec => []QueueAgrees
<1>1. Init => QueueAgrees
  BY DEF Init, QueueAgrees
<1> QED
  BY <1>1, QueueStep, TypeCorrect, PTL DEF Spec

-----------------------------------------------------------------------------
(* Recorded progress is written progress, and an applied job is complete:   *)
(* the inductive invariant ProgressInv.  Then WorkerInv and CountInv: there  *)
(* is one worker, and it counts every section once and in order.            *)

\* What WorkerIsAheadOfRecord says of one task with the locals l, when the job
\* rows are jb, the graph is g and the traces are tr.
Claim(l, jb, g, tr) ==
    /\ l.submitted => l.pc = "extract"
    /\ l.job \in Jobs => /\ l.submitted => l.sec \in g[l.job]
                         /\ l.pc = "trace_ok" => l.sec \in g[l.job]
    /\ l.job \in Jobs /\ jb[l.job].status # "absent" =>
          /\ l.pc \in {"begin", "gate"} => 1 .. l.sec \subseteq g[l.job] \cap tr[l.job]
          /\ l.pc \in SectionPcs => 1 .. (l.sec - 1) \subseteq g[l.job] \cap tr[l.job]
          /\ l.pc = "record" => l.sec \in g[l.job] \cap tr[l.job]
          /\ l.pc = "finish" => Sections \subseteq g[l.job] \cap tr[l.job]

LEMMA ClaimsAre ==
    /\ WorkerIsAheadOfRecord <=> \A t \in Tasks : Claim(task[t], job, graph, traced)
    /\ WorkerIsAheadOfRecord' <=> \A t \in Tasks : Claim(task'[t], job', graph', traced')
BY DEF WorkerIsAheadOfRecord, Claim, Written, Exists

\* A claim stays true while the graph grows, the traces of the jobs that keep
\* their row grow, and no row comes back.
Grows(jb, g, tr, jb2, g2, tr2) ==
    \A j \in Jobs :
        /\ g[j] \subseteq g2[j]
        /\ jb2[j].status # "absent" => jb[j].status # "absent" /\ tr[j] \subseteq tr2[j]

LEMMA ClaimGrows ==
    ASSUME NEW l, NEW jb, NEW g, NEW tr, NEW jb2, NEW g2, NEW tr2,
           Grows(jb, g, tr, jb2, g2, tr2), Claim(l, jb, g, tr)
    PROVE  Claim(l, jb2, g2, tr2)
<1>1. CASE l.job \in Jobs
  BY <1>1 DEF Grows, Claim
<1>2. CASE l.job \notin Jobs
  BY <1>2 DEF Claim
<1> QED BY <1>1, <1>2

\* A task that executes no section claims nothing.
ClaimPcs == {"begin", "gate", "finish"} \cup SectionPcs

LEMMA QuietClaim ==
    ASSUME NEW l, l.submitted = FALSE, l.pc \notin ClaimPcs, NEW jb, NEW g, NEW tr
    PROVE  Claim(l, jb, g, tr)
BY DEF Claim, ClaimPcs, SectionPcs

LEMMA AtQuiet ==
    ASSUME NEW pc, NEW j
    PROVE  At(pc, j).submitted = FALSE /\ At(pc, j).pc = pc /\ At(pc, j).job = j
BY DEF At

LEMMA OnCancelQuiet ==
    ASSUME NEW l, NEW jb, NEW g, NEW tr
    PROVE  /\ Claim(OnCancel(l), jb, g, tr)
           /\ OnCancel(l).job \in {l.job, NoJob}
<1>1. Claim(At("interrupted", l.job), jb, g, tr) /\ Claim(Fresh("done"), jb, g, tr)
  BY DEF Claim, Fresh, At, SectionPcs
<1>2. OnCancel(l) \in {At("interrupted", l.job), Fresh("done")}
  BY DEF OnCancel
<1>3. At("interrupted", l.job).job = l.job /\ Fresh("done").job = NoJob
  BY DEF At, Fresh
<1> QED BY <1>1, <1>2, <1>3

-----------------------------------------------------------------------------
(* The invariant, part by part, for a step of one task *)

ClaimsHold == \A t \in Tasks : Claim(task[t], job, graph, traced)

LEMMA ResumeClaims ==
    ASSUME TypeOK, ClaimsHold, Grows(job, graph, traced, job', graph', traced'),
           NEW t \in Tasks, NEW l, Resume(t, l), Claim(l, job', graph', traced')
    PROVE  ClaimsHold'
<1>1. \A u \in Tasks : Claim(task[u], job', graph', traced')
  BY ClaimGrows DEF ClaimsHold
<1>2. Claim(OnCancel(task[t]), job', graph', traced')
  BY OnCancelQuiet
<1>3. \A u \in Tasks : task'[u] \in {task[u], OnCancel(task[t]), l}
                       /\ (u # t => task'[u] = task[u])
  BY DEF Resume, TypeOK
<1>4. \A u \in Tasks : Claim(task'[u], job', graph', traced')
  BY <1>1, <1>2, <1>3, Zenon DEF Resume, TypeOK
<1> QED BY <1>4 DEF ClaimsHold

\* A step that records nothing and applies nothing: offsets stay or are reset,
\* the graph grows, and no row comes or goes.
RowKept(j) ==
    /\ \/ job'[j].offset = 0
       \/ job'[j].offset = job[j].offset /\ traced[j] \subseteq traced'[j]
    /\ graph[j] \subseteq graph'[j]
    /\ job'[j].status = "applied" => job[j].status = "applied"
RowsKept == \A j \in Jobs : RowKept(j)
SameRows == \A j \in Jobs : job'[j].status = "absent" <=> job[j].status = "absent"
Quiet == RowsKept /\ SameRows /\ Grows(job, graph, traced, job', graph', traced')

LEMMA RowsKeptRecord ==
    ASSUME TypeOK, RecordedIsWritten, AppliedIsComplete, RowsKept
    PROVE  RecordedIsWritten' /\ AppliedIsComplete'
<1>1. \A j \in Jobs : 1 .. job'[j].offset \subseteq graph'[j] \cap traced'[j]
  BY DEF RecordedIsWritten, Written, RowsKept, RowKept
<1>2. \A j \in Jobs : job'[j].status = "applied" => Sections \subseteq graph'[j]
  BY DEF AppliedIsComplete, RowsKept, RowKept
<1> QED BY <1>1, <1>2 DEF RecordedIsWritten, AppliedIsComplete, Written

LEMMA GrowthQuiet ==
    ASSUME TypeOK, UNCHANGED job,
           \A j \in Jobs : graph[j] \subseteq graph'[j] /\ traced[j] \subseteq traced'[j]
    PROVE  Quiet
BY DEF Quiet, RowsKept, RowKept, SameRows, Grows

LEMMA SetStatusQuiet ==
    ASSUME TypeOK, NEW j \in Jobs, NEW s \in Statuses \ {"absent", "applied"}, Exists(j),
           SetStatus(j, s), UNCHANGED <<graph, traced>>
    PROVE  Quiet
<1>1. job' = [job EXCEPT ![j] = [job[j] EXCEPT !.status = s]]
  BY DEF SetStatus
<1>2. [job[j] EXCEPT !.status = s].status = s
      /\ [job[j] EXCEPT !.status = s].offset = job[j].offset
  BY DEF TypeOK, Rows
<1>3. \A i \in Jobs : /\ job'[i].offset = job[i].offset
                      /\ job'[i].status = IF i = j THEN s ELSE job[i].status
  BY <1>1, <1>2 DEF TypeOK
<1> QED
  BY <1>3 DEF Quiet, RowsKept, RowKept, SameRows, Grows, Exists

\* The three ways a step leads from ProgressInv to ProgressInv: a worker task
\* goes on, a handler goes on, or several tasks and handlers are reset.
LEMMA TaskKeeps ==
    ASSUME TypeOK, ProgressInv, Quiet, NEW t \in Tasks, NEW l, Resume(t, l),
           Claim(l, job', graph', traced'), l.job = task[t].job,
           UNCHANGED <<created, queue, req>>
    PROVE  ProgressInv'
<1>1. RecordedIsWritten' /\ AppliedIsComplete'
  BY RowsKeptRecord DEF Quiet, ProgressInv
<1>2. ClaimsHold
  BY ClaimsAre DEF ProgressInv, ClaimsHold
<1>3. WorkerIsAheadOfRecord'
  BY <1>2, ResumeClaims, ClaimsAre DEF Quiet, ClaimsHold
<1>4. \A u \in Tasks : task'[u].job \in {task[u].job, NoJob}
  <2>1. OnCancel(task[t]).job \in {task[t].job, NoJob}
    BY OnCancelQuiet
  <2> QED BY <2>1 DEF Resume, TypeOK
<1>5. ReferencesAreCreated'
  BY <1>4, SMTT(30) DEF Quiet, SameRows, ProgressInv, ReferencesAreCreated, Exists, TypeOK, NoJob
<1>6. RetryHasRow'
  BY DEF Quiet, SameRows, ProgressInv, RetryHasRow, Exists, TypeOK
<1> QED BY <1>1, <1>3, <1>5, <1>6 DEF ProgressInv

LEMMA RequestKeeps ==
    ASSUME TypeOK, ProgressInv, Quiet, NEW r \in Requests, NEW l,
           req' = [req EXCEPT ![r] = l], l.job <= created,
           l.pc = "retry" => l.job \in Jobs /\ Exists(l.job)',
           \A u \in Tasks : task'[u] = task[u]
                            \/ task'[u] = Fresh("get")
                            \/ task'[u] = [task[u] EXCEPT !.cancelling = TRUE],
           \A i \in DOMAIN queue' : queue'[i] <= created, UNCHANGED created
    PROVE  ProgressInv'
<1>1. RecordedIsWritten' /\ AppliedIsComplete'
  BY RowsKeptRecord DEF Quiet, ProgressInv
<1>2. WorkerIsAheadOfRecord'
  <2>1. \A u \in Tasks : Claim(task[u], job', graph', traced')
    BY ClaimGrows, ClaimsAre DEF Quiet, ProgressInv
  <2>2. Claim(Fresh("get"), job', graph', traced')
    BY DEF Claim, Fresh, At, SectionPcs
  <2>3. \A u \in Tasks : Claim([task[u] EXCEPT !.cancelling = TRUE], job', graph', traced')
    BY <2>1 DEF Claim, TypeOK, TaskStates
  <2> QED BY <2>1, <2>2, <2>3, ClaimsAre
<1>3. \A u \in Tasks : task'[u].job \in {task[u].job, NoJob}
  <2>1. Fresh("get").job = NoJob
    BY DEF Fresh, At
  <2>2. \A u \in Tasks : [task[u] EXCEPT !.cancelling = TRUE].job = task[u].job
    BY DEF TypeOK, TaskStates
  <2> QED BY <2>1, <2>2
<1>4. ReferencesAreCreated'
  BY <1>3, SMTT(30) DEF Quiet, SameRows, ProgressInv, ReferencesAreCreated, Exists, TypeOK, NoJob
<1>5. RetryHasRow'
  BY DEF Quiet, SameRows, ProgressInv, RetryHasRow, Exists, TypeOK
<1> QED BY <1>1, <1>2, <1>4, <1>5 DEF ProgressInv

-----------------------------------------------------------------------------
(* The steps of a worker task *)

\* At a quiet step to a place where nothing is claimed.
LEMMA QuitKeeps ==
    ASSUME TypeOK, ProgressInv, Quiet, NEW t \in Tasks,
           NEW pc \in {"leave", "left", "failing", "loop_failing"}, Quit(t, pc),
           UNCHANGED <<created, queue, req>>
    PROVE  ProgressInv'
<1>1. /\ Claim(At(pc, task[t].job), job', graph', traced')
      /\ At(pc, task[t].job).job = task[t].job
  BY DEF Claim, At, SectionPcs
<1> QED BY <1>1, TaskKeeps DEF Quit

\* What the invariant says of the task that takes the step.
LEMMA TaskClaim ==
    ASSUME ProgressInv, NEW t \in Tasks
    PROVE  Claim(task[t], job, graph, traced)
BY ClaimsAre DEF ProgressInv

LEMMA ReadStepProgress ==
    ASSUME TypeOK, ProgressInv, NEW t \in Tasks,
           \/ Interrupt(t) \/ worker_loop_get(t) \/ worker_loop_finally(t)
           \/ load_job_inputs(t) \/ job_snapshot(t)
           \/ extract_graph_section(t) \/ record_trace_failed(t)
           \/ mark_after_task_cancel_read(t) \/ DbError(t)
    PROVE  ProgressInv'
<1>1. Quiet /\ UNCHANGED <<created, req>>
  <2>1. UNCHANGED <<job, graph, traced, created, req>>
    BY DEF Interrupt, worker_loop_get, worker_loop_finally, load_job_inputs, job_snapshot,
           extract_graph_section, record_trace_failed, mark_after_task_cancel_read, DbError,
           KeepManager, database
  <2> QED BY <2>1, GrowthQuiet
<1>2. task[t] \in TaskStates /\ Claim(task[t], job, graph, traced)
  BY TaskClaim DEF TypeOK
<1>3. Claim(task[t], job', graph', traced')
  BY <1>1, <1>2, ClaimGrows DEF Quiet
<1>4. ASSUME NEW l, task' = [task EXCEPT ![t] = l], UNCHANGED queue,
             Claim(l, job', graph', traced'), l.job <= created
      PROVE  ProgressInv'
  <2>1. RecordedIsWritten' /\ AppliedIsComplete'
    BY <1>1, RowsKeptRecord DEF Quiet, ProgressInv
  <2>2. \A u \in Tasks : Claim(task[u], job', graph', traced')
    BY <1>1, ClaimGrows, ClaimsAre DEF Quiet, ProgressInv
  <2>3. WorkerIsAheadOfRecord'
    BY <1>4, <2>2, ClaimsAre DEF TypeOK
  <2>4. ReferencesAreCreated'
    BY <1>1, <1>4 DEF Quiet, SameRows, ProgressInv, ReferencesAreCreated, Exists, TypeOK
  <2>5. RetryHasRow'
    BY <1>1 DEF Quiet, SameRows, ProgressInv, RetryHasRow, Exists, TypeOK
  <2> QED BY <2>1, <2>3, <2>4, <2>5 DEF ProgressInv
<1>5. /\ task[t].job <= created /\ NoJob <= created
      /\ \A i \in DOMAIN queue : queue[i] <= created
  BY DEF ProgressInv, ReferencesAreCreated, TypeOK, NoJob
<1>6. CASE Interrupt(t)
  <2>1. /\ Claim(OnCancel(task[t]), job', graph', traced')
        /\ OnCancel(task[t]).job <= created
    BY <1>5, OnCancelQuiet
  <2> QED BY <1>4, <1>6, <2>1 DEF Interrupt, KeepManager
<1>7. CASE worker_loop_get(t) \/ worker_loop_finally(t)
  <2>1. NextJob(t)
    BY <1>7 DEF worker_loop_get, worker_loop_finally
  <2>2. CASE queue = <<>>
    <3>1. Claim(Fresh("get"), job', graph', traced') /\ Fresh("get").job <= created
      BY <1>5 DEF Claim, Fresh, At, SectionPcs
    <3> QED BY <1>4, <2>1, <2>2, <3>1 DEF NextJob
  <2>3. CASE queue # <<>>
    <3>1. /\ Head(queue) <= created
          /\ \A i \in DOMAIN Tail(queue) : Tail(queue)[i] <= created
      <4>1. /\ Len(queue) \in Nat \ {0} /\ DOMAIN queue = 1 .. Len(queue)
            /\ Head(queue) = queue[1]
            /\ DOMAIN Tail(queue) = 1 .. (Len(queue) - 1)
            /\ \A i \in 1 .. (Len(queue) - 1) : Tail(queue)[i] = queue[i + 1]
        BY <2>3, HeadTailProperties, EmptySeq DEF TypeOK
      <4> QED BY <1>5, <4>1
    <3>2. /\ Claim(At("load", Head(queue)), job', graph', traced')
          /\ At("load", Head(queue)).job = Head(queue)
      BY DEF Claim, At, SectionPcs
    <3>3. task' = [task EXCEPT ![t] = At("load", Head(queue))] /\ queue' = Tail(queue)
      BY <2>1, <2>3 DEF NextJob
    <3>4. RecordedIsWritten' /\ AppliedIsComplete'
      BY <1>1, RowsKeptRecord DEF Quiet, ProgressInv
    <3>5. WorkerIsAheadOfRecord'
      <4>1. \A u \in Tasks : Claim(task[u], job', graph', traced')
        BY <1>1, ClaimGrows, ClaimsAre DEF Quiet, ProgressInv
      <4> QED BY <3>2, <3>3, <4>1, ClaimsAre DEF TypeOK
    <3>6. ReferencesAreCreated'
      BY <1>1, <3>1, <3>2, <3>3
         DEF Quiet, SameRows, ProgressInv, ReferencesAreCreated, Exists, TypeOK
    <3>7. RetryHasRow'
      BY <1>1 DEF Quiet, SameRows, ProgressInv, RetryHasRow, Exists, TypeOK
    <3> QED BY <3>4, <3>5, <3>6, <3>7 DEF ProgressInv
  <2> QED BY <2>2, <2>3
<1>8. CASE load_job_inputs(t)
  <2>1. task[t].pc = "load" /\ task[t].submitted = FALSE /\ UNCHANGED queue
    BY <1>2, <1>8 DEF load_job_inputs, KeepManager, Claim, TaskStates
  <2>2. /\ Claim([task[t] EXCEPT !.pc = "snapshot"], job', graph', traced')
        /\ [task[t] EXCEPT !.pc = "snapshot"].job = task[t].job
    BY <1>2, <2>1 DEF Claim, TaskStates, SectionPcs
  <2>3. Goto(t, "snapshot") => ProgressInv'
    BY <1>1, <2>1, <2>2, TaskKeeps DEF Goto
  <2> QED BY <1>1, <1>8, <2>1, <2>3, QuitKeeps DEF load_job_inputs
<1>9. CASE job_snapshot(t)
  <2>1. /\ task[t].pc = "snapshot" /\ task[t].submitted = FALSE /\ UNCHANGED queue
        /\ task[t].job \in Jobs
    BY <1>2, <1>9 DEF job_snapshot, KeepManager, Claim, TaskStates, TypeOK, TryPcs
  <2> DEFINE l == [task[t] EXCEPT !.pc = "begin", !.sec = job[task[t].job].offset]
  <2>2. /\ l.job = task[t].job /\ l.pc = "begin" /\ l.submitted = FALSE
        /\ l.sec = job[task[t].job].offset
    BY <1>2, <2>1 DEF TaskStates
  <2>3. 1 .. job[task[t].job].offset \subseteq graph[task[t].job] \cap traced[task[t].job]
    BY <2>1 DEF ProgressInv, RecordedIsWritten, Written
  <2>4. Claim(l, job, graph, traced)
    <3> HIDE DEF l
    <3> QED BY <2>2, <2>3 DEF Claim, SectionPcs
  <2>5. Claim(l, job', graph', traced')
    <3> HIDE DEF l
    <3> QED BY <1>1, <2>4, ClaimGrows DEF Quiet
  <2>6. Resume(t, l) => ProgressInv'
    <3> HIDE DEF l
    <3> QED BY <1>1, <2>1, <2>2, <2>5, TaskKeeps
  <2> QED BY <1>1, <1>9, <2>1, <2>6, QuitKeeps DEF job_snapshot
<1>10. CASE extract_graph_section(t)
  <2>1. task[t].pc = "extract" /\ UNCHANGED queue
    BY <1>10 DEF extract_graph_section, KeepManager
  <2>2. /\ Claim([task[t] EXCEPT !.pc = "trace_ok", !.submitted = FALSE], job', graph', traced')
           \/ ~task[t].submitted
        /\ [task[t] EXCEPT !.pc = "trace_ok", !.submitted = FALSE].job = task[t].job
    BY <1>2, <1>3, <2>1 DEF Claim, TaskStates, SectionPcs
  <2>3. ASSUME NEW again \in BOOLEAN
        PROVE  /\ Claim([task[t] EXCEPT !.pc = "trace_failed", !.again = again,
                                        !.submitted = FALSE], job', graph', traced')
               /\ [task[t] EXCEPT !.pc = "trace_failed", !.again = again,
                                  !.submitted = FALSE].job = task[t].job
    BY <1>2, <1>3, <2>1 DEF Claim, TaskStates, SectionPcs
  <2> QED BY <1>1, <1>10, <2>1, <2>2, <2>3, TaskKeeps DEF extract_graph_section, Finalized
<1>11. CASE record_trace_failed(t)
  <2>1. /\ task[t].pc = "trace_failed" /\ task[t].submitted = FALSE /\ UNCHANGED queue
    BY <1>2, <1>11 DEF record_trace_failed, KeepManager, Claim, TaskStates
  <2> DEFINE l == Session(task[t], task[t].sec, task[t].attempt + 1)
  <2>2. /\ l.job = task[t].job /\ l.pc = "extract" /\ l.submitted = FALSE
        /\ l.sec = task[t].sec
    BY <1>2, <2>1 DEF TaskStates, Session
  <2>3. Claim(l, job', graph', traced')
    <3> HIDE DEF l
    <3> QED BY <1>3, <2>1, <2>2 DEF Claim, SectionPcs
  <2>4. Resume(t, l) => ProgressInv'
    <3> HIDE DEF l
    <3> QED BY <1>1, <2>1, <2>2, <2>3, TaskKeeps
  <2> QED BY <1>1, <1>11, <2>1, <2>4, QuitKeeps DEF record_trace_failed
<1>12. CASE mark_after_task_cancel_read(t)
  <2> DEFINE s == job[task[t].job].status
             l == [task[t] EXCEPT !.pc = "requeue", !.seen = s]
  <2>1. task[t].submitted = FALSE /\ task[t].pc = "interrupted" /\ UNCHANGED queue
    BY <1>2, <1>12 DEF mark_after_task_cancel_read, Claim, TaskStates, KeepManager
  <2>2. l.job = task[t].job /\ l.pc = "requeue" /\ l.submitted = FALSE
    BY <1>2, <2>1 DEF TaskStates
  <2>3. Claim(l, job', graph', traced') /\ l.job <= created
    <3> HIDE DEF l
    <3> QED BY <1>5, <2>2 DEF Claim, SectionPcs
  <2>4. Claim(Fresh("done"), job', graph', traced') /\ Fresh("done").job <= created
    BY <1>5 DEF Claim, Fresh, At, SectionPcs
  <2>5. task' = [task EXCEPT ![t] = l] \/ task' = [task EXCEPT ![t] = Fresh("done")]
    BY <1>12 DEF mark_after_task_cancel_read
  <2> HIDE DEF l
  <2> QED BY <1>4, <2>1, <2>3, <2>4, <2>5
<1>13. CASE DbError(t)
  <2> DEFINE pc == OnError(task[t].pc)
  <2>1. pc \in {"failing", "loop_failing", "broken"}
    BY DEF OnError
  <2>2. Claim(At(pc, task[t].job), job', graph', traced') /\ At(pc, task[t].job).job <= created
    <3> HIDE DEF pc
    <3> QED BY <1>5, <2>1 DEF Claim, At, SectionPcs
  <2> QED BY <1>4, <1>13, <2>2 DEF DbError
<1> QED BY <1>6, <1>7, <1>8, <1>9, <1>10, <1>11, <1>12, <1>13

\* _begin_analysis, the section boundary and the final mark.
LEMMA BoundaryStepProgress ==
    ASSUME TypeOK, ProgressInv, NEW t \in Tasks,
           begin_analysis(t) \/ pause_at_section_boundary(t) \/ mark_applied(t)
    PROVE  ProgressInv'
<1> DEFINE j == task[t].job
<1>1. /\ task[t] \in TaskStates /\ Claim(task[t], job, graph, traced)
      /\ task[t].pc \in TryPcs /\ j \in Jobs /\ job[j] \in Rows
      /\ task[t].submitted = FALSE
      /\ UNCHANGED <<graph, traced, created, queue, req>>
  BY TaskClaim DEF begin_analysis, pause_at_section_boundary, mark_applied, TypeOK, TryPcs,
                   KeepManager, Claim, TaskStates
<1>2. CASE begin_analysis(t)
  <2>1. CASE job[j].status \notin RUNNABLE
    BY <1>1, <1>2, <2>1, GrowthQuiet, QuitKeeps DEF begin_analysis
  <2>2. CASE job[j].status \in RUNNABLE
    <3>1. job' = [job EXCEPT ![j] = Begun(job[j])] /\ Goto(t, "gate")
      BY <1>2, <2>2 DEF begin_analysis
    <3>2. /\ Begun(job[j]).status = "analyzing"
          /\ Begun(job[j]).offset \in {0, job[j].offset}
      BY <1>1 DEF Begun, Rows
    <3>3. Quiet
      BY <1>1, <2>2, <3>1, <3>2
         DEF Quiet, RowsKept, RowKept, SameRows, Grows, RUNNABLE, TypeOK
    <3>4. Claim(task[t], job', graph', traced')
      BY <1>1, <3>3, ClaimGrows DEF Quiet
    <3>5. /\ Claim([task[t] EXCEPT !.pc = "gate"], job', graph', traced')
          /\ [task[t] EXCEPT !.pc = "gate"].job = task[t].job
      BY <1>1, <1>2, <3>4 DEF Claim, TaskStates, SectionPcs, begin_analysis
    <3> QED
      BY <1>1, <3>1, <3>3, <3>5, TaskKeeps DEF Goto
  <2> QED BY <2>1, <2>2
<1>3. CASE pause_at_section_boundary(t)
  <2>1. CASE job[j].status \in {"pause_requested", "cancel_requested"}
    <3>1. Quit(t, "leave")
          /\ (SetStatus(j, "paused") \/ SetStatus(j, "cancelled"))
      BY <1>3, <2>1 DEF pause_at_section_boundary
    <3>2. Quiet
      BY <1>1, <2>1, <3>1, SetStatusQuiet DEF Exists, Statuses, UNFINISHED
    <3> QED BY <1>1, <3>1, <3>2, QuitKeeps
  <2>2. CASE job[j].status = "analyzing"
    <3> DEFINE l == Session(task[t], task[t].sec + 1, 1)
    <3>1. Quiet
      BY <1>1, <1>3, <2>2, GrowthQuiet DEF pause_at_section_boundary
    <3>2. Claim(task[t], job', graph', traced')
      BY <1>1, <3>1, ClaimGrows DEF Quiet
    <3>3. task[t].pc = "gate" /\ task[t].sec \in Nat /\ NumSections \in Nat
          /\ task[t].sec <= NumSections
      BY <1>1, <1>3, ConstantsAssumption DEF pause_at_section_boundary, TaskStates
    <3>4. /\ l.job = task[t].job /\ l.pc = "extract" /\ l.submitted = FALSE
          /\ l.sec = task[t].sec + 1
      BY <1>1, <3>3 DEF TaskStates, Session
    <3>5. Claim(l, job', graph', traced')
      <4> HIDE DEF l
      <4>1. (task[t].sec + 1) - 1 = task[t].sec
        BY <3>3
      <4> QED BY <3>2, <3>3, <3>4, <4>1 DEF Claim, SectionPcs
    <3>6. Resume(t, l) => ProgressInv'
      <4> HIDE DEF l
      <4> QED BY <1>1, <3>1, <3>4, <3>5, TaskKeeps
    <3>7. ASSUME ~Remaining(task[t].sec)
          PROVE  /\ Claim([task[t] EXCEPT !.pc = "finish"], job', graph', traced')
                 /\ [task[t] EXCEPT !.pc = "finish"].job = task[t].job
      <4>1. Sections = 1 .. task[t].sec
        BY <3>3, <3>7 DEF Sections, Remaining
      <4> QED BY <1>1, <3>2, <3>3, <4>1 DEF Claim, TaskStates, SectionPcs
    <3> QED
      BY <1>1, <1>3, <2>2, <3>1, <3>6, <3>7, TaskKeeps DEF pause_at_section_boundary, Goto
  <2>3. CASE job[j].status \notin {"pause_requested", "cancel_requested", "analyzing"}
    BY <1>1, <1>3, <2>3, GrowthQuiet, QuitKeeps DEF pause_at_section_boundary
  <2> QED BY <2>1, <2>2, <2>3
<1>4. CASE mark_applied(t)
  <2>1. Quit(t, "leave") /\ task[t].pc = "finish"
    BY <1>4 DEF mark_applied
  <2>2. CASE job[j].status \in {"pause_requested", "cancel_requested"}
    <3>1. SetStatus(j, "paused") \/ SetStatus(j, "cancelled")
      BY <1>4, <2>2 DEF mark_applied
    <3>2. Quiet
      BY <1>1, <2>2, <3>1, SetStatusQuiet DEF Exists, Statuses, UNFINISHED
    <3> QED BY <1>1, <2>1, <3>2, QuitKeeps
  <2>3. CASE job[j].status = "analyzing"
    <3>1. job' = [job EXCEPT ![j] = [job[j] EXCEPT !.status = "applied"]]
      BY <1>4, <2>3 DEF mark_applied, SetStatus
    <3>2. \A i \in Jobs : /\ job'[i].offset = job[i].offset
                          /\ job'[i].status = IF i = j THEN "applied" ELSE job[i].status
      BY <1>1, <3>1 DEF TypeOK, Rows
    <3>3. Sections \subseteq graph[j] \cap traced[j]
      BY <1>1, <2>1, <2>3 DEF Claim
    <3>4. RecordedIsWritten' /\ AppliedIsComplete'
      BY <1>1, <3>2, <3>3 DEF ProgressInv, RecordedIsWritten, AppliedIsComplete, Written
    <3>5. Grows(job, graph, traced, job', graph', traced')
      BY <1>1, <2>3, <3>2 DEF Grows
    <3>6. /\ Claim(At("leave", j), job', graph', traced') /\ At("leave", j).job = j
      BY DEF Claim, At, SectionPcs
    <3>7. ClaimsHold
      BY ClaimsAre DEF ProgressInv, ClaimsHold
    <3>8. WorkerIsAheadOfRecord'
      BY <2>1, <3>5, <3>6, <3>7, ResumeClaims, ClaimsAre DEF Quit, ClaimsHold
    <3>9. \A u \in Tasks : task'[u].job \in {task[u].job, NoJob}
      <4>1. OnCancel(task[t]).job \in {task[t].job, NoJob}
        BY OnCancelQuiet
      <4> QED BY <2>1, <3>6, <4>1 DEF Quit, Resume, TypeOK
    <3>10. ReferencesAreCreated'
      BY <1>1, <2>3, <3>2, <3>9 DEF ProgressInv, ReferencesAreCreated, Exists, TypeOK, NoJob
    <3>11. RetryHasRow'
      BY <1>1, <3>2 DEF ProgressInv, RetryHasRow, Exists, TypeOK
    <3> QED BY <3>4, <3>8, <3>10, <3>11 DEF ProgressInv
  <2>4. CASE job[j].status \notin {"pause_requested", "cancel_requested", "analyzing"}
    BY <1>1, <1>4, <2>1, <2>4, GrowthQuiet, QuitKeeps DEF mark_applied
  <2> QED BY <2>2, <2>3, <2>4
<1> QED BY <1>2, <1>3, <1>4

\* The submission, the trace and the record of one section.
LEMMA SectionStepProgress ==
    ASSUME TypeOK, ProgressInv, NEW t \in Tasks,
           submit_rule_graph(t) \/ record_trace_completed(t) \/ record_section(t)
    PROVE  ProgressInv'
<1> DEFINE j == task[t].job
           s == task[t].sec
<1>1. /\ task[t] \in TaskStates /\ Claim(task[t], job, graph, traced)
      /\ task[t].pc \in SectionPcs /\ j \in Jobs /\ s \in Sections /\ job[j] \in Rows
      /\ UNCHANGED <<created, queue, req>>
  BY TaskClaim DEF submit_rule_graph, record_trace_completed, record_section, TypeOK, TryPcs,
                   SectionPcs, KeepManager, database
<1>2. CASE submit_rule_graph(t)
  <2>1. graph' = [graph EXCEPT ![j] = graph[j] \cup {s}] /\ UNCHANGED <<job, traced>>
    BY <1>2 DEF submit_rule_graph, database
  <2>2. Quiet /\ s \in graph'[j]
    BY <1>1, <2>1, GrowthQuiet DEF TypeOK
  <2>3. Claim(task[t], job', graph', traced')
    BY <1>1, <2>2, ClaimGrows DEF Quiet
  <2>4. /\ Claim([task[t] EXCEPT !.submitted = TRUE], job', graph', traced')
        /\ [task[t] EXCEPT !.submitted = TRUE].job = task[t].job
    BY <1>1, <1>2, <2>2, <2>3 DEF submit_rule_graph, Claim, TaskStates, SectionPcs
  <2> QED
    BY <1>1, <1>2, <2>2, <2>4, TaskKeeps DEF submit_rule_graph
<1>3. CASE record_trace_completed(t)
  <2>1. task[t].pc = "trace_ok" /\ UNCHANGED <<job, graph>>
    BY <1>3 DEF record_trace_completed
  <2>2. CASE ~Exists(j)
    BY <1>1, <1>3, <2>1, <2>2, GrowthQuiet, QuitKeeps DEF record_trace_completed
  <2>3. CASE Exists(j)
    <3>1. traced' = [traced EXCEPT ![j] = traced[j] \cup {s}] /\ Goto(t, "record")
      BY <1>3, <2>3 DEF record_trace_completed
    <3>2. Quiet /\ s \in traced'[j]
      BY <1>1, <2>1, <3>1, GrowthQuiet DEF TypeOK
    <3>3. Claim(task[t], job', graph', traced')
      BY <1>1, <3>2, ClaimGrows DEF Quiet
    <3>4. /\ Claim([task[t] EXCEPT !.pc = "record"], job', graph', traced')
          /\ [task[t] EXCEPT !.pc = "record"].job = task[t].job
      BY <1>1, <2>1, <3>2, <3>3 DEF Claim, TaskStates, SectionPcs
    <3> QED BY <1>1, <3>1, <3>2, <3>4, TaskKeeps DEF Goto
  <2> QED BY <2>2, <2>3
<1>4. CASE record_section(t)
  <2>1. /\ task[t].pc = "record" /\ Goto(t, "gate") /\ UNCHANGED <<graph, traced>>
        /\ s \in Nat \ {0}
    BY <1>1, <1>4, ConstantsAssumption DEF record_section, Sections
  <2>2. Exists(j) => 1 .. s \subseteq graph[j] \cap traced[j]
    <3>1. 1 .. s = (1 .. (s - 1)) \cup {s}
      BY <2>1
    <3> QED BY <1>1, <2>1, <3>1 DEF Claim, SectionPcs, Exists
  <2>3. \A i \in Jobs : /\ job'[i].offset = IF i = j /\ Exists(j) THEN s ELSE job[i].offset
                        /\ job'[i].status = job[i].status
    <3>1. job' = IF Exists(j) THEN [job EXCEPT ![j] = Recorded(job[j], s)] ELSE job
      BY <1>4 DEF record_section
    <3>2. Recorded(job[j], s).offset = s /\ Recorded(job[j], s).status = job[j].status
      BY <1>1 DEF Recorded, Rows
    <3> QED BY <1>1, <3>1, <3>2 DEF TypeOK
  <2>4. RecordedIsWritten' /\ AppliedIsComplete'
    BY <2>1, <2>2, <2>3 DEF ProgressInv, RecordedIsWritten, AppliedIsComplete, Written
  <2>5. Grows(job, graph, traced, job', graph', traced')
    BY <2>1, <2>3 DEF Grows
  <2>6. Claim(task[t], job', graph', traced')
    BY <1>1, <2>5, ClaimGrows
  <2>7. /\ Claim([task[t] EXCEPT !.pc = "gate"], job', graph', traced')
        /\ [task[t] EXCEPT !.pc = "gate"].job = task[t].job
    <3>1. 1 .. s = (1 .. (s - 1)) \cup {s}
      BY <2>1
    <3> QED BY <1>1, <2>1, <2>6, <3>1 DEF Claim, TaskStates, SectionPcs
  <2>8. ClaimsHold
    BY ClaimsAre DEF ProgressInv, ClaimsHold
  <2>9. WorkerIsAheadOfRecord'
    BY <2>1, <2>5, <2>7, <2>8, ResumeClaims, ClaimsAre DEF Goto, ClaimsHold
  <2>10. \A u \in Tasks : task'[u].job \in {task[u].job, NoJob}
    <3>1. OnCancel(task[t]).job \in {task[t].job, NoJob}
      BY OnCancelQuiet
    <3> QED BY <2>1, <2>7, <3>1 DEF Goto, Resume, TypeOK
  <2>11. ReferencesAreCreated'
    BY <1>1, <2>3, <2>10, SMTT(30) DEF ProgressInv, ReferencesAreCreated, Exists, TypeOK, NoJob
  <2>12. RetryHasRow'
    BY <1>1, <2>3 DEF ProgressInv, RetryHasRow, Exists, TypeOK
  <2> QED BY <2>4, <2>9, <2>11, <2>12 DEF ProgressInv
<1> QED BY <1>2, <1>3, <1>4

\* The marks a worker leaves on a job it gives up.
LEMMA GiveUpStepProgress ==
    ASSUME TypeOK, ProgressInv, NEW t \in Tasks,
           mark_failed(t) \/ mark_after_task_cancel_write(t)
    PROVE  ProgressInv'
<1> DEFINE j == task[t].job
<1>1. /\ task[t] \in TaskStates /\ Claim(task[t], job, graph, traced)
      /\ j \in Jobs /\ job[j] \in Rows
      /\ UNCHANGED <<graph, traced, created, queue, req>>
  BY TaskClaim DEF mark_failed, mark_after_task_cancel_write, TypeOK, HandlerPcs, KeepManager
<1>2. CASE mark_failed(t)
  <2>1. Quit(t, "left")
    BY <1>2 DEF mark_failed
  <2>2. Quiet
    <3>1. CASE Exists(j)
      <4>1. SetStatus(j, "cancelled") \/ SetStatus(j, "failed")
        BY <1>2, <3>1 DEF mark_failed
      <4> QED BY <1>1, <3>1, <4>1, SetStatusQuiet DEF Statuses
    <3>2. CASE ~Exists(j)
      BY <1>1, <1>2, <3>2, GrowthQuiet DEF mark_failed
    <3> QED BY <3>1, <3>2
  <2> QED BY <1>1, <2>1, <2>2, QuitKeeps
<1>3. CASE mark_after_task_cancel_write(t)
  <2>1. CASE ~Exists(j)
    BY <1>1, <1>3, <2>1, GrowthQuiet, QuitKeeps DEF mark_after_task_cancel_write
  <2>2. CASE Exists(j)
    <3>1. /\ SetStatus(j, AfterTaskCancel[task[t].seen])
          /\ task' = [task EXCEPT ![t] = Fresh("done")]
      BY <1>3, <2>2 DEF mark_after_task_cancel_write
    <3>2. AfterTaskCancel[task[t].seen] \in {"queued", "paused", "cancelled"}
      BY <1>3 DEF mark_after_task_cancel_write, AfterTaskCancel, TypeOK
    <3>3. Quiet
      BY <1>1, <2>2, <3>1, <3>2, SetStatusQuiet DEF Statuses, UNFINISHED
    <3>4. RecordedIsWritten' /\ AppliedIsComplete'
      BY <3>3, RowsKeptRecord DEF Quiet, ProgressInv
    <3>5. Claim(Fresh("done"), job', graph', traced') /\ Fresh("done").job = NoJob
      BY DEF Claim, Fresh, At, SectionPcs
    <3>6. \A u \in Tasks : Claim(task[u], job', graph', traced')
      BY <3>3, ClaimGrows, ClaimsAre DEF Quiet, ProgressInv
    <3>7. WorkerIsAheadOfRecord'
      BY <3>1, <3>5, <3>6, ClaimsAre DEF TypeOK
    <3>8. \A u \in Tasks : task'[u].job \in {task[u].job, NoJob}
      BY <3>1, <3>5 DEF TypeOK
    <3>9. ReferencesAreCreated'
      BY <1>1, <3>3, <3>8, SMTT(30)
         DEF Quiet, SameRows, ProgressInv, ReferencesAreCreated, Exists, TypeOK, NoJob
    <3>10. RetryHasRow'
      BY <1>1, <3>3 DEF Quiet, SameRows, ProgressInv, RetryHasRow, Exists, TypeOK
    <3> QED BY <3>4, <3>7, <3>9, <3>10 DEF ProgressInv
  <2> QED BY <2>1, <2>2
<1> QED BY <1>2, <1>3

-----------------------------------------------------------------------------
(* The steps of the routes *)

\* What the manager does to its tasks on behalf of a handler.
LEMMA EnsureWorkerTasks ==
    ASSUME TypeOK, NEW w, ensure_worker(w)
    PROVE  \A u \in Tasks : task'[u] = task[u] \/ task'[u] = Fresh("get")
BY DEF ensure_worker, TypeOK

LEMMA QueueBound ==
    ASSUME ProgressInv, UNCHANGED queue
    PROVE  \A i \in DOMAIN queue' : queue'[i] <= created
BY DEF ProgressInv, ReferencesAreCreated

LEMMA ReplyKeeps ==
    ASSUME TypeOK, ProgressInv, Quiet, NEW r \in Requests, Reply(r),
           \A u \in Tasks : task'[u] = task[u] \/ task'[u] = Fresh("get"),
           \A i \in DOMAIN queue' : queue'[i] <= created, UNCHANGED created
    PROVE  ProgressInv'
<1>1. Idle.job <= created /\ Idle.pc = "idle"
  BY DEF Idle, TypeOK, NoJob
<1> QED BY <1>1, RequestKeeps DEF Reply

\* A handler that goes on with the job j at pc.
LEMMA HandlerKeeps ==
    ASSUME TypeOK, ProgressInv, Quiet, NEW r \in Requests, NEW j \in Jobs,
           NEW pc \in {"enqueue", "retry", "signal", "refresh", "settle"},
           j <= created, pc = "retry" => Exists(j)',
           \/ req' = [req EXCEPT ![r].pc = pc, ![r].job = j]
           \/ req[r].job = j /\ req' = [req EXCEPT ![r].pc = pc]
           \/ req[r].job = j /\ req' = [req EXCEPT ![r].pc = pc, ![r].task = NoTask],
           UNCHANGED <<created, queue>>,
           \A u \in Tasks : task'[u] = task[u] \/ task'[u] = Fresh("get")
    PROVE  ProgressInv'
<1>1. req[r] \in RequestStates
  BY DEF TypeOK
<1>2. \A i \in DOMAIN queue' : queue'[i] <= created
  BY QueueBound
<1>3. ASSUME NEW l, l.pc = pc, l.job = j, req' = [req EXCEPT ![r] = l]
      PROVE  ProgressInv'
  BY <1>2, <1>3, RequestKeeps
<1>4. CASE req' = [req EXCEPT ![r].pc = pc, ![r].job = j]
  <2>1. req' = [req EXCEPT ![r] = [req[r] EXCEPT !.pc = pc, !.job = j]]
    BY <1>4
  <2>2. /\ [req[r] EXCEPT !.pc = pc, !.job = j].pc = pc
        /\ [req[r] EXCEPT !.pc = pc, !.job = j].job = j
    BY <1>1 DEF RequestStates
  <2> QED BY <1>3, <2>1, <2>2
<1>5. CASE req[r].job = j /\ req' = [req EXCEPT ![r].pc = pc]
  <2>1. req' = [req EXCEPT ![r] = [req[r] EXCEPT !.pc = pc]]
    BY <1>5
  <2>2. [req[r] EXCEPT !.pc = pc].pc = pc /\ [req[r] EXCEPT !.pc = pc].job = j
    BY <1>1, <1>5 DEF RequestStates
  <2> QED BY <1>3, <2>1, <2>2
<1>6. CASE req[r].job = j /\ req' = [req EXCEPT ![r].pc = pc, ![r].task = NoTask]
  <2>1. req' = [req EXCEPT ![r] = [req[r] EXCEPT !.pc = pc, !.task = NoTask]]
    BY <1>6
  <2>2. /\ [req[r] EXCEPT !.pc = pc, !.task = NoTask].pc = pc
        /\ [req[r] EXCEPT !.pc = pc, !.task = NoTask].job = j
    BY <1>1, <1>6 DEF RequestStates
  <2> QED BY <1>3, <2>1, <2>2
<1> QED BY <1>4, <1>5, <1>6

LEMMA NewRequestProgress ==
    ASSUME TypeOK, ProgressInv, NEW r \in Requests, NewRequest(r)
    PROVE  ProgressInv'
<1>1. \A i \in DOMAIN queue : queue[i] <= created
  BY DEF ProgressInv, ReferencesAreCreated
<1>2. \A j \in Jobs : Exists(j) => j <= created
  BY DEF ProgressInv, ReferencesAreCreated
<1>3. ASSUME NEW d \in Docs, start_job_check(r, d) PROVE ProgressInv'
  <2> DEFINE l == [req[r] EXCEPT !.pc = "create", !.doc = d]
  <2>1. l.pc = "create" /\ l.job = req[r].job /\ l.job <= created
    BY DEF TypeOK, RequestStates, ProgressInv, ReferencesAreCreated
  <2>2. req' = [req EXCEPT ![r] = l] /\ UNCHANGED <<created, queue, task>> /\ Quiet
    BY <1>3, GrowthQuiet DEF start_job_check, KeepWorker, manager, database
  <2> HIDE DEF l
  <2> QED BY <1>1, <2>1, <2>2, RequestKeeps
<1>4. ASSUME NEW j \in Jobs, pause_job(r, j) PROVE ProgressInv'
  <2>1. /\ UNCHANGED <<created, queue, task, req, traced, graph>> /\ Exists(j)
        /\ SetStatus(j, "paused") \/ SetStatus(j, "pause_requested")
    BY <1>4 DEF pause_job, KeepWorker, manager, Exists
  <2>2. Quiet
    BY <2>1, SetStatusQuiet DEF Statuses, UNFINISHED
  <2>3. req' = [req EXCEPT ![r] = req[r]] /\ req[r].job <= created
    BY <2>1 DEF TypeOK, ProgressInv, ReferencesAreCreated
  <2>4. req[r].pc = "idle"
    BY <1>4 DEF pause_job
  <2> QED BY <1>1, <2>1, <2>2, <2>3, <2>4, RequestKeeps
<1>5. ASSUME NEW j \in Jobs, resume_job(r, j) PROVE ProgressInv'
  <2>1. /\ UNCHANGED <<created, queue, task, traced, graph>> /\ Exists(j)
        /\ SetStatus(j, "queued")
        /\ req' = [req EXCEPT ![r].pc = "enqueue", ![r].job = j]
    BY <1>5 DEF resume_job, KeepWorker, manager, Exists
  <2>2. Quiet
    BY <2>1, SetStatusQuiet DEF Statuses, UNFINISHED
  <2> QED BY <1>2, <2>1, <2>2, HandlerKeeps
<1>6. ASSUME NEW j \in Jobs, retry_job_check(r, j) PROVE ProgressInv'
  <2>1. /\ UNCHANGED <<created, queue, task, job, traced, graph>> /\ Exists(j) /\ Exists(j)'
        /\ req' = [req EXCEPT ![r].pc = "retry", ![r].job = j]
    BY <1>6 DEF retry_job_check, KeepWorker, manager, database, Exists
  <2> QED BY <1>2, <2>1, GrowthQuiet, HandlerKeeps
<1>7. ASSUME NEW j \in Jobs, cancel_job(r, j) PROVE ProgressInv'
  <2>1. /\ UNCHANGED <<created, queue, task, traced, graph>> /\ Exists(j)
        /\ SetStatus(j, "cancelled") \/ SetStatus(j, "cancel_requested")
        /\ req' = [req EXCEPT ![r].pc = "signal", ![r].job = j]
    BY <1>7 DEF cancel_job, KeepWorker, manager, Exists
  <2>2. Quiet
    BY <2>1, SetStatusQuiet DEF Statuses, UNFINISHED
  <2> QED BY <1>2, <2>1, <2>2, HandlerKeeps
<1> QED BY <1>3, <1>4, <1>5, <1>6, <1>7 DEF NewRequest

LEMMA RequestStepProgress ==
    ASSUME TypeOK, ProgressInv, NEW r \in Requests, RequestStep(r) \/ AuditError(r)
    PROVE  ProgressInv'
<1> DEFINE j == req[r].job
<1>1. /\ req[r] \in RequestStates /\ j <= created
      /\ req[r].pc \notin {"idle", "create"} => j \in Jobs
      /\ req[r].pc = "retry" => Exists(j)
      /\ \A i \in DOMAIN queue : queue[i] <= created
  BY DEF TypeOK, ProgressInv, ReferencesAreCreated, RetryHasRow
<1>2. CASE audit_and_enqueue(r)
  <2>1. enqueue(j) /\ Reply(r) /\ UNCHANGED <<job, graph, traced, created>> /\ j \in Jobs
    BY <1>1, <1>2 DEF audit_and_enqueue, database
  <2>2. \A u \in Tasks : task'[u] = task[u] \/ task'[u] = Fresh("get")
    BY <2>1, EnsureWorkerTasks DEF enqueue
  <2>3. \A i \in DOMAIN queue' : queue'[i] <= created
    <3>1. queue \in Seq(Jobs)
      BY DEF TypeOK
    <3>2. \A i \in DOMAIN Append(queue, j) : Append(queue, j)[i] <= created
      BY <1>1, <2>1, <3>1, AppendProperties
    <3> QED BY <1>1, <2>1, <3>2 DEF enqueue
  <2> QED BY <2>1, <2>2, <2>3, GrowthQuiet, ReplyKeeps
<1>3. CASE AuditError(r) \/ RowGone(r)
  BY <1>1, <1>3, GrowthQuiet, ReplyKeeps DEF AuditError, RowGone, KeepWorker, manager, database
<1>4. CASE retry_job_commit(r)
  <2>1. /\ j \in Jobs /\ Exists(j) /\ SetStatus(j, "queued")
        /\ req' = [req EXCEPT ![r].pc = "enqueue"]
        /\ UNCHANGED <<graph, traced, created, queue, task>>
    BY <1>1, <1>4 DEF retry_job_commit, KeepWorker, manager
  <2>2. Quiet
    BY <2>1, SetStatusQuiet DEF Statuses, UNFINISHED
  <2> QED BY <1>1, <2>1, <2>2, HandlerKeeps
<1>5. CASE manager_cancel(r)
  <2>1. UNCHANGED <<job, graph, traced, created, queue>> /\ j \in Jobs
    BY <1>1, <1>5 DEF manager_cancel, database, manager
  <2>2. CASE \/ current # req[r].job \/ workerTask = NoTask
             \/ task[workerTask].pc \in DeadPcs
    <3>1. req' = [req EXCEPT ![r].pc = "refresh"] /\ UNCHANGED task
      BY <1>5, <2>2 DEF manager_cancel
    <3> QED BY <1>1, <2>1, <3>1, GrowthQuiet, HandlerKeeps
  <2>3. CASE ~(\/ current # req[r].job \/ workerTask = NoTask
               \/ task[workerTask].pc \in DeadPcs)
    <3> DEFINE l == [req[r] EXCEPT !.pc = "await", !.task = workerTask]
    <3>1. /\ task' = [task EXCEPT ![workerTask] = [task[workerTask] EXCEPT !.cancelling = TRUE]]
          /\ req' = [req EXCEPT ![r] = l]
      BY <1>5, <2>3 DEF manager_cancel
    <3>2. l.pc = "await" /\ l.job = j
      BY <1>1 DEF RequestStates
    <3>3. \A u \in Tasks : task'[u] = task[u] \/ task'[u] = [task[u] EXCEPT !.cancelling = TRUE]
      BY <3>1 DEF TypeOK
    <3> HIDE DEF l
    <3> QED BY <1>1, <2>1, <3>1, <3>2, <3>3, GrowthQuiet, RequestKeeps
  <2> QED BY <2>2, <2>3
<1>6. CASE manager_cancelled(r)
  <2>1. UNCHANGED <<job, graph, traced, created, queue>> /\ j \in Jobs
    BY <1>1, <1>6 DEF manager_cancelled, database
  <2>2. CASE task[req[r].task].pc = "broken"
    BY <1>1, <1>6, <2>1, <2>2, GrowthQuiet, ReplyKeeps DEF manager_cancelled
  <2>3. CASE task[req[r].task].pc # "broken"
    <3>1. \A u \in Tasks : task'[u] = task[u] \/ task'[u] = Fresh("get")
      BY <1>6, <2>3, EnsureWorkerTasks DEF manager_cancelled
    <3>2. req' = [req EXCEPT ![r].pc = "refresh", ![r].task = NoTask]
      BY <1>6, <2>3 DEF manager_cancelled
    <3> QED BY <1>1, <2>1, <3>1, <3>2, GrowthQuiet, HandlerKeeps
  <2> QED BY <2>2, <2>3
<1>7. CASE cancel_job_refresh(r)
  <2>1. UNCHANGED <<job, graph, traced, created, queue, task>> /\ j \in Jobs
    BY <1>1, <1>7 DEF cancel_job_refresh, KeepWorker, manager, database
  <2>2. CASE job[j].status = "cancel_requested"
    BY <1>1, <1>7, <2>1, <2>2, GrowthQuiet, HandlerKeeps DEF cancel_job_refresh
  <2>3. CASE job[j].status # "cancel_requested"
    BY <1>1, <1>7, <2>1, <2>3, GrowthQuiet, ReplyKeeps DEF cancel_job_refresh
  <2> QED BY <2>2, <2>3
<1>8. CASE cancel_job_settle(r)
  <2>1. UNCHANGED <<graph, traced, created, queue, task>> /\ j \in Jobs /\ Reply(r)
    BY <1>1, <1>8 DEF cancel_job_settle, KeepWorker, manager
  <2>2. Quiet
    <3>1. CASE Exists(j)
      BY <1>8, <2>1, <3>1, SetStatusQuiet DEF cancel_job_settle, Statuses
    <3>2. CASE ~Exists(j)
      BY <1>8, <2>1, <3>2, GrowthQuiet DEF cancel_job_settle
    <3> QED BY <3>1, <3>2
  <2> QED BY <1>1, <2>1, <2>2, ReplyKeeps
<1>9. CASE start_job_create(r)
  <2>1. UNCHANGED <<graph, traced, queue, task>>
    BY <1>9 DEF start_job_create, KeepWorker, manager
  <2>2. CASE ~(req[r].doc \in docs /\ created < MaxJobs)
    BY <1>1, <1>9, <2>1, <2>2, GrowthQuiet, ReplyKeeps DEF start_job_create
  <2>3. CASE req[r].doc \in docs /\ created < MaxJobs
    <3> DEFINE n == created + 1
               l == [Idle EXCEPT !.pc = "enqueue", !.job = n]
    <3>1. /\ created' = n /\ n \in Jobs /\ created \in Nat
          /\ job' = [job EXCEPT ![n] = Row(req[r].doc, "queued")]
          /\ req' = [req EXCEPT ![r] = l]
      BY <1>9, <2>3, ConstantsAssumption DEF start_job_create, TypeOK, Jobs
    <3>2. l.pc = "enqueue" /\ l.job = n
      BY DEF Idle
    <3>3. /\ job'[n].status = "queued" /\ job'[n].offset = 0
          /\ \A i \in Jobs : i # n => job'[i] = job[i]
      BY <3>1 DEF Row, TypeOK
    <3>4. RecordedIsWritten' /\ AppliedIsComplete'
      <4>1. 1 .. 0 = {}
        OBVIOUS
      <4> QED BY <2>1, <3>3, <4>1
             DEF ProgressInv, RecordedIsWritten, AppliedIsComplete, Written
    <3>5. \A u \in Tasks : task[u].job \in Jobs => task[u].job # n
      BY <3>1 DEF ProgressInv, ReferencesAreCreated, Jobs
    <3>6. \A u \in Tasks : Claim(task[u], job, graph, traced)
      BY ClaimsAre DEF ProgressInv
    <3>7. \A u \in Tasks : Claim(task[u], job', graph, traced)
      BY <3>3, <3>5, <3>6 DEF Claim
    <3>8. WorkerIsAheadOfRecord'
      BY <2>1, <3>7, ClaimsAre
    <3>9. ReferencesAreCreated'
      <4>1. \A i \in Jobs : Exists(i)' => i <= n
        BY <3>1, <3>3 DEF ProgressInv, ReferencesAreCreated, Exists, Jobs
      <4>2. \A i \in DOMAIN queue' : queue'[i] <= n
        <5>1. queue \in Seq(Jobs)
          BY DEF TypeOK
        <5>2. \A i \in DOMAIN queue : queue[i] \in Int
          BY <5>1, ConstantsAssumption DEF Jobs
        <5> QED BY <1>1, <2>1, <3>1, <5>2
      <4>3. \A u \in Tasks : task'[u].job <= n
        <5>1. \A u \in Tasks : task[u].job \in Int /\ task[u].job <= created
          BY ConstantsAssumption
             DEF TypeOK, TaskStates, ProgressInv, ReferencesAreCreated, Jobs, NoJob
        <5> QED BY <2>1, <3>1, <5>1
      <4>4. \A q \in Requests : req'[q].job <= n
        <5>1. \A q \in Requests : req[q].job \in Int /\ req[q].job <= created
          BY ConstantsAssumption
             DEF TypeOK, RequestStates, ProgressInv, ReferencesAreCreated, Jobs, NoJob
        <5>2. \A q \in Requests : req'[q] = IF q = r THEN l ELSE req[q]
          BY <3>1 DEF TypeOK
        <5>3. n <= n
          BY <3>1
        <5> HIDE DEF l
        <5> QED BY <3>1, <3>2, <5>1, <5>2, <5>3
      <4> QED BY <3>1, <4>1, <4>2, <4>3, <4>4 DEF ReferencesAreCreated
    <3>10. RetryHasRow'
      <4>1. \A q \in Requests : req'[q] = IF q = r THEN l ELSE req[q]
        BY <3>1 DEF TypeOK
      <4>2. \A i \in Jobs : Exists(i) => Exists(i)'
        BY <3>3 DEF Exists
      <4>3. \A q \in Requests : req[q].pc = "retry" => req[q].job \in Jobs /\ Exists(req[q].job)
        BY DEF TypeOK, ProgressInv, RetryHasRow
      <4>4. \A q \in Requests : req'[q].pc = "retry" => q # r
        <5> HIDE DEF l
        <5> QED BY <3>2, <4>1
      <4>5. \A q \in Requests : q # r => req'[q] = req[q]
        BY <4>1
      <4> QED BY <4>2, <4>3, <4>4, <4>5 DEF RetryHasRow, Exists
    <3> QED BY <3>4, <3>8, <3>9, <3>10 DEF ProgressInv
  <2> QED BY <2>2, <2>3
<1> QED BY <1>2, <1>3, <1>4, <1>5, <1>6, <1>7, <1>8, <1>9 DEF RequestStep

-----------------------------------------------------------------------------
(* The steps of the process, and a document that is deleted *)

LEMMA ProcessProgress ==
    ASSUME TypeOK, ProgressInv, start \/ stop \/ stopped \/ Crash
    PROVE  ProgressInv'
<1>1. CASE start
  <2>1. UNCHANGED <<graph, traced, created, req>> /\ job' = Recovered
    BY <1>1 DEF start
  <2>2. \A j \in Jobs : /\ job'[j].offset = job[j].offset
                        /\ job'[j].status = "absent" <=> job[j].status = "absent"
                        /\ job'[j].status = "applied" => job[j].status = "applied"
    BY <2>1 DEF Recovered, TypeOK, Rows
  <2>3. Quiet
    BY <2>1, <2>2 DEF Quiet, RowsKept, RowKept, SameRows, Grows
  <2>4. RecordedIsWritten' /\ AppliedIsComplete'
    BY <2>3, RowsKeptRecord DEF Quiet, ProgressInv
  <2>5. \A u \in Tasks : task'[u] = task[u] \/ task'[u] = Fresh("get")
    BY <1>1, EnsureWorkerTasks DEF start
  <2>6. Claim(Fresh("get"), job', graph', traced') /\ Fresh("get").job = NoJob
    BY DEF Claim, Fresh, At, SectionPcs
  <2>7. WorkerIsAheadOfRecord'
    BY <2>3, <2>5, <2>6, ClaimGrows, ClaimsAre DEF Quiet, ProgressInv
  <2>8. \A i \in DOMAIN queue' : queue'[i] \in Jobs /\ job'[queue'[i]].status # "absent"
    <3>1. queued' \subseteq Jobs /\ \A j \in queued' : job'[j].status # "absent"
      BY <1>1, <2>1 DEF start
    <3>2. \A i \in DOMAIN queue' : queue'[i] \in queued'
      BY <1>1 DEF start, InCreationOrder
    <3> QED BY <3>1, <3>2
  <2>9. ReferencesAreCreated'
    <3>1. \A j \in Jobs : job'[j].status # "absent" => j <= created
      BY <2>2 DEF ProgressInv, ReferencesAreCreated, Exists
    <3>2. \A i \in DOMAIN queue' : queue'[i] <= created
      BY <2>8, <3>1
    <3>3. \A u \in Tasks : task'[u].job <= created
      BY <2>5, <2>6 DEF ProgressInv, ReferencesAreCreated, TypeOK, NoJob
    <3>4. \A r \in Requests : req'[r].job <= created
      BY <2>1 DEF ProgressInv, ReferencesAreCreated
    <3> QED BY <2>1, <3>1, <3>2, <3>3, <3>4 DEF ReferencesAreCreated, Exists
  <2>10. RetryHasRow'
    BY <2>1, <2>2 DEF ProgressInv, RetryHasRow, Exists, TypeOK
  <2> QED BY <2>4, <2>7, <2>9, <2>10 DEF ProgressInv
<1>2. CASE stop
  <2>1. UNCHANGED <<job, graph, traced, created, queue, req>>
    BY <1>2 DEF stop, database, manager
  <2>2. \A u \in Tasks : task'[u] = task[u]
                         \/ task'[u] = [task[u] EXCEPT !.cancelling = TRUE]
    <3>1. task' = task
          \/ task' = [task EXCEPT ![workerTask] = [task[workerTask] EXCEPT !.cancelling = TRUE]]
      BY <1>2 DEF stop
    <3> QED BY <3>1 DEF TypeOK
  <2>3. \A u \in Tasks : Claim(task[u], job, graph, traced)
    BY ClaimsAre DEF ProgressInv
  <2>4. \A u \in Tasks : Claim([task[u] EXCEPT !.cancelling = TRUE], job, graph, traced)
                         /\ [task[u] EXCEPT !.cancelling = TRUE].job = task[u].job
    BY <2>3 DEF Claim, TypeOK, TaskStates
  <2>5. WorkerIsAheadOfRecord'
    BY <2>1, <2>2, <2>3, <2>4, ClaimsAre
  <2> QED
    BY <2>1, <2>2, <2>4, <2>5
       DEF ProgressInv, RecordedIsWritten, AppliedIsComplete, Written,
           ReferencesAreCreated, RetryHasRow, Exists
<1>3. CASE stopped \/ Crash
  <2>1. UNCHANGED <<job, graph, traced, created>> /\ ForgetMemory
    BY <1>3 DEF stopped, Crash, database
  <2>2. Claim(Fresh("done"), job, graph, traced) /\ Fresh("done").job = NoJob
    BY DEF Claim, Fresh, At, SectionPcs
  <2>3. WorkerIsAheadOfRecord'
    BY <2>1, <2>2, ClaimsAre DEF ForgetMemory
  <2>4. Idle.pc = "idle" /\ Idle.job = NoJob
    BY DEF Idle
  <2>5. ReferencesAreCreated' /\ RetryHasRow'
    BY <2>1, <2>2, <2>4
       DEF ForgetMemory, ProgressInv, ReferencesAreCreated, RetryHasRow, Exists, TypeOK, NoJob
  <2> QED
    BY <2>1, <2>3, <2>5 DEF ProgressInv, RecordedIsWritten, AppliedIsComplete, Written
<1> QED BY <1>1, <1>2, <1>3

LEMMA DeleteProgress ==
    ASSUME TypeOK, ProgressInv, NEW d \in Docs, delete_document(d)
    PROVE  ProgressInv'
<1>1. UNCHANGED <<graph, created, queue, task, req>>
  BY DEF delete_document, KeepWorker, manager
<1>2. Row(NoDoc, "absent").offset = 0 /\ Row(NoDoc, "absent").status = "absent"
  BY DEF Row
<1>3. \A j \in Jobs :
         \/ job'[j].offset = 0 /\ job'[j].status = "absent" /\ job[j].doc = d
         \/ job'[j] = job[j] /\ traced'[j] = traced[j]
  BY <1>2 DEF delete_document
<1>4. RowsKept /\ Grows(job, graph, traced, job', graph', traced')
  BY <1>1, <1>3 DEF RowsKept, RowKept, Grows
<1>5. RecordedIsWritten' /\ AppliedIsComplete'
  BY <1>4, RowsKeptRecord DEF ProgressInv
<1>6. WorkerIsAheadOfRecord'
  BY <1>1, <1>4, ClaimGrows, ClaimsAre DEF ProgressInv
<1>7. ReferencesAreCreated'
  BY <1>1, <1>3 DEF ProgressInv, ReferencesAreCreated, Exists
<1>8. RetryHasRow'
  <2>1. \A r \in Requests : req[r].pc = "retry" => req[r].job \in Jobs /\ job[req[r].job].doc # d
    BY DEF delete_document, Locked, TypeOK
  <2> QED BY <1>1, <1>3, <2>1 DEF ProgressInv, RetryHasRow, Exists
<1> QED BY <1>5, <1>6, <1>7, <1>8 DEF ProgressInv

-----------------------------------------------------------------------------

LEMMA InitProgress == Init => ProgressInv
<1> SUFFICES ASSUME Init PROVE ProgressInv
  OBVIOUS
<1>1. \A j \in Jobs : job[j].offset = 0 /\ job[j].status = "absent"
  BY DEF Init, Row
<1>2. 1 .. 0 = {}
  OBVIOUS
<1>3. Claim(Fresh("done"), job, graph, traced) /\ Fresh("done").job = NoJob
  BY DEF Claim, Fresh, At, SectionPcs
<1>4. WorkerIsAheadOfRecord
  BY <1>3, ClaimsAre DEF Init
<1>5. Idle.pc = "idle" /\ Idle.job = NoJob
  BY DEF Idle
<1> QED
  BY <1>1, <1>2, <1>3, <1>4, <1>5
     DEF Init, ProgressInv, RecordedIsWritten, AppliedIsComplete, ReferencesAreCreated,
         RetryHasRow, Exists, NoJob

LEMMA NextProgress == TypeOK /\ ProgressInv /\ [Next]_vars => ProgressInv'
<1> SUFFICES ASSUME TypeOK, ProgressInv, [Next]_vars PROVE ProgressInv'
  OBVIOUS
<1>1. ASSUME NEW t \in Tasks, TaskStep(t) \/ DbError(t) PROVE ProgressInv'
  BY <1>1, ReadStepProgress, BoundaryStepProgress, SectionStepProgress, GiveUpStepProgress
     DEF TaskStep
<1>2. CASE UNCHANGED vars
  BY <1>2 DEF vars, ProgressInv, RecordedIsWritten, AppliedIsComplete, Written, Exists,
              WorkerIsAheadOfRecord, ReferencesAreCreated, RetryHasRow
<1> QED
  BY <1>1, <1>2, ProcessProgress, RequestStepProgress, NewRequestProgress, DeleteProgress
     DEF Next

LEMMA ProgressAlways == Spec => []ProgressInv
BY InitProgress, NextProgress, TypeCorrect, PTL DEF Spec

\* A job's current_offset never runs ahead of what was written: at every
\* moment, whatever was killed, cancelled, retried or failed before, all the
\* sections up to it have their rules in Neo4j and a completed trace, so a
\* resumed job leaves no section out.
THEOREM RecordedProgressIsWritten == Spec => []RecordedIsWritten
<1>1. ProgressInv => RecordedIsWritten
  BY DEF ProgressInv
<1> QED BY <1>1, ProgressAlways, PTL

\* An applied job has written every section of its document, however often it
\* was interrupted on the way.
THEOREM AppliedJobsAreComplete == Spec => []AppliedIsComplete
<1>1. ProgressInv => AppliedIsComplete
  BY DEF ProgressInv
<1> QED BY <1>1, ProgressAlways, PTL


-----------------------------------------------------------------------------
(* What a step does to the worker tasks *)

LEMMA OnCancelIs ==
    ASSUME NEW l
    PROVE  /\ OnCancel(l).pc = IF l.pc \in TryPcs THEN "interrupted" ELSE "done"
           /\ OnCancel(l).job = IF l.pc \in TryPcs THEN l.job ELSE NoJob
           /\ OnCancel(l).cancelling = FALSE
BY DEF OnCancel, At, Fresh

LEMMA AtIs ==
    ASSUME NEW pc, NEW j
    PROVE  /\ At(pc, j).pc = pc /\ At(pc, j).job = j /\ At(pc, j).cancelling = FALSE
           /\ Fresh(pc).pc = pc /\ Fresh(pc).job = NoJob /\ Fresh(pc).cancelling = FALSE
BY DEF At, Fresh

\* The step of a task that lives changes that task only, and _current_job_id
\* is cleared when the task ends.
OnlyTask(t) ==
    /\ task[t].pc \notin DeadPcs
    /\ \A u \in Tasks \ {t} : task'[u] = task[u]
    /\ task'[t].pc \notin DeadPcs => task'[t].job = task[t].job
    /\ current' = IF task'[t].pc \in DeadPcs THEN NoJob ELSE current
    /\ UNCHANGED <<created, queue, queued, workerTask, phase, req>>

\* An await that completes or is cancelled.
LEMMA ResumeIs ==
    ASSUME TypeOK, NEW t \in Tasks, NEW l, Resume(t, l),
           l.pc \notin DeadPcs, l.job = task[t].job
    PROVE  /\ \A u \in Tasks \ {t} : task'[u] = task[u]
           /\ task'[t] = IF task[t].cancelling THEN OnCancel(task[t]) ELSE l
           /\ task'[t].pc \notin DeadPcs => task'[t].job = task[t].job
           /\ current' = IF task'[t].pc \in DeadPcs THEN NoJob ELSE current
<1>1. task' = [task EXCEPT ![t] = IF task[t].cancelling THEN OnCancel(task[t]) ELSE l]
  BY DEF Resume, TypeOK
<1>2. /\ \A u \in Tasks \ {t} : task'[u] = task[u]
      /\ task'[t] = IF task[t].cancelling THEN OnCancel(task[t]) ELSE l
  BY <1>1 DEF TypeOK
<1>3. OnCancel(task[t]).pc \in DeadPcs <=> OnCancel(task[t]).pc = "done"
  BY OnCancelIs DEF DeadPcs
<1>4. current' = IF task'[t].pc \in DeadPcs THEN NoJob ELSE current
  BY <1>2, <1>3 DEF Resume
<1>5. task'[t].pc \notin DeadPcs => task'[t].job = task[t].job
  BY <1>2, OnCancelIs DEF DeadPcs
<1> QED BY <1>2, <1>4, <1>5

-----------------------------------------------------------------------------
(* One worker *)

\* A step that starts no task, forgets none that lives, and keeps _worker_task.
LEMMA OneWorkerStays ==
    ASSUME OneWorker, UNCHANGED workerTask,
           \A u \in Tasks : task'[u].pc \notin DeadPcs => task[u].pc \notin DeadPcs
    PROVE  OneWorker'
BY DEF OneWorker, Alive

\* _ensure_worker starts a task only when no other one lives.
LEMMA EnsureWorkerIs ==
    ASSUME TypeOK, NEW w \in Tasks \cup {NoTask}, ensure_worker(w),
           \A u \in Alive : u = w
    PROVE  \/ /\ workerTask' = w /\ w \in Alive /\ UNCHANGED task
           \/ /\ Alive = {}
              /\ workerTask' \in FreeTasks
              /\ task' = [task EXCEPT ![workerTask'] = Fresh("get")]
<1>1. CASE w = NoTask \/ task[w].pc \in DeadPcs
  <2>1. PICK t \in FreeTasks : workerTask' = t /\ task' = [task EXCEPT ![t] = Fresh("get")]
    BY <1>1 DEF ensure_worker
  <2>2. Alive = {}
    BY <1>1, ConstantsAssumption DEF Alive, NoTask, Tasks
  <2> QED BY <2>1, <2>2
<1>2. CASE ~(w = NoTask \/ task[w].pc \in DeadPcs)
  BY <1>2 DEF ensure_worker, Alive
<1> QED BY <1>1, <1>2

LEMMA EnsuredIsOne ==
    ASSUME TypeOK, OneWorker, NEW w \in Tasks \cup {NoTask}, ensure_worker(w),
           \A u \in Alive : u = w
    PROVE  OneWorker'
<1>1. CASE workerTask' = w /\ UNCHANGED task
  BY <1>1 DEF OneWorker, Alive
<1>2. CASE Alive = {} /\ workerTask' \in FreeTasks
           /\ task' = [task EXCEPT ![workerTask'] = Fresh("get")]
  BY <1>2 DEF OneWorker, Alive, TypeOK
<1> QED BY <1>1, <1>2, EnsureWorkerIs

\* What remains of _worker_task when a handler's await has ended.
LEMMA KeptWorkerIs ==
    ASSUME TypeOK, OneWorker, NEW e \in Tasks, task[e].pc \in DeadPcs
    PROVE  KeptWorker(e) \in Tasks \cup {NoTask} /\ \A u \in Alive : u = KeptWorker(e)
BY DEF KeptWorker, OneWorker, Alive, TypeOK

\* The worker that lives is _worker_task, its job is _current_job_id, and no
\* task that has ended is still being cancelled.
WorkerInv ==
    /\ OneWorker
    /\ \A t \in Alive : current = task[t].job
    /\ Alive = {} => current = NoJob
    /\ \A t \in Tasks : task[t].pc \in DeadPcs => ~task[t].cancelling

\* The steps of a task inside a job: all but those that take the next one.
JobStep(t) ==
    \/ Interrupt(t) \/ load_job_inputs(t) \/ job_snapshot(t) \/ begin_analysis(t)
    \/ pause_at_section_boundary(t) \/ submit_rule_graph(t) \/ extract_graph_section(t)
    \/ record_trace_completed(t) \/ record_trace_failed(t) \/ record_section(t)
    \/ mark_applied(t) \/ mark_failed(t)
    \/ mark_after_task_cancel_read(t) \/ mark_after_task_cancel_write(t)

\* What such a step changes of the tasks and of the manager: a task that is
\* being cancelled is interrupted or ends, whatever it was doing.
JobStepIs(t) ==
    /\ OnlyTask(t)
    /\ task[t].cancelling => task'[t] = OnCancel(task[t])
    /\ ~task'[t].cancelling

LEMMA ResumeStepIs ==
    ASSUME TypeOK, NEW t \in Tasks, NEW l, Resume(t, l), task[t].pc \notin DeadPcs,
           l.pc \notin DeadPcs, l.job = task[t].job, l.cancelling = task[t].cancelling,
           UNCHANGED created, KeepManager
    PROVE  JobStepIs(t) /\ (~task[t].cancelling => task'[t] = l)
<1>1. task[t].cancelling \in BOOLEAN
  BY DEF TypeOK, TaskStates
<1>2. OnlyTask(t)
  BY ResumeIs DEF OnlyTask, KeepManager
<1>3. /\ task[t].cancelling => task'[t] = OnCancel(task[t])
      /\ ~task[t].cancelling => task'[t] = l
  BY ResumeIs
<1> QED BY <1>1, <1>2, <1>3, OnCancelIs DEF JobStepIs

LEMMA GotoStepIs ==
    ASSUME TypeOK, NEW t \in Tasks, NEW pc, Goto(t, pc), task[t].pc \notin DeadPcs,
           pc \notin DeadPcs, UNCHANGED created, KeepManager
    PROVE  /\ JobStepIs(t)
           /\ ~task[t].cancelling => task'[t].pc = pc /\ task'[t].sec = task[t].sec
<1> DEFINE l == [task[t] EXCEPT !.pc = pc]
<1>1. /\ l.pc = pc /\ l.sec = task[t].sec /\ l.job = task[t].job
      /\ l.cancelling = task[t].cancelling
  BY DEF TypeOK, TaskStates
<1>2. Resume(t, l)
  BY DEF Goto
<1> HIDE DEF l
<1> QED BY <1>1, <1>2, ResumeStepIs

LEMMA QuitStepIs ==
    ASSUME TypeOK, NEW t \in Tasks, NEW pc, Quit(t, pc), task[t].pc \notin DeadPcs,
           pc \notin DeadPcs, UNCHANGED created, KeepManager
    PROVE  /\ JobStepIs(t)
           /\ ~task[t].cancelling => task'[t].pc = pc
<1> DEFINE l == At(pc, task[t].job)
<1>1. l.pc = pc /\ l.job = task[t].job /\ l.cancelling = FALSE
  BY DEF At
<1>2. Resume(t, l)
  BY DEF Quit
<1> HIDE DEF l
<1>3. OnlyTask(t)
  BY <1>1, <1>2, ResumeIs DEF OnlyTask, KeepManager
<1>4. /\ task[t].cancelling => task'[t] = OnCancel(task[t])
      /\ ~task[t].cancelling => task'[t] = l
  BY <1>1, <1>2, ResumeIs
<1> QED BY <1>1, <1>3, <1>4, OnCancelIs DEF JobStepIs

\* The task goes from p to q, unless it is being cancelled; in section n.
Turns(t, p, q) == task[t].pc = p /\ (~task[t].cancelling => task'[t].pc = q)
InSection(t, n) == ~task[t].cancelling => task'[t].sec = n

\* A step that reads the row of its job, and what it found there.
Reads(t) ==
    LET j == task[t].job
        s == job[j].status
    IN \/ task[t].cancelling
       \/ Turns(t, "load", "leave") /\ s \notin RUNNABLE
       \/ Turns(t, "load", "snapshot")
       \/ Turns(t, "load", "failing") /\ SetupFails
       \/ Turns(t, "snapshot", "leave") /\ ~Exists(j)
       \/ Turns(t, "snapshot", "begin") /\ InSection(t, job[j].offset)
       \/ Turns(t, "snapshot", "failing") /\ SetupFails
       \/ Turns(t, "begin", "leave") /\ s \notin RUNNABLE
       \/ Turns(t, "gate", "leave") /\ s \notin {"pause_requested", "cancel_requested", "analyzing"}
       \/ Turns(t, "gate", "finish") /\ s = "analyzing"
       \/ Turns(t, "gate", "extract") /\ s = "analyzing" /\ InSection(t, task[t].sec + 1)
       \/ Turns(t, "extract", "trace_ok") /\ InSection(t, task[t].sec)
       \/ Turns(t, "extract", "trace_failed") /\ InSection(t, task[t].sec)
       \/ Turns(t, "trace_ok", "record") /\ InSection(t, task[t].sec)
       \/ Turns(t, "trace_ok", "failing") /\ ~Exists(j)
       \/ Turns(t, "trace_failed", "extract") /\ InSection(t, task[t].sec)
       \/ Turns(t, "trace_failed", "failing")
       \/ Turns(t, "record", "gate") /\ ~Exists(j)
       \/ Turns(t, "finish", "leave") /\ s \notin {"pause_requested", "cancel_requested", "analyzing"}
       \/ Turns(t, "failing", "left") /\ ~Exists(j)
       \/ Turns(t, "loop_failing", "left") /\ ~Exists(j)
       \/ Turns(t, "interrupted", "requeue") /\ task'[t].seen = s /\ s \in DOMAIN AfterTaskCancel
       \/ Turns(t, "interrupted", "done") /\ s \notin DOMAIN AfterTaskCancel
       \/ Turns(t, "requeue", "loop_failing") /\ ~Exists(j)

\* A step that gives the row of its job another status.
Writes(t) ==
    LET j == task[t].job
        s == job[j].status
    IN \/ /\ Turns(t, "gate", "leave") \/ Turns(t, "finish", "leave")
          /\ \/ s = "pause_requested" /\ SetStatus(j, "paused")
             \/ s = "cancel_requested" /\ SetStatus(j, "cancelled")
       \/ Turns(t, "finish", "leave") /\ s = "analyzing" /\ SetStatus(j, "applied")
       \/ /\ Turns(t, "failing", "left") \/ Turns(t, "loop_failing", "left")
          /\ Exists(j)
          /\ SetStatus(j, IF s = "cancel_requested" THEN "cancelled" ELSE "failed")
       \/ /\ task[t].pc = "requeue" /\ task'[t].pc = "done" /\ Exists(j)
          /\ SetStatus(j, AfterTaskCancel[task[t].seen])

\* What a step of a task inside a job is: it reads, it writes a status, it
\* submits, it begins the job or it records the section.
Outcome(t) ==
    LET j == task[t].job IN
    \/ UNCHANGED <<job, graph>> /\ Reads(t)
    \/ ~Locked(j) /\ UNCHANGED graph /\ Writes(t)
    \/ /\ UNCHANGED job /\ Turns(t, "extract", "extract") /\ InSection(t, task[t].sec)
       /\ graph' = [graph EXCEPT ![j] = @ \cup {task[t].sec}]
    \/ /\ ~Locked(j) /\ UNCHANGED graph /\ Turns(t, "begin", "gate") /\ InSection(t, task[t].sec)
       /\ job[j].status \in RUNNABLE /\ job' = [job EXCEPT ![j] = Begun(@)]
    \/ /\ ~Locked(j) /\ UNCHANGED graph /\ Turns(t, "record", "gate") /\ InSection(t, task[t].sec)
       /\ Exists(j) /\ job' = [job EXCEPT ![j] = Recorded(@, task[t].sec)]

LEMMA InterruptOutcome ==
    ASSUME TypeOK, WorkerInv, NEW t \in Tasks, Interrupt(t)
    PROVE  JobStepIs(t) /\ Outcome(t)
<1>1. task[t].pc \notin DeadPcs
  BY DEF Interrupt, WorkerInv
<1>2. task[t].cancelling /\ task'[t] = OnCancel(task[t]) /\ \A u \in Tasks \ {t} : task'[u] = task[u]
  BY DEF Interrupt, TypeOK
<1>3. OnCancel(task[t]).pc \in DeadPcs <=> OnCancel(task[t]).pc = "done"
  BY OnCancelIs DEF DeadPcs
<1>4. OnlyTask(t)
  BY <1>1, <1>2, <1>3, OnCancelIs DEF Interrupt, OnlyTask, KeepManager, database, DeadPcs
<1>5. UNCHANGED <<job, graph>>
  BY DEF Interrupt, database
<1> QED BY <1>2, <1>4, <1>5, OnCancelIs DEF JobStepIs, Outcome, Reads

LEMMA LoadOutcome ==
    ASSUME TypeOK, NEW t \in Tasks, load_job_inputs(t)
    PROVE  JobStepIs(t) /\ Outcome(t)
<1>1. /\ task[t].pc = "load" /\ task[t].pc \notin DeadPcs
      /\ UNCHANGED <<job, graph, created>> /\ KeepManager
  BY DEF load_job_inputs, database, DeadPcs
<1>2. "leave" \notin DeadPcs /\ "snapshot" \notin DeadPcs /\ "failing" \notin DeadPcs
  BY DEF DeadPcs
<1>3. CASE Quit(t, "leave") /\ job[task[t].job].status \notin RUNNABLE
  BY <1>1, <1>2, <1>3, QuitStepIs DEF Outcome, Reads, Turns
<1>4. CASE Goto(t, "snapshot")
  BY <1>1, <1>2, <1>4, GotoStepIs DEF Outcome, Reads, Turns
<1>5. CASE SetupFails /\ Quit(t, "failing")
  BY <1>1, <1>2, <1>5, QuitStepIs DEF Outcome, Reads, Turns
<1> QED BY <1>3, <1>4, <1>5 DEF load_job_inputs

LEMMA SnapshotOutcome ==
    ASSUME TypeOK, NEW t \in Tasks, job_snapshot(t)
    PROVE  JobStepIs(t) /\ Outcome(t)
<1>1. /\ task[t].pc = "snapshot" /\ task[t].pc \notin DeadPcs
      /\ UNCHANGED <<job, graph, created>> /\ KeepManager
  BY DEF job_snapshot, database, DeadPcs
<1>2. "leave" \notin DeadPcs /\ "begin" \notin DeadPcs /\ "failing" \notin DeadPcs
  BY DEF DeadPcs
<1>3. CASE Quit(t, "leave") /\ ~Exists(task[t].job)
  BY <1>1, <1>2, <1>3, QuitStepIs DEF Outcome, Reads, Turns
<1>4. CASE Resume(t, [task[t] EXCEPT !.pc = "begin", !.sec = job[task[t].job].offset])
  <2> DEFINE l == [task[t] EXCEPT !.pc = "begin", !.sec = job[task[t].job].offset]
  <2>1. /\ l.pc = "begin" /\ l.sec = job[task[t].job].offset /\ l.job = task[t].job
        /\ l.cancelling = task[t].cancelling
    BY DEF TypeOK, TaskStates
  <2>2. Resume(t, l)
    BY <1>4
  <2> HIDE DEF l
  <2> QED BY <1>1, <1>2, <2>1, <2>2, ResumeStepIs DEF Outcome, Reads, Turns, InSection
<1>5. CASE SetupFails /\ Quit(t, "failing")
  BY <1>1, <1>2, <1>5, QuitStepIs DEF Outcome, Reads, Turns
<1> QED BY <1>3, <1>4, <1>5 DEF job_snapshot

LEMMA BeginOutcome ==
    ASSUME TypeOK, NEW t \in Tasks, begin_analysis(t)
    PROVE  JobStepIs(t) /\ Outcome(t)
<1>1. /\ task[t].pc = "begin" /\ task[t].pc \notin DeadPcs /\ ~Locked(task[t].job)
      /\ UNCHANGED <<graph, created>> /\ KeepManager
  BY DEF begin_analysis, DeadPcs
<1>2. "leave" \notin DeadPcs /\ "gate" \notin DeadPcs
  BY DEF DeadPcs
<1>3. CASE job[task[t].job].status \notin RUNNABLE /\ Quit(t, "leave") /\ UNCHANGED job
  BY <1>1, <1>2, <1>3, QuitStepIs DEF Outcome, Reads, Turns
<1>4. CASE /\ job[task[t].job].status \in RUNNABLE
           /\ job' = [job EXCEPT ![task[t].job] = Begun(@)] /\ Goto(t, "gate")
  BY <1>1, <1>2, <1>4, GotoStepIs DEF Outcome, Turns, InSection
<1> QED BY <1>3, <1>4 DEF begin_analysis

\* A Session for section s takes the task to extract, in that section.
LEMMA SessionStepIs ==
    ASSUME TypeOK, NEW t \in Tasks, NEW s, NEW n, Resume(t, Session(task[t], s, n)),
           task[t].pc \notin DeadPcs, UNCHANGED created, KeepManager
    PROVE  JobStepIs(t) /\ Turns(t, task[t].pc, "extract") /\ InSection(t, s)
<1> DEFINE l == Session(task[t], s, n)
<1>1. /\ l.pc = "extract" /\ l.sec = s /\ l.job = task[t].job
      /\ l.cancelling = task[t].cancelling
  BY DEF Session, TypeOK, TaskStates
<1>2. Resume(t, l) /\ l.pc \notin DeadPcs
  BY <1>1 DEF DeadPcs
<1> HIDE DEF l
<1> QED BY <1>1, <1>2, ResumeStepIs DEF Turns, InSection

LEMMA GateOutcome ==
    ASSUME TypeOK, NEW t \in Tasks, pause_at_section_boundary(t)
    PROVE  JobStepIs(t) /\ Outcome(t)
<1> DEFINE s == job[task[t].job].status
<1>1. /\ task[t].pc = "gate" /\ task[t].pc \notin DeadPcs /\ ~Locked(task[t].job)
      /\ UNCHANGED <<graph, created>> /\ KeepManager
  BY DEF pause_at_section_boundary, DeadPcs
<1>2. "leave" \notin DeadPcs /\ "finish" \notin DeadPcs
  BY DEF DeadPcs
<1>3. CASE /\ Quit(t, "leave")
           /\ \/ s = "pause_requested" /\ SetStatus(task[t].job, "paused")
              \/ s = "cancel_requested" /\ SetStatus(task[t].job, "cancelled")
  BY <1>1, <1>2, <1>3, QuitStepIs DEF Outcome, Writes, Turns
<1>4. CASE s = "analyzing" /\ Resume(t, Session(task[t], task[t].sec + 1, 1)) /\ UNCHANGED job
  BY <1>1, <1>4, SessionStepIs DEF Outcome, Reads, Turns
<1>5. CASE s = "analyzing" /\ Goto(t, "finish") /\ UNCHANGED job
  BY <1>1, <1>2, <1>5, GotoStepIs DEF Outcome, Reads, Turns
<1>6. CASE s \notin {"pause_requested", "cancel_requested", "analyzing"}
           /\ Quit(t, "leave") /\ UNCHANGED job
  BY <1>1, <1>2, <1>6, QuitStepIs DEF Outcome, Reads, Turns
<1> QED BY <1>3, <1>4, <1>5, <1>6 DEF pause_at_section_boundary

LEMMA SubmitOutcome ==
    ASSUME TypeOK, NEW t \in Tasks, submit_rule_graph(t)
    PROVE  JobStepIs(t) /\ Outcome(t)
<1> DEFINE l == [task[t] EXCEPT !.submitted = TRUE]
<1>1. /\ task[t].pc = "extract" /\ task[t].pc \notin DeadPcs
      /\ UNCHANGED <<job, created>> /\ KeepManager /\ Resume(t, l)
      /\ graph' = [graph EXCEPT ![task[t].job] = @ \cup {task[t].sec}]
  BY DEF submit_rule_graph, DeadPcs, database
<1>2. /\ l.pc = "extract" /\ l.sec = task[t].sec /\ l.job = task[t].job
      /\ l.cancelling = task[t].cancelling
  BY <1>1 DEF TypeOK, TaskStates
<1> HIDE DEF l
<1> QED BY <1>1, <1>2, ResumeStepIs DEF Outcome, Turns, InSection

LEMMA ExtractOutcome ==
    ASSUME TypeOK, NEW t \in Tasks, extract_graph_section(t)
    PROVE  JobStepIs(t) /\ Outcome(t)
<1>1. /\ task[t].pc = "extract" /\ task[t].pc \notin DeadPcs
      /\ UNCHANGED <<job, graph, created>> /\ KeepManager
  BY DEF extract_graph_section, DeadPcs, database
<1>2. CASE Resume(t, [task[t] EXCEPT !.pc = "trace_ok", !.submitted = FALSE])
  <2> DEFINE l == [task[t] EXCEPT !.pc = "trace_ok", !.submitted = FALSE]
  <2>1. /\ l.pc = "trace_ok" /\ l.sec = task[t].sec /\ l.job = task[t].job
        /\ l.cancelling = task[t].cancelling
    BY DEF TypeOK, TaskStates
  <2>2. Resume(t, l) /\ l.pc \notin DeadPcs
    BY <1>2, <2>1 DEF DeadPcs
  <2> HIDE DEF l
  <2> QED BY <1>1, <2>1, <2>2, ResumeStepIs DEF Outcome, Reads, Turns, InSection
<1>3. ASSUME NEW again \in BOOLEAN,
             Resume(t, [task[t] EXCEPT !.pc = "trace_failed", !.again = again,
                                       !.submitted = FALSE])
      PROVE  JobStepIs(t) /\ Outcome(t)
  <2> DEFINE l == [task[t] EXCEPT !.pc = "trace_failed", !.again = again,
                                  !.submitted = FALSE]
  <2>1. /\ l.pc = "trace_failed" /\ l.sec = task[t].sec /\ l.job = task[t].job
        /\ l.cancelling = task[t].cancelling
    BY DEF TypeOK, TaskStates
  <2>2. Resume(t, l) /\ l.pc \notin DeadPcs
    BY <1>3, <2>1 DEF DeadPcs
  <2> HIDE DEF l
  <2> QED BY <1>1, <2>1, <2>2, ResumeStepIs DEF Outcome, Reads, Turns, InSection
<1> QED BY <1>2, <1>3 DEF extract_graph_section

LEMMA TraceOutcome ==
    ASSUME TypeOK, NEW t \in Tasks, record_trace_completed(t) \/ record_trace_failed(t)
    PROVE  JobStepIs(t) /\ Outcome(t)
<1>1. /\ task[t].pc \notin DeadPcs /\ UNCHANGED <<job, graph, created>> /\ KeepManager
  BY DEF record_trace_completed, record_trace_failed, DeadPcs, database
<1>2. "record" \notin DeadPcs /\ "failing" \notin DeadPcs
  BY DEF DeadPcs
<1>3. CASE record_trace_completed(t)
  <2>1. task[t].pc = "trace_ok"
    BY <1>3 DEF record_trace_completed
  <2>2. CASE Goto(t, "record")
    BY <1>1, <1>2, <2>1, <2>2, GotoStepIs DEF Outcome, Reads, Turns, InSection
  <2>3. CASE ~Exists(task[t].job) /\ Quit(t, "failing")
    BY <1>1, <1>2, <2>1, <2>3, QuitStepIs DEF Outcome, Reads, Turns
  <2> QED BY <1>3, <2>2, <2>3 DEF record_trace_completed
<1>4. CASE record_trace_failed(t)
  <2>1. task[t].pc = "trace_failed"
    BY <1>4 DEF record_trace_failed
  <2>2. CASE Resume(t, Session(task[t], task[t].sec, task[t].attempt + 1))
    BY <1>1, <2>1, <2>2, SessionStepIs DEF Outcome, Reads, Turns
  <2>3. CASE Quit(t, "failing")
    BY <1>1, <1>2, <2>1, <2>3, QuitStepIs DEF Outcome, Reads, Turns
  <2> QED BY <1>4, <2>2, <2>3 DEF record_trace_failed
<1> QED BY <1>3, <1>4

LEMMA RecordOutcome ==
    ASSUME TypeOK, NEW t \in Tasks, record_section(t)
    PROVE  JobStepIs(t) /\ Outcome(t)
<1>1. /\ task[t].pc = "record" /\ task[t].pc \notin DeadPcs /\ ~Locked(task[t].job)
      /\ UNCHANGED <<graph, created>> /\ KeepManager /\ Goto(t, "gate")
  BY DEF record_section, DeadPcs
<1>2. "gate" \notin DeadPcs
  BY DEF DeadPcs
<1>3. CASE Exists(task[t].job)
  BY <1>1, <1>2, <1>3, GotoStepIs DEF record_section, Outcome, Turns, InSection
<1>4. CASE ~Exists(task[t].job)
  BY <1>1, <1>2, <1>4, GotoStepIs DEF record_section, Outcome, Reads, Turns
<1> QED BY <1>3, <1>4

LEMMA EndOutcome ==
    ASSUME TypeOK, NEW t \in Tasks, mark_applied(t) \/ mark_failed(t)
    PROVE  JobStepIs(t) /\ Outcome(t)
<1>1. /\ task[t].pc \notin DeadPcs /\ ~Locked(task[t].job)
      /\ UNCHANGED <<graph, created>> /\ KeepManager
  BY DEF mark_applied, mark_failed, DeadPcs
<1>2. "leave" \notin DeadPcs /\ "left" \notin DeadPcs
  BY DEF DeadPcs
<1>3. CASE mark_applied(t)
  BY <1>1, <1>2, <1>3, QuitStepIs DEF mark_applied, Outcome, Reads, Writes, Turns
<1>4. CASE mark_failed(t)
  <2>1. CASE Exists(task[t].job)
    BY <1>1, <1>2, <1>4, <2>1, QuitStepIs DEF mark_failed, Outcome, Writes, Turns
  <2>2. CASE ~Exists(task[t].job)
    BY <1>1, <1>2, <1>4, <2>2, QuitStepIs DEF mark_failed, Outcome, Reads, Turns
  <2> QED BY <2>1, <2>2
<1> QED BY <1>3, <1>4

LEMMA RequeueOutcome ==
    ASSUME TypeOK, NEW t \in Tasks,
           mark_after_task_cancel_read(t) \/ mark_after_task_cancel_write(t)
    PROVE  JobStepIs(t) /\ Outcome(t)
<1>1. task[t].pc \notin DeadPcs /\ UNCHANGED <<graph, created>> /\ KeepManager
  BY DEF mark_after_task_cancel_read, mark_after_task_cancel_write, DeadPcs, database
<1>2. Fresh("done").pc = "done" /\ Fresh("done").cancelling = FALSE
  BY AtIs
<1>3. ASSUME task' = [task EXCEPT ![t] = Fresh("done")], current' = NoJob
      PROVE  OnlyTask(t) /\ task'[t] = Fresh("done")
  BY <1>1, <1>2, <1>3 DEF OnlyTask, TypeOK, KeepManager, DeadPcs
<1>4. CASE mark_after_task_cancel_read(t)
  <2>1. task[t].pc = "interrupted" /\ ~task[t].cancelling /\ UNCHANGED job
    BY <1>4 DEF mark_after_task_cancel_read, database
  <2>2. CASE job[task[t].job].status \in DOMAIN AfterTaskCancel
    <3> DEFINE l == [task[t] EXCEPT !.pc = "requeue", !.seen = job[task[t].job].status]
    <3>1. /\ l.pc = "requeue" /\ l.seen = job[task[t].job].status /\ l.job = task[t].job
          /\ l.cancelling = task[t].cancelling
      BY DEF TypeOK, TaskStates
    <3>2. task' = [task EXCEPT ![t] = l] /\ UNCHANGED current
      BY <1>4, <2>2 DEF mark_after_task_cancel_read
    <3> HIDE DEF l
    <3>3. task'[t] = l /\ \A u \in Tasks \ {t} : task'[u] = task[u]
      BY <3>2 DEF TypeOK
    <3>4. OnlyTask(t)
      BY <1>1, <3>1, <3>2, <3>3 DEF OnlyTask, KeepManager, DeadPcs
    <3> QED BY <1>1, <2>1, <2>2, <3>1, <3>3, <3>4 DEF JobStepIs, Outcome, Reads, Turns
  <2>3. CASE job[task[t].job].status \notin DOMAIN AfterTaskCancel
    <3>1. OnlyTask(t) /\ task'[t] = Fresh("done")
      BY <1>3, <1>4, <2>3 DEF mark_after_task_cancel_read
    <3> QED BY <1>1, <1>2, <2>1, <2>3, <3>1 DEF JobStepIs, Outcome, Reads, Turns
  <2> QED BY <2>2, <2>3
<1>5. CASE mark_after_task_cancel_write(t)
  <2>1. task[t].pc = "requeue" /\ ~Locked(task[t].job)
    BY <1>5 DEF mark_after_task_cancel_write
  <2>2. CASE Exists(task[t].job)
    <3>1. /\ SetStatus(task[t].job, AfterTaskCancel[task[t].seen])
          /\ OnlyTask(t) /\ task'[t] = Fresh("done")
      BY <1>3, <1>5, <2>2 DEF mark_after_task_cancel_write
    <3>2. OnCancel(task[t]) = Fresh("done")
      BY <2>1 DEF OnCancel, TryPcs
    <3> QED BY <1>1, <1>2, <2>1, <2>2, <3>1, <3>2 DEF JobStepIs, Outcome, Writes
  <2>3. CASE ~Exists(task[t].job)
    <3>1. Quit(t, "loop_failing") /\ UNCHANGED job /\ "loop_failing" \notin DeadPcs
      BY <1>5, <2>3 DEF mark_after_task_cancel_write, DeadPcs
    <3> QED BY <1>1, <2>1, <2>3, <3>1, QuitStepIs DEF Outcome, Reads, Turns
  <2> QED BY <2>2, <2>3
<1> QED BY <1>4, <1>5

LEMMA JobStepOutcome ==
    ASSUME TypeOK, WorkerInv, NEW t \in Tasks, JobStep(t)
    PROVE  JobStepIs(t) /\ Outcome(t)
BY InterruptOutcome, LoadOutcome, SnapshotOutcome, BeginOutcome, GateOutcome, SubmitOutcome,
   ExtractOutcome, TraceOutcome, RecordOutcome, EndOutcome, RequeueOutcome DEF JobStep

-----------------------------------------------------------------------------
(* WorkerInv is inductive *)

\* A step that changes one living task only.
LEMMA OnlyTaskKeepsWorker ==
    ASSUME TypeOK, WorkerInv, NEW t \in Tasks,
           task[t].pc \notin DeadPcs, UNCHANGED workerTask,
           \A u \in Tasks \ {t} : task'[u] = task[u],
           ~task'[t].cancelling,
           task'[t].pc \notin DeadPcs => task'[t].job = current',
           task'[t].pc \in DeadPcs => current' = NoJob
    PROVE  WorkerInv'
<1>1. workerTask = t /\ \A u \in Tasks \ {t} : task[u].pc \in DeadPcs
  BY DEF WorkerInv, OneWorker, Alive
<1>2. \A u \in Tasks : task'[u].pc \notin DeadPcs => u = t
  BY <1>1
<1>3. OneWorker'
  BY <1>1, <1>2 DEF OneWorker, Alive
<1>4. \A u \in Tasks : task'[u].pc \notin DeadPcs => current' = task'[u].job
  BY <1>2
<1>5. Alive' = {} => current' = NoJob
  BY DEF Alive
<1>6. \A u \in Tasks : task'[u].pc \in DeadPcs => ~task'[u].cancelling
  BY DEF WorkerInv
<1> QED BY <1>3, <1>4, <1>5, <1>6 DEF WorkerInv, Alive

\* What the next job of _worker_loop is, and that the loop goes on.
LEMMA NextJobIs ==
    ASSUME TypeOK, NEW t \in Tasks, NextJob(t)
    PROVE  /\ \A u \in Tasks \ {t} : task'[u] = task[u]
           /\ task'[t].pc \in {"get", "load"} /\ ~task'[t].cancelling
           /\ task'[t].job = current'
           /\ queued' = queued \ {current'}
           /\ current' \in queued => task'[t].pc = "load"
<1>1. CASE queue = <<>>
  <2>1. /\ task' = [task EXCEPT ![t] = Fresh("get")] /\ current' = NoJob
        /\ UNCHANGED queued
    BY <1>1 DEF NextJob
  <2>2. NoJob \notin queued
    BY ConstantsAssumption DEF TypeOK, Jobs, NoJob
  <2> QED BY <2>1, <2>2, AtIs DEF TypeOK
<1>2. CASE queue # <<>>
  <2>1. /\ task' = [task EXCEPT ![t] = At("load", Head(queue))] /\ current' = Head(queue)
        /\ queued' = queued \ {Head(queue)}
    BY <1>2 DEF NextJob
  <2>2. task'[t] = At("load", Head(queue)) /\ \A u \in Tasks \ {t} : task'[u] = task[u]
    BY <2>1 DEF TypeOK
  <2>3. /\ At("load", Head(queue)).pc = "load" /\ At("load", Head(queue)).job = Head(queue)
        /\ At("load", Head(queue)).cancelling = FALSE
    BY DEF At
  <2> QED BY <2>1, <2>2, <2>3
<1> QED BY <1>1, <1>2

LEMMA TaskKeepsWorker ==
    ASSUME TypeOK, WorkerInv, NEW t \in Tasks, TaskStep(t) \/ DbError(t)
    PROVE  WorkerInv'
<1>1. CASE JobStep(t)
  <2>1. JobStepIs(t)
    BY <1>1, JobStepOutcome
  <2>2. task[t].pc \notin DeadPcs => current = task[t].job
    BY DEF WorkerInv, Alive
  <2> QED BY <2>1, <2>2, OnlyTaskKeepsWorker DEF JobStepIs, OnlyTask
<1>2. CASE worker_loop_get(t) \/ worker_loop_finally(t)
  <2>1. NextJob(t) /\ UNCHANGED workerTask /\ task[t].pc \notin DeadPcs
    BY <1>2 DEF worker_loop_get, worker_loop_finally, DeadPcs
  <2>2. task'[t].pc \notin DeadPcs
    BY <2>1, NextJobIs DEF DeadPcs
  <2> QED BY <2>1, <2>2, NextJobIs, OnlyTaskKeepsWorker
<1>3. CASE DbError(t)
  <2> DEFINE pc == OnError(task[t].pc)
  <2>1. /\ task'[t] = At(pc, task[t].job) /\ \A u \in Tasks \ {t} : task'[u] = task[u]
        /\ current' = IF pc = "broken" THEN NoJob ELSE current
        /\ UNCHANGED workerTask /\ task[t].pc \in DbPcs
    BY <1>3 DEF DbError, TypeOK
  <2>2. pc \in {"failing", "loop_failing", "broken"}
    BY <2>1 DEF OnError, DbPcs, TryPcs, HandlerPcs
  <2>3. At(pc, task[t].job).pc = pc /\ At(pc, task[t].job).job = task[t].job
        /\ At(pc, task[t].job).cancelling = FALSE
    BY DEF At
  <2>4. task[t].pc \notin DeadPcs
    BY <2>1 DEF DbPcs, TryPcs, HandlerPcs, DeadPcs
  <2>5. current = task[t].job
    BY <2>4 DEF WorkerInv, Alive
  <2> HIDE DEF pc
  <2>6. pc \in DeadPcs <=> pc = "broken"
    BY <2>2 DEF DeadPcs
  <2> QED BY <2>1, <2>3, <2>4, <2>5, <2>6, OnlyTaskKeepsWorker
<1> QED BY <1>1, <1>2, <1>3 DEF TaskStep, JobStep

LEMMA EnsuredKeepsWorker ==
    ASSUME TypeOK, WorkerInv, NEW w \in Tasks \cup {NoTask}, ensure_worker(w),
           \A u \in Alive : u = w, UNCHANGED current
    PROVE  WorkerInv'
<1>1. CASE workerTask' = w /\ w \in Alive /\ UNCHANGED task
  BY <1>1 DEF WorkerInv, OneWorker, Alive
<1>2. ASSUME Alive = {}, workerTask' \in FreeTasks,
             task' = [task EXCEPT ![workerTask'] = Fresh("get")]
      PROVE  WorkerInv'
  <2>1. Fresh("get").pc = "get" /\ Fresh("get").job = NoJob /\ Fresh("get").cancelling = FALSE
    BY AtIs
  <2>2. workerTask' \in Tasks /\ current' = NoJob /\ \A u \in Tasks : task[u].pc \in DeadPcs
    BY <1>2 DEF FreeTasks, WorkerInv, Alive
  <2>3. /\ task'[workerTask'] = Fresh("get")
        /\ \A u \in Tasks \ {workerTask'} : task'[u] = task[u]
    BY <1>2, <2>2 DEF TypeOK
  <2> QED BY <2>1, <2>2, <2>3 DEF WorkerInv, OneWorker, Alive, DeadPcs
<1> QED BY <1>1, <1>2, EnsureWorkerIs

\* task.cancel() flags the worker, which lives on until its next await.
LEMMA FlagKeepsWorker ==
    ASSUME TypeOK, WorkerInv, NEW w \in Alive,
           task' = [task EXCEPT ![w].cancelling = TRUE], UNCHANGED <<workerTask, current>>
    PROVE  /\ WorkerInv'
           /\ \A u \in Tasks : /\ task'[u].pc = task[u].pc /\ task'[u].job = task[u].job
                               /\ task'[u].seen = task[u].seen
                               /\ task'[u].sec = task[u].sec
                               /\ task'[u].cancelling = (task[u].cancelling \/ u = w)
<1>1. w \in Tasks /\ task[w].pc \notin DeadPcs
  BY DEF Alive
<1>2. \A u \in Tasks : /\ task'[u].pc = task[u].pc /\ task'[u].job = task[u].job
                       /\ task'[u].seen = task[u].seen
                       /\ task'[u].sec = task[u].sec
                       /\ task'[u].cancelling = (task[u].cancelling \/ u = w)
  <2> DEFINE l == [task[w] EXCEPT !.cancelling = TRUE]
  <2>1. \A u \in Tasks : task[u] \in TaskStates /\ task[u].cancelling \in BOOLEAN
    BY DEF TypeOK, TaskStates
  <2>2. /\ l.pc = task[w].pc /\ l.job = task[w].job /\ l.seen = task[w].seen
        /\ l.sec = task[w].sec /\ l.cancelling = TRUE
    BY <1>1, <2>1 DEF TaskStates
  <2>3. task' = [task EXCEPT ![w] = l]
    OBVIOUS
  <2> HIDE DEF l
  <2>4. task'[w] = l /\ \A u \in Tasks \ {w} : task'[u] = task[u]
    BY <1>1, <2>3 DEF TypeOK
  <2>5. ASSUME NEW u \in Tasks
        PROVE  /\ task'[u].pc = task[u].pc /\ task'[u].job = task[u].job
               /\ task'[u].seen = task[u].seen
               /\ task'[u].sec = task[u].sec
               /\ task'[u].cancelling = (task[u].cancelling \/ u = w)
    <3>1. CASE u = w
      BY ONLY <2>2, <2>4, <3>1
    <3>2. CASE u # w
      <4>1. task'[u] = task[u] /\ task[u].cancelling \in BOOLEAN
        BY <2>1, <2>4, <3>2
      <4> QED BY ONLY <4>1, <3>2
    <3> QED BY <3>1, <3>2
  <2> QED BY <2>5
<1>3. WorkerInv'
  BY <1>1, <1>2 DEF WorkerInv, OneWorker, Alive
<1> QED BY <1>2, <1>3

LEMMA RequestKeepsWorker ==
    ASSUME TypeOK, WorkerInv, NEW r \in Requests,
           RequestStep(r) \/ NewRequest(r) \/ AuditError(r)
    PROVE  WorkerInv'
<1>1. CASE KeepWorker
  BY <1>1 DEF KeepWorker, manager, WorkerInv, OneWorker, Alive
<1>2. CASE audit_and_enqueue(r)
  <2>1. ensure_worker(workerTask) /\ UNCHANGED current
    BY <1>2 DEF audit_and_enqueue, enqueue
  <2>2. workerTask \in Tasks \cup {NoTask} /\ \A u \in Alive : u = workerTask
    BY DEF TypeOK, WorkerInv, OneWorker
  <2> QED BY <2>1, <2>2, EnsuredKeepsWorker
<1>3. CASE manager_cancel(r)
  <2>1. CASE UNCHANGED task
    BY <1>3, <2>1 DEF manager_cancel, manager, WorkerInv, OneWorker, Alive
  <2>2. CASE task # task'
    <3>1. /\ workerTask # NoTask /\ task[workerTask].pc \notin DeadPcs
          /\ task' = [task EXCEPT ![workerTask].cancelling = TRUE]
          /\ UNCHANGED <<workerTask, current>>
      BY <1>3, <2>2 DEF manager_cancel, manager
    <3>2. workerTask \in Alive
      BY <3>1 DEF TypeOK, Alive
    <3> QED BY <3>1, <3>2, FlagKeepsWorker
  <2> QED BY <2>1, <2>2
<1>4. CASE manager_cancelled(r)
  <2>1. req[r].task \in Tasks /\ task[req[r].task].pc \in DeadPcs /\ UNCHANGED current
    BY <1>4 DEF manager_cancelled, TypeOK
  <2>2. CASE UNCHANGED <<workerTask, task>>
    BY <2>1, <2>2 DEF WorkerInv, OneWorker, Alive
  <2>3. CASE ensure_worker(KeptWorker(req[r].task))
    BY <2>1, <2>3, KeptWorkerIs, EnsuredKeepsWorker DEF WorkerInv
  <2> QED BY <1>4, <2>2, <2>3 DEF manager_cancelled
<1> QED
  BY <1>1, <1>2, <1>3, <1>4
     DEF RequestStep, NewRequest, AuditError, start_job_check, start_job_create, RowGone,
         retry_job_commit, cancel_job_refresh, cancel_job_settle, pause_job, resume_job,
         retry_job_check, cancel_job

LEMMA ProcessKeepsWorker ==
    ASSUME TypeOK, WorkerInv, start \/ stop \/ stopped \/ Crash
    PROVE  WorkerInv'
<1>1. CASE start
  <2>1. ensure_worker(workerTask) /\ UNCHANGED current
    BY <1>1 DEF start
  <2>2. workerTask \in Tasks \cup {NoTask} /\ \A u \in Alive : u = workerTask
    BY DEF TypeOK, WorkerInv, OneWorker
  <2> QED BY <2>1, <2>2, EnsuredKeepsWorker
<1>2. CASE stop
  <2>1. UNCHANGED <<workerTask, current>>
    BY <1>2 DEF stop, manager
  <2>2. CASE UNCHANGED task
    BY <2>1, <2>2 DEF WorkerInv, OneWorker, Alive
  <2>3. CASE task # task'
    <3>1. /\ workerTask # NoTask /\ task[workerTask].pc \notin DeadPcs
          /\ task' = [task EXCEPT ![workerTask].cancelling = TRUE]
      BY <1>2, <2>3 DEF stop
    <3>2. workerTask \in Alive
      BY <3>1 DEF TypeOK, Alive
    <3> QED BY <2>1, <3>1, <3>2, FlagKeepsWorker
  <2> QED BY <2>2, <2>3
<1>3. CASE stopped \/ Crash
  <2>1. task' = [u \in Tasks |-> Fresh("done")] /\ current' = NoJob
    BY <1>3 DEF stopped, Crash, ForgetMemory
  <2>2. Fresh("done").pc \in DeadPcs /\ Fresh("done").cancelling = FALSE
    BY AtIs DEF DeadPcs
  <2> QED BY <2>1, <2>2 DEF WorkerInv, OneWorker, Alive
<1> QED BY <1>1, <1>2, <1>3

LEMMA WorkerKept == TypeOK /\ WorkerInv /\ [Next]_vars => WorkerInv'
<1> SUFFICES ASSUME TypeOK, WorkerInv, [Next]_vars PROVE WorkerInv'
  OBVIOUS
<1>1. ASSUME NEW d \in Docs, delete_document(d) PROVE WorkerInv'
  BY <1>1 DEF delete_document, KeepWorker, manager, WorkerInv, OneWorker, Alive
<1>2. CASE UNCHANGED vars
  BY <1>2 DEF vars, WorkerInv, OneWorker, Alive
<1> QED
  BY <1>1, <1>2, TaskKeepsWorker, RequestKeepsWorker, ProcessKeepsWorker DEF Next

LEMMA WorkerAtFirst == Init => WorkerInv
<1> SUFFICES ASSUME Init PROVE WorkerInv
  OBVIOUS
<1>1. Fresh("done").pc \in DeadPcs /\ Fresh("done").cancelling = FALSE
  BY AtIs DEF DeadPcs
<1> QED BY <1>1 DEF Init, WorkerInv, OneWorker, Alive

LEMMA WorkerAlways == Spec => []WorkerInv
BY WorkerAtFirst, WorkerKept, TypeCorrect, PTL DEF Spec

-----------------------------------------------------------------------------
(* Every section is counted once, in order *)

\* What a row has recorded, it has begun to record.
RecordedIsBegun == \A j \in Jobs : job[j].offset # 0 => job[j].started /\ Exists(j)

\* What the worker's section says of the row: it stands at the recorded offset
\* between sections and one behind it while it executes one.
CountPcs == {"begin", "gate", "finish"} \cup SectionPcs
Stands(l, row) ==
    row.status # "absent" =>
        /\ l.pc \in {"begin", "gate"} => l.sec = row.offset
        /\ l.pc \in SectionPcs => l.sec = row.offset + 1
        /\ l.pc \in SectionPcs \cup {"gate", "finish"} => row.started
WorkerIsAtRecord ==
    \A t \in Tasks : task[t].job \in Jobs => Stands(task[t], job[task[t].job])

CountInv == CountedOnce /\ RecordedIsBegun /\ WorkerIsAtRecord

\* ProgressInOrder, of one step.
InOrder == \A j \in Jobs : \/ job'[j].offset \in {job[j].offset, job[j].offset + 1}
                           \/ job'[j].status = "absent"

\* A row that keeps its progress, and one that is new or gone.
KeepsProgress(j) ==
    /\ job'[j].offset = job[j].offset /\ job'[j].counted = job[j].counted
    /\ job'[j].started = job[j].started
    /\ job'[j].status = "absent" <=> job[j].status = "absent"
IsReset(j) ==
    /\ job'[j].offset = 0 /\ job'[j].counted = 0
    /\ \/ job'[j].status = "absent"
       \/ job[j].status = "absent" /\ \A u \in Tasks : task[u].job # j

LEMMA RowsStay ==
    ASSUME TypeOK, CountInv, \A j \in Jobs : KeepsProgress(j) \/ IsReset(j)
    PROVE  CountedOnce' /\ RecordedIsBegun' /\ InOrder
<1>1. CountedOnce'
  BY DEF CountInv, CountedOnce, KeepsProgress, IsReset
<1>2. RecordedIsBegun'
  BY DEF CountInv, RecordedIsBegun, Exists, KeepsProgress, IsReset
<1>3. InOrder
  BY DEF CountInv, RecordedIsBegun, Exists, InOrder, KeepsProgress, IsReset
<1> QED BY <1>1, <1>2, <1>3

LEMMA CountsStay ==
    ASSUME TypeOK, CountInv, \A j \in Jobs : KeepsProgress(j) \/ IsReset(j),
           \A u \in Tasks : \/ /\ task'[u].pc = task[u].pc /\ task'[u].sec = task[u].sec
                               /\ task'[u].job = task[u].job
                            \/ task'[u].pc \notin CountPcs
    PROVE  CountInv' /\ InOrder
<1>4. ASSUME NEW u \in Tasks, task'[u].job \in Jobs
      PROVE  Stands(task'[u], job'[task'[u].job])
  <2>1. CASE task'[u].pc \notin CountPcs
    BY <2>1 DEF Stands, CountPcs
  <2>2. CASE task'[u].pc = task[u].pc /\ task'[u].sec = task[u].sec /\ task'[u].job = task[u].job
    <3>1. Stands(task[u], job[task[u].job])
      BY <1>4, <2>2 DEF CountInv, WorkerIsAtRecord
    <3>2. CASE KeepsProgress(task[u].job)
      BY <2>2, <3>1, <3>2 DEF KeepsProgress, Stands
    <3>3. CASE IsReset(task[u].job)
      BY <2>2, <3>3 DEF IsReset, Stands
    <3> QED BY <1>4, <2>2, <3>2, <3>3
  <2> QED BY <2>1, <2>2
<1>5. WorkerIsAtRecord'
  BY <1>4 DEF WorkerIsAtRecord
<1> QED BY <1>5, RowsStay DEF CountInv

LEMMA SetStatusIs ==
    ASSUME TypeOK, NEW j \in Jobs, NEW s, SetStatus(j, s)
    PROVE  /\ \A i \in Jobs : job'[i].status = IF i = j THEN s ELSE job[i].status
           /\ \A i \in Jobs : /\ job'[i].offset = job[i].offset
                              /\ job'[i].counted = job[i].counted
                              /\ job'[i].started = job[i].started
                              /\ job'[i].doc = job[i].doc
           /\ Exists(j) /\ s # "absent" => \A i \in Jobs : KeepsProgress(i)
<1> DEFINE row == [job[j] EXCEPT !.status = s]
<1>1. /\ row.status = s /\ row.offset = job[j].offset /\ row.counted = job[j].counted
      /\ row.started = job[j].started /\ row.doc = job[j].doc
  BY DEF TypeOK, Rows
<1>2. job' = [job EXCEPT ![j] = row]
  BY DEF SetStatus
<1> HIDE DEF row
<1>3. job'[j] = row /\ \A i \in Jobs \ {j} : job'[i] = job[i]
  BY <1>2 DEF TypeOK
<1> QED BY <1>1, <1>3 DEF KeepsProgress, Exists

\* The other tasks stand nowhere: they have ended.
LEMMA OthersStand ==
    ASSUME WorkerInv, NEW t \in Tasks, task[t].pc \notin DeadPcs,
           \A u \in Tasks \ {t} : task'[u] = task[u]
    PROVE  \A u \in Tasks \ {t} : task'[u].pc \notin CountPcs
BY DEF WorkerInv, OneWorker, Alive, DeadPcs, CountPcs, SectionPcs

LEMMA JobStepCounts ==
    ASSUME TypeOK, WorkerInv, CountInv, NEW t \in Tasks, JobStep(t)
    PROVE  CountInv' /\ InOrder
<1> DEFINE j == task[t].job
<1>1. JobStepIs(t) /\ Outcome(t)
  BY JobStepOutcome
<1>2. \A u \in Tasks \ {t} : task'[u].pc \notin CountPcs
  BY <1>1, OthersStand DEF JobStepIs, OnlyTask
<1>3. ASSUME CountedOnce', RecordedIsBegun', InOrder,
             j \in Jobs => Stands(task'[t], job'[j])
      PROVE  CountInv' /\ InOrder
  <2>1. task'[t].pc \in CountPcs => task'[t].job = j
    BY <1>1 DEF JobStepIs, OnlyTask, CountPcs, SectionPcs, DeadPcs
  <2>2. \A u \in Tasks : task'[u].pc \in CountPcs => u = t /\ task'[u].job = j
    BY <1>2, <2>1
  <2>3. ASSUME NEW u \in Tasks, task'[u].job \in Jobs
        PROVE  Stands(task'[u], job'[task'[u].job])
    <3>1. CASE task'[u].pc \in CountPcs
      BY <1>3, <2>2, <2>3, <3>1
    <3>2. CASE task'[u].pc \notin CountPcs
      BY <3>2 DEF Stands, CountPcs
    <3> QED BY <3>1, <3>2
  <2>4. WorkerIsAtRecord'
    BY <2>3 DEF WorkerIsAtRecord
  <2> QED BY <1>3, <2>4 DEF CountInv
<1>4. j \in Jobs => Stands(task[t], job[j])
  BY DEF CountInv, WorkerIsAtRecord
<1>5. task[t].cancelling => task'[t].pc \in {"interrupted", "done"}
  BY <1>1, OnCancelIs DEF JobStepIs
<1>6. (\A i \in Jobs : KeepsProgress(i)) => CountedOnce' /\ RecordedIsBegun' /\ InOrder
  BY RowsStay
<1>7. UNCHANGED job => \A i \in Jobs : KeepsProgress(i)
  BY DEF KeepsProgress
<1>8. task[t].cancelling => \A row : Stands(task'[t], row)
  BY <1>5 DEF Stands, SectionPcs
<1>9. CASE UNCHANGED job /\ Reads(t)
  <2>1. CASE ~task[t].cancelling
    <3>1. j \in Jobs => Stands(task'[t], job[j])
      BY <1>4, <1>9, <2>1 DEF Reads, Turns, InSection, Stands, SectionPcs, Exists
    <3> QED BY <1>3, <1>6, <1>7, <1>9, <3>1
  <2>2. CASE task[t].cancelling
    BY <1>3, <1>6, <1>7, <1>8, <1>9, <2>2
  <2> QED BY <2>1, <2>2
<1>10. CASE Writes(t)
  <2>1. task'[t].pc \in {"leave", "left", "done", "interrupted"}
    BY <1>5, <1>10 DEF Writes, Turns
  <2>2. Stands(task'[t], job'[j])
    BY <2>1 DEF Stands, SectionPcs
  <2>3. j \in Jobs /\ (task[t].pc = "requeue" => task[t].seen \in DOMAIN AfterTaskCancel)
    BY <1>10 DEF Writes, Turns, TypeOK, TryPcs, HandlerPcs
  <2>4. task[t].pc = "requeue" => AfterTaskCancel[task[t].seen] # "absent"
    BY <2>3 DEF AfterTaskCancel
  <2>5. \E s : SetStatus(j, s) /\ Exists(j) /\ s # "absent"
    BY <1>10, <2>4 DEF Writes, Exists
  <2>6. \A i \in Jobs : KeepsProgress(i)
    BY <2>3, <2>5, SetStatusIs
  <2> QED BY <1>3, <1>6, <2>2, <2>6
<1>11. CASE UNCHANGED job /\ Turns(t, "extract", "extract") /\ InSection(t, task[t].sec)
  <2>1. j \in Jobs => Stands(task'[t], job[j])
    BY <1>4, <1>8, <1>11 DEF Turns, InSection, Stands, SectionPcs
  <2> QED BY <1>3, <1>6, <1>7, <1>11, <2>1
<1>12. CASE /\ Turns(t, "begin", "gate") /\ InSection(t, task[t].sec)
            /\ job[j].status \in RUNNABLE /\ job' = [job EXCEPT ![j] = Begun(@)]
  <2>1. j \in Jobs
    BY <1>12 DEF Turns, TypeOK, TryPcs
  <2>2. job'[j] = Begun(job[j]) /\ \A i \in Jobs \ {j} : job'[i] = job[i]
    BY <1>12, <2>1 DEF TypeOK
  <2>3. /\ job[j].counted = job[j].offset /\ job[j].started \in BOOLEAN
        /\ job[j].offset # 0 => job[j].started
        /\ Exists(j)
    BY <1>12, <2>1 DEF CountInv, CountedOnce, RecordedIsBegun, TypeOK, Rows, Exists, RUNNABLE
  <2>4. /\ Begun(job[j]).status = "analyzing" /\ Begun(job[j]).started = TRUE
        /\ Begun(job[j]).offset = job[j].offset /\ Begun(job[j]).counted = job[j].offset
    BY <2>1, <2>3 DEF Begun, TypeOK, Rows
  <2>5. CountedOnce'
    BY <2>2, <2>4 DEF CountInv, CountedOnce
  <2>6. RecordedIsBegun'
    BY <2>2, <2>4 DEF CountInv, RecordedIsBegun, Exists
  <2>7. InOrder
    BY <2>2, <2>4 DEF InOrder
  <2>8. Stands(task'[t], job'[j])
    BY <1>4, <1>8, <1>12, <2>1, <2>2, <2>3, <2>4 DEF Turns, InSection, Stands, SectionPcs, Exists
  <2> QED BY <1>3, <2>5, <2>6, <2>7, <2>8
<1>13. CASE /\ Turns(t, "record", "gate") /\ InSection(t, task[t].sec)
            /\ Exists(j) /\ job' = [job EXCEPT ![j] = Recorded(@, task[t].sec)]
  <2>1. j \in Jobs
    BY <1>13 DEF Turns, TypeOK, TryPcs
  <2>2. job'[j] = Recorded(job[j], task[t].sec) /\ \A i \in Jobs \ {j} : job'[i] = job[i]
    BY <1>13, <2>1 DEF TypeOK
  <2>3. /\ job[j].counted = job[j].offset /\ job[j].offset \in Nat
        /\ task[t].sec = job[j].offset + 1 /\ job[j].started
    BY <1>4, <1>13, <2>1
       DEF CountInv, CountedOnce, TypeOK, Rows, Stands, Exists, Turns, SectionPcs
  <2>4. /\ Recorded(job[j], task[t].sec).status = job[j].status
        /\ Recorded(job[j], task[t].sec).started = job[j].started
        /\ Recorded(job[j], task[t].sec).offset = task[t].sec
        /\ Recorded(job[j], task[t].sec).counted = task[t].sec
    BY <2>1, <2>3 DEF Recorded, TypeOK, Rows
  <2>5. CountedOnce'
    BY <2>2, <2>4 DEF CountInv, CountedOnce
  <2>6. RecordedIsBegun'
    <3>1. job'[j].started /\ job'[j].status # "absent"
      BY <1>13, <2>2, <2>3, <2>4 DEF Exists
    <3>2. \A i \in Jobs \ {j} : job'[i].offset # 0 => job'[i].started /\ job'[i].status # "absent"
      BY <2>2 DEF CountInv, RecordedIsBegun, Exists
    <3> QED BY <3>1, <3>2 DEF RecordedIsBegun, Exists
  <2>7. InOrder
    BY <2>2, <2>3, <2>4 DEF InOrder
  <2>8. Stands(task'[t], job'[j])
    BY <1>8, <1>13, <2>1, <2>2, <2>3, <2>4 DEF Turns, InSection, Stands, SectionPcs
  <2> QED BY <1>3, <2>5, <2>6, <2>7, <2>8
<1> QED BY <1>1, <1>9, <1>10, <1>11, <1>12, <1>13 DEF Outcome

LEMMA TaskCounts ==
    ASSUME TypeOK, WorkerInv, CountInv, NEW t \in Tasks, TaskStep(t) \/ DbError(t)
    PROVE  CountInv' /\ InOrder
<1>1. CASE worker_loop_get(t) \/ worker_loop_finally(t) \/ DbError(t)
  <2>1. UNCHANGED job /\ \A u \in Tasks \ {t} : task'[u] = task[u]
    BY <1>1, NextJobIs
       DEF worker_loop_get, worker_loop_finally, DbError, database, TypeOK
  <2>2. task'[t].pc \notin CountPcs
    <3>1. CASE NextJob(t)
      BY <3>1, NextJobIs DEF CountPcs, SectionPcs
    <3>2. CASE DbError(t)
      <4>1. task'[t] = At(OnError(task[t].pc), task[t].job)
        BY <3>2 DEF DbError, TypeOK
      <4>2. OnError(task[t].pc) \in {"failing", "loop_failing", "broken"}
        BY <3>2 DEF OnError, DbError, DbPcs, TryPcs, HandlerPcs
      <4> QED BY <4>1, <4>2 DEF At, CountPcs, SectionPcs
    <3> QED BY <1>1, <3>1, <3>2 DEF worker_loop_get, worker_loop_finally
  <2> QED BY <2>1, <2>2, CountsStay DEF KeepsProgress
<1> QED BY <1>1, JobStepCounts DEF TaskStep, JobStep

\* What the tasks of a handler's or the process's step are: as they were, or
\* fresh ones, or with a flag.
SameTask(u) ==
    \/ /\ task'[u].pc = task[u].pc /\ task'[u].sec = task[u].sec
       /\ task'[u].job = task[u].job
    \/ task'[u].pc \notin CountPcs

LEMMA EnsuredStands ==
    ASSUME TypeOK, NEW w \in Tasks \cup {NoTask}, ensure_worker(w), \A u \in Alive : u = w
    PROVE  \A u \in Tasks : SameTask(u)
<1>1. Fresh("get").pc \notin CountPcs
  BY DEF Fresh, At, CountPcs, SectionPcs
<1>2. \A u \in Tasks : task'[u] = task[u] \/ task'[u] = Fresh("get")
  BY EnsureWorkerIs DEF TypeOK
<1> QED BY <1>1, <1>2 DEF SameTask

LEMMA HandlerStands ==
    ASSUME TypeOK, WorkerInv, NEW r \in Requests,
           RequestStep(r) \/ NewRequest(r) \/ AuditError(r)
    PROVE  \A u \in Tasks : SameTask(u)
<1>1. CASE UNCHANGED task
  BY <1>1 DEF SameTask
<1>2. CASE audit_and_enqueue(r)
  <2>1. ensure_worker(workerTask)
    BY <1>2 DEF audit_and_enqueue, enqueue
  <2> QED BY <2>1, EnsuredStands DEF TypeOK, WorkerInv, OneWorker
<1>3. CASE manager_cancel(r) /\ task # task'
  <2>1. /\ workerTask # NoTask /\ task[workerTask].pc \notin DeadPcs
        /\ task' = [task EXCEPT ![workerTask].cancelling = TRUE]
        /\ UNCHANGED <<workerTask, current>>
    BY <1>3 DEF manager_cancel, manager
  <2>2. workerTask \in Alive
    BY <2>1 DEF TypeOK, Alive
  <2> QED BY <2>1, <2>2, FlagKeepsWorker DEF SameTask
<1>4. CASE manager_cancelled(r) /\ task # task'
  <2>1. req[r].task \in Tasks /\ task[req[r].task].pc \in DeadPcs
        /\ ensure_worker(KeptWorker(req[r].task))
    BY <1>4 DEF manager_cancelled, TypeOK
  <2> QED BY <2>1, KeptWorkerIs, EnsuredStands DEF WorkerInv
<1> QED
  BY <1>1, <1>2, <1>3, <1>4
     DEF RequestStep, NewRequest, AuditError, start_job_check, start_job_create, RowGone,
         retry_job_commit, cancel_job_refresh, cancel_job_settle, pause_job, resume_job,
         retry_job_check, cancel_job, KeepWorker

LEMMA HandlerCounts ==
    ASSUME TypeOK, ProgressInv, WorkerInv, CountInv, NEW r \in Requests,
           RequestStep(r) \/ NewRequest(r) \/ AuditError(r)
    PROVE  CountInv' /\ InOrder
<1>1. \A u \in Tasks : SameTask(u)
  BY HandlerStands
<1>2. SUFFICES \A j \in Jobs : KeepsProgress(j) \/ IsReset(j)
  BY <1>1, CountsStay DEF SameTask
<1>3. CASE UNCHANGED job
  BY <1>3 DEF KeepsProgress
<1>4. CASE start_job_create(r) /\ job # job'
  <2>1. /\ created < MaxJobs /\ job' = [job EXCEPT ![created + 1] = Row(req[r].doc, "queued")]
    BY <1>4 DEF start_job_create
  <2>2. created + 1 \in Jobs /\ created \in Nat
    BY <2>1, ConstantsAssumption DEF TypeOK, Jobs
  <2>3. job'[created + 1] = Row(req[r].doc, "queued") /\ \A i \in Jobs \ {created + 1} : job'[i] = job[i]
    BY <2>1, <2>2 DEF TypeOK
  <2>4. ~Exists(created + 1) /\ \A u \in Tasks : task[u].job # created + 1
    <3>1. ~(created + 1 <= created)
      BY <2>2
    <3> QED BY <2>2, <3>1 DEF ProgressInv, ReferencesAreCreated
  <2>5. IsReset(created + 1)
    BY <2>3, <2>4 DEF IsReset, Row, Exists
  <2> QED BY <2>3, <2>5 DEF KeepsProgress
<1>5. ASSUME NEW j \in Jobs, NEW s, SetStatus(j, s), Exists(j), s # "absent"
      PROVE  \A i \in Jobs : KeepsProgress(i)
  BY <1>5, SetStatusIs
<1>6. CASE retry_job_commit(r)
  BY <1>5, <1>6 DEF retry_job_commit, ProgressInv, RetryHasRow, TypeOK
<1>7. CASE cancel_job_settle(r) /\ job # job'
  BY <1>5, <1>7 DEF cancel_job_settle, TypeOK
<1>8. ASSUME NEW j \in Jobs, pause_job(r, j) \/ resume_job(r, j) \/ cancel_job(r, j)
      PROVE  \A i \in Jobs : KeepsProgress(i)
  BY <1>5, <1>8 DEF pause_job, resume_job, cancel_job, Exists
<1> QED
  BY <1>3, <1>4, <1>6, <1>7, <1>8
     DEF RequestStep, NewRequest, AuditError, start_job_check, RowGone, audit_and_enqueue,
         manager_cancel, manager_cancelled, cancel_job_refresh, retry_job_check, database

LEMMA ProcessCounts ==
    ASSUME TypeOK, WorkerInv, CountInv, start \/ stop \/ stopped \/ Crash
    PROVE  CountInv' /\ InOrder
<1>1. CASE start
  <2>1. ensure_worker(workerTask) /\ job' = Recovered
    BY <1>1 DEF start
  <2>2. \A u \in Tasks : SameTask(u)
    BY <2>1, EnsuredStands DEF TypeOK, WorkerInv, OneWorker
  <2>3. \A j \in Jobs : KeepsProgress(j)
    BY <2>1 DEF Recovered, KeepsProgress, TypeOK, Rows
  <2> QED BY <2>2, <2>3, CountsStay DEF SameTask
<1>2. CASE stop
  <2>1. UNCHANGED <<job, workerTask, current>>
    BY <1>2 DEF stop, database, manager
  <2>2. \A u \in Tasks : SameTask(u)
    <3>1. CASE UNCHANGED task
      BY <3>1 DEF SameTask
    <3>2. CASE task # task'
      <4>1. /\ workerTask # NoTask /\ task[workerTask].pc \notin DeadPcs
            /\ task' = [task EXCEPT ![workerTask].cancelling = TRUE]
        BY <1>2, <3>2 DEF stop
      <4>2. workerTask \in Alive
        BY <4>1 DEF TypeOK, Alive
      <4> QED BY <2>1, <4>1, <4>2, FlagKeepsWorker DEF SameTask
    <3> QED BY <3>1, <3>2
  <2> QED BY <2>1, <2>2, CountsStay DEF SameTask, KeepsProgress
<1>3. CASE stopped \/ Crash
  <2>1. task' = [u \in Tasks |-> Fresh("done")] /\ UNCHANGED job
    BY <1>3 DEF stopped, Crash, ForgetMemory, database
  <2>2. Fresh("done").pc \notin CountPcs
    BY DEF Fresh, At, CountPcs, SectionPcs
  <2> QED BY <2>1, <2>2, CountsStay DEF KeepsProgress
<1> QED BY <1>1, <1>2, <1>3

LEMMA CountsKept ==
    TypeOK /\ ProgressInv /\ WorkerInv /\ CountInv /\ [Next]_vars => CountInv' /\ InOrder
<1> SUFFICES ASSUME TypeOK, ProgressInv, WorkerInv, CountInv, [Next]_vars
             PROVE  CountInv' /\ InOrder
  OBVIOUS
<1>1. ASSUME NEW d \in Docs, delete_document(d) PROVE CountInv' /\ InOrder
  <2>1. UNCHANGED task
    BY <1>1 DEF delete_document, KeepWorker
  <2>2. \A j \in Jobs : job'[j] = job[j] \/ job'[j] = Row(NoDoc, "absent")
    BY <1>1 DEF delete_document
  <2>3. \A j \in Jobs : KeepsProgress(j) \/ IsReset(j)
    BY <2>2 DEF KeepsProgress, IsReset, Row
  <2> QED BY <2>1, <2>3, CountsStay
<1>2. CASE UNCHANGED vars
  BY <1>2, CountsStay DEF vars, KeepsProgress
<1> QED BY <1>1, <1>2, TaskCounts, HandlerCounts, ProcessCounts DEF Next

LEMMA CountsAtFirst == Init => CountInv
<1> SUFFICES ASSUME Init PROVE CountInv
  OBVIOUS
<1>1. \A j \in Jobs : job[j].offset = 0 /\ job[j].counted = 0 /\ job[j].status = "absent"
  BY DEF Init, Row
<1> QED BY <1>1 DEF CountInv, CountedOnce, RecordedIsBegun, WorkerIsAtRecord, Stands

LEMMA CountsAlways == Spec => [](WorkerInv /\ CountInv)
BY CountsAtFirst, CountsKept, TypeCorrect, ProgressAlways, WorkerAlways, PTL DEF Spec

\* The counters that record_graph_organizing_section adds up are those of the
\* recorded sections, each once, and one worker task at most adds them: after
\* kills, cancellations, failing calls, retries and sections run again.
THEOREM SectionsAreCountedOnce == Spec => []CountedByOneWorker
<1>1. WorkerInv /\ CountInv => CountedByOneWorker
  BY DEF WorkerInv, CountInv, CountedByOneWorker
<1> QED BY <1>1, CountsAlways, PTL

\* current_offset advances by one section at a time and never falls back,
\* whatever resumes, retries and recoveries (start()) come in between.
THEOREM SectionsAreInOrder == Spec => ProgressInOrder
<1>1. TypeOK /\ ProgressInv /\ WorkerInv /\ CountInv /\ [Next]_vars
      => [\A j \in Jobs : \/ job'[j].offset \in {job[j].offset, job[j].offset + 1}
                          \/ job'[j].status = "absent"]_vars
  BY CountsKept DEF InOrder
<1> QED
  BY <1>1, CountsAlways, TypeCorrect, ProgressAlways, PTL DEF Spec, ProgressInOrder
=============================================================================
