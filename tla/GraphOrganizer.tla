--------------------------- MODULE GraphOrganizer ---------------------------
(***************************************************************************)
(* The automatic TXT-to-graph organizing queue: the PostgreSQL job rows,   *)
(* the in-memory queue of GraphOrganizerTaskManager, the worker task that  *)
(* executes one job at a time section by section, the administrator's      *)
(* routes (start, pause, resume, retry, cancel, delete the document), and  *)
(* the process that crashes, shuts down and starts again.                  *)
(*                                                                         *)
(* A database transaction is one atomic step; every await between two of   *)
(* them is a program-counter value, so that another coroutine can run      *)
(* there.  A cancelled task (task.cancel()) has the CancelledError raised  *)
(* at the await it is in: the call in flight there took effect or not.     *)
(*                                                                         *)
(* A definition named after another one and a fault (enqueue_again,        *)
(* Remaining_one_too_few) is what that code would be with the fault; no    *)
(* behaviour of Spec uses it.                                              *)
(***************************************************************************)
EXTENDS Integers, Sequences

CONSTANTS
    NumDocs,      \* knowledge documents
    Deletable,    \* bound: those of them an administrator may delete
    MaxJobs,      \* bound: how many job rows are ever created
    NumSections,  \* sections of every document's text
    MaxAttempts,  \* Agent Sessions per section before the job fails
    Requests,     \* HTTP handlers that may be in flight at once
    MaxTasks,     \* bound: worker tasks that are alive or still referenced
    MaxCrashes,   \* bound: how often the process is killed
    MaxDbErrors,  \* bound: how many database calls raise
    SetupFails    \* may the credential, its key or the text be unusable?

ASSUME ConstantsAssumption ==
    /\ NumDocs \in Nat \ {0}
    /\ Deletable \subseteq 1 .. NumDocs
    /\ MaxJobs \in Nat \ {0}
    /\ NumSections \in Nat \ {0}
    /\ MaxAttempts \in Nat \ {0}
    /\ MaxTasks \in Nat \ {0}
    /\ MaxCrashes \in Nat
    /\ MaxDbErrors \in Nat
    /\ SetupFails \in BOOLEAN

VARIABLES
    job,         \* graph_organizing_jobs, by job number in creation order
    created,     \* how many jobs were created
    docs,        \* knowledge_documents that exist
    graph,       \* Neo4j: the sections whose rules a job has committed
    traced,      \* the sections of a job with a "completed" trace row
    phase,       \* the process: "down", "up" or "stopping"
    queue,       \* GraphOrganizerTaskManager._queue
    queued,      \* ... ._queued
    workerTask,  \* ... ._worker_task
    current,     \* ... ._current_job_id
    task,        \* the worker tasks: program counter and locals
    req,         \* the HTTP handlers: program counter and locals
    crashes, dbErrors  \* the budgets spent

vars == <<job, created, docs, graph, traced, phase, queue, queued, workerTask,
          current, task, req, crashes, dbErrors>>
database == <<job, created, docs, traced>>
manager == <<queue, queued, workerTask, current>>
budgets == <<crashes, dbErrors>>

Jobs == 1 .. MaxJobs
Sections == 1 .. NumSections
Tasks == 1 .. MaxTasks
Docs == 1 .. NumDocs
NoJob == 0
NoTask == 0
NoDoc == 0

RUNNABLE == {"queued", "analyzing"}
UNFINISHED == {"queued", "analyzing", "pause_requested", "paused",
               "cancel_requested"}
Statuses == UNFINISHED \cup {"absent", "cancelled", "failed", "applied"}

\* A row: current_offset counts sections, counted is how many sections the
\* counters (rules_extracted, ignored_sections, ...) have summed up.
Row(d, s) == [doc |-> d, status |-> s, offset |-> 0, counted |-> 0,
              started |-> FALSE]
Exists(j) == job[j].status # "absent"

\* A worker task that is not alive: it returned or was cancelled ("done"), or
\* it ended with an exception ("broken").
DeadPcs == {"done", "broken"}
\* Inside the try of execute_graph_organizing_job.
TryPcs == {"load", "snapshot", "begin", "gate", "extract", "trace_ok",
           "trace_failed", "record", "finish", "leave"}
\* Busy with the section sec.
SectionPcs == {"extract", "trace_ok", "trace_failed", "record"}
HandlerPcs == {"failing", "interrupted", "requeue", "loop_failing", "left"}
RequestPcs == {"idle", "create", "enqueue", "retry", "signal", "await", "refresh",
               "settle"}
TaskPcs == DeadPcs \cup {"get"} \cup TryPcs \cup HandlerPcs
\* The awaits on PostgreSQL, each of which may raise.
DbPcs == (TryPcs \ {"extract", "leave"}) \cup (HandlerPcs \ {"left"})

\* The locals of a worker task at pc, with job j (and nothing else) in hand.
At(pc, j) == [pc |-> pc, job |-> j, sec |-> 0, attempt |-> 0,
              submitted |-> FALSE, again |-> FALSE, seen |-> "absent",
              cancelling |-> FALSE]
Fresh(pc) == At(pc, NoJob)
Idle == [pc |-> "idle", job |-> NoJob, doc |-> NoDoc, task |-> NoTask]

Active(d) == \E j \in Jobs : job[j].status \in UNFINISHED /\ job[j].doc = d
\* retry_graph_organizing_job holds the row lock while it looks for others.
Locked(j) == \E r \in Requests : req[r].pc = "retry" /\ req[r].job = j

Init ==
    /\ job = [j \in Jobs |-> Row(NoDoc, "absent")]
    /\ created = 0
    /\ docs = Docs
    /\ graph = [j \in Jobs |-> {}]
    /\ traced = [j \in Jobs |-> {}]
    /\ phase = "down"
    /\ queue = <<>> /\ queued = {} /\ workerTask = NoTask /\ current = NoJob
    /\ task = [t \in Tasks |-> Fresh("done")]
    /\ req = [r \in Requests |-> Idle]
    /\ crashes = 0 /\ dbErrors = 0

-----------------------------------------------------------------------------
(* GraphOrganizerTaskManager *)

FreeTasks == {t \in Tasks : /\ task[t].pc \in DeadPcs
                            /\ t # workerTask
                            /\ \A r \in Requests : req[r].task # t}

\* _ensure_worker, when _worker_task is wt: a new task when it is None or done.
ensure_worker(wt) ==
    IF wt = NoTask \/ task[wt].pc \in DeadPcs
    THEN \E t \in FreeTasks :
            /\ \A u \in FreeTasks : t <= u
            /\ workerTask' = t
            /\ task' = [task EXCEPT ![t] = Fresh("get")]
    ELSE workerTask' = wt /\ UNCHANGED task

enqueue_again(j) ==
    /\ ensure_worker(workerTask)
    /\ queued' = queued \cup {j} /\ queue' = Append(queue, j)
    /\ UNCHANGED current
enqueue(j) ==
    /\ ensure_worker(workerTask)
    /\ IF j \in queued
       THEN UNCHANGED <<queue, queued>>
       ELSE /\ queued' = queued \cup {j}
            /\ queue' = Append(queue, j)
    /\ UNCHANGED current

Recovered_keeps_analyzing ==
    [j \in Jobs |->
        [job[j] EXCEPT !.status = CASE @ = "pause_requested" -> "paused"
                                    [] @ = "cancel_requested" -> "cancelled"
                                    [] OTHER -> @]]
\* The rows start() finds, as it leaves them.
Recovered ==
    [j \in Jobs |->
        [job[j] EXCEPT !.status = CASE @ = "analyzing" -> "queued"
                                    [] @ = "pause_requested" -> "paused"
                                    [] @ = "cancel_requested" -> "cancelled"
                                    [] OTHER -> @]]

\* The sequences that hold each job of S once, oldest first.
InCreationOrder(S) ==
    {q \in UNION {[1 .. n -> S] : n \in 0 .. MaxJobs} :
        /\ \A a, b \in DOMAIN q : a < b => q[a] < q[b]
        /\ \A j \in S : \E a \in DOMAIN q : q[a] = j}

\* start(): no request is served and nothing is queued before it returns.
start ==
    /\ phase = "down"
    /\ phase' = "up"
    /\ job' = Recovered
    /\ ensure_worker(workerTask)
    /\ queued' = {j \in Jobs : Recovered[j].status = "queued"}
    /\ queue' \in InCreationOrder(queued')
    /\ UNCHANGED <<created, docs, graph, traced, current, req, budgets>>

\* stop(): uvicorn has drained the requests; the worker is cancelled ...
stop ==
    /\ phase = "up"
    /\ \A r \in Requests : req[r].pc = "idle"
    /\ phase' = "stopping"
    /\ task' = IF workerTask = NoTask \/ task[workerTask].pc \in DeadPcs
               THEN task
               ELSE [task EXCEPT ![workerTask].cancelling = TRUE]
    /\ UNCHANGED <<database, graph, manager, req, budgets>>

ForgetMemory ==
    /\ phase' = "down"
    /\ queue' = <<>> /\ queued' = {} /\ workerTask' = NoTask /\ current' = NoJob
    /\ task' = [t \in Tasks |-> Fresh("done")]
    /\ req' = [r \in Requests |-> Idle]

\* ... awaited, and the process ends.
stopped ==
    /\ phase = "stopping"
    /\ workerTask # NoTask => task[workerTask].pc \in DeadPcs
    /\ ForgetMemory
    /\ UNCHANGED <<database, graph, budgets>>

\* The process is killed: memory is lost, the databases keep what was committed.
Crash ==
    /\ phase # "down"
    /\ crashes < MaxCrashes
    /\ crashes' = crashes + 1
    /\ ForgetMemory
    /\ UNCHANGED <<database, graph, dbErrors>>

-----------------------------------------------------------------------------
(* The worker task: _worker_loop and execute_graph_organizing_job *)

\* Where a CancelledError takes a task with the locals l: the handlers of
\* execute_graph_organizing_job guard its try only, _worker_loop has none.
OnCancel(l) == IF l.pc \in TryPcs THEN At("interrupted", l.job) ELSE Fresh("done")

\* The await at which t is completes and t goes on with the locals l; when t
\* is being cancelled the call took effect but its result is not seen.
Resume(t, l) ==
    /\ task' = [task EXCEPT ![t] =
                  IF task[t].cancelling THEN OnCancel(@) ELSE l]
    /\ current' = IF task[t].cancelling /\ OnCancel(task[t]).pc = "done"
                  THEN NoJob ELSE current
Goto(t, pc) == Resume(t, [task[t] EXCEPT !.pc = pc])
Quit(t, pc) == Resume(t, At(pc, task[t].job))
KeepManager == UNCHANGED <<queue, queued, workerTask, phase, req, budgets>>
SetStatus(j, s) == job' = [job EXCEPT ![j].status = s]

\* The CancelledError arrives and the call in flight had no effect.
Interrupt(t) ==
    /\ task[t].cancelling
    /\ task' = [task EXCEPT ![t] = OnCancel(@)]
    /\ current' = IF OnCancel(task[t]).pc = "done" THEN NoJob ELSE current
    /\ UNCHANGED <<database, graph>> /\ KeepManager

\* job_id = await self._queue.get(): it does not yield when there is an item.
NextJob(t) ==
    IF queue = <<>>
    THEN /\ task' = [task EXCEPT ![t] = Fresh("get")]
         /\ current' = NoJob
         /\ UNCHANGED <<queue, queued>>
    ELSE /\ task' = [task EXCEPT ![t] = At("load", Head(queue))]
         /\ current' = Head(queue)
         /\ queue' = Tail(queue)
         /\ queued' = queued \ {Head(queue)}

worker_loop_get(t) ==
    /\ task[t].pc = "get" /\ queue # <<>> /\ ~task[t].cancelling
    /\ NextJob(t)
    /\ UNCHANGED <<database, graph, workerTask, phase, req, budgets>>

\* The finally of _worker_loop, after execute_graph_organizing_job returned.
worker_loop_finally(t) ==
    /\ task[t].pc \in {"leave", "left"} /\ ~task[t].cancelling
    /\ NextJob(t)
    /\ UNCHANGED <<database, graph, workerTask, phase, req, budgets>>

load_job_inputs(t) ==
    /\ task[t].pc = "load"
    /\ IF job[task[t].job].status \notin RUNNABLE
       THEN Quit(t, "leave")
       ELSE \/ Goto(t, "snapshot")
            \/ SetupFails /\ Quit(t, "failing")
    /\ UNCHANGED <<database, graph>> /\ KeepManager

\* _job_snapshot gives resume_offset; then the text is decoded and split.
job_snapshot(t) ==
    /\ task[t].pc = "snapshot"
    /\ IF ~Exists(task[t].job)
       THEN Quit(t, "leave")
       ELSE \/ Resume(t, [task[t] EXCEPT !.pc = "begin",
                                         !.sec = job[task[t].job].offset])
            \/ SetupFails /\ Quit(t, "failing")
    /\ UNCHANGED <<database, graph>> /\ KeepManager

Begun_resets_progress(row) == [row EXCEPT !.status = "analyzing", !.offset = 0]
\* The row of a job that begins: a first start resets the progress.
Begun(row) ==
    IF row.started
    THEN [row EXCEPT !.status = "analyzing"]
    ELSE [row EXCEPT !.status = "analyzing", !.started = TRUE,
                     !.offset = 0, !.counted = 0]

begin_analysis_unchecked(t) ==
    LET j == task[t].job IN
    /\ task[t].pc = "begin" /\ ~Locked(j)
    /\ IF Exists(j) THEN job' = [job EXCEPT ![j] = Begun(@)] ELSE UNCHANGED job
    /\ Goto(t, "gate")
    /\ UNCHANGED <<created, docs, traced, graph>> /\ KeepManager
begin_analysis(t) ==
    LET j == task[t].job IN
    /\ task[t].pc = "begin" /\ ~Locked(j)
    /\ IF job[j].status \notin RUNNABLE
       THEN Quit(t, "leave") /\ UNCHANGED job
       ELSE job' = [job EXCEPT ![j] = Begun(@)] /\ Goto(t, "gate")
    /\ UNCHANGED <<created, docs, traced, graph>> /\ KeepManager

\* A new Agent Session for section s.
Session(l, s, n) == [l EXCEPT !.pc = "extract", !.sec = s, !.attempt = n,
                              !.again = FALSE]

\* for offset in range(resume_offset, len(sections)): is there another one?
Remaining_one_too_many(sec) == sec <= NumSections
Remaining_one_too_few(sec) == sec + 1 < NumSections
Remaining(sec) == sec < NumSections

\* sec is the last section done: go on with the next one, or finish.
pause_at_section_boundary(t) ==
    LET j == task[t].job IN
    /\ task[t].pc = "gate" /\ ~Locked(j)
    /\ \/ job[j].status = "pause_requested" /\ SetStatus(j, "paused")
                                            /\ Quit(t, "leave")
       \/ job[j].status = "cancel_requested" /\ SetStatus(j, "cancelled")
                                             /\ Quit(t, "leave")
       \/ /\ job[j].status = "analyzing"
          /\ IF Remaining(task[t].sec)
             THEN Resume(t, Session(task[t], task[t].sec + 1, 1))
             ELSE Goto(t, "finish")
          /\ UNCHANGED job
       \/ /\ job[j].status \notin {"pause_requested", "cancel_requested", "analyzing"}
          /\ Quit(t, "leave") /\ UNCHANGED job
    /\ UNCHANGED <<created, docs, traced, graph>> /\ KeepManager

\* submit_rule_graph: one Neo4j transaction; the Session may go on after it.
submit_rule_graph(t) ==
    /\ task[t].pc = "extract"
    /\ graph' = [graph EXCEPT ![task[t].job] = @ \cup {task[t].sec}]
    /\ Resume(t, [task[t] EXCEPT !.submitted = TRUE])
    /\ UNCHANGED database /\ KeepManager

\* finalize(): was a rule graph submitted in this Session?
Finalized_always(l) == TRUE
Finalized(l) == l.submitted

\* The Session ends: finalize() wants a submission; otherwise, and on a
\* provider error or the section's timeout, GraphOrganizerModelError.
extract_graph_section(t) ==
    /\ task[t].pc = "extract" /\ ~task[t].cancelling
    /\ \/ /\ Finalized(task[t])
          /\ Resume(t, [task[t] EXCEPT !.pc = "trace_ok", !.submitted = FALSE])
       \/ \E again \in BOOLEAN :
             Resume(t, [task[t] EXCEPT !.pc = "trace_failed", !.again = again,
                                       !.submitted = FALSE])
    /\ UNCHANGED <<database, graph>> /\ KeepManager

\* The trace row references the job: without it the INSERT raises.
record_trace_completed(t) ==
    LET j == task[t].job IN
    /\ task[t].pc = "trace_ok"
    /\ IF Exists(j)
       THEN /\ traced' = [traced EXCEPT ![j] = @ \cup {task[t].sec}]
            /\ Goto(t, "record")
       ELSE Quit(t, "failing") /\ UNCHANGED traced
    /\ UNCHANGED <<job, created, docs, graph>> /\ KeepManager

record_trace_failed(t) ==
    /\ task[t].pc = "trace_failed"
    /\ IF Exists(task[t].job) /\ task[t].again /\ task[t].attempt < MaxAttempts
       THEN Resume(t, Session(task[t], task[t].sec, task[t].attempt + 1))
       ELSE Quit(t, "failing")
    /\ UNCHANGED <<database, graph>> /\ KeepManager

\* Offset and counters go in one commit.
Recorded(row, sec) == [row EXCEPT !.offset = sec, !.counted = @ + 1]

record_section(t) ==
    LET j == task[t].job IN
    /\ task[t].pc = "record" /\ ~Locked(j)
    /\ IF Exists(j)
       THEN job' = [job EXCEPT ![j] = Recorded(@, task[t].sec)]
       ELSE UNCHANGED job
    /\ Goto(t, "gate")
    /\ UNCHANGED <<created, docs, traced, graph>> /\ KeepManager

mark_applied_only_analyzing(t) ==
    LET j == task[t].job IN
    /\ task[t].pc = "finish" /\ ~Locked(j)
    /\ IF job[j].status = "analyzing" THEN SetStatus(j, "applied") ELSE UNCHANGED job
    /\ Quit(t, "leave")
    /\ UNCHANGED <<created, docs, traced, graph>> /\ KeepManager
mark_applied(t) ==
    LET j == task[t].job IN
    /\ task[t].pc = "finish" /\ ~Locked(j)
    /\ \/ job[j].status = "pause_requested" /\ SetStatus(j, "paused")
       \/ job[j].status = "cancel_requested" /\ SetStatus(j, "cancelled")
       \/ job[j].status = "analyzing" /\ SetStatus(j, "applied")
       \/ /\ job[j].status \notin {"pause_requested", "cancel_requested", "analyzing"}
          /\ UNCHANGED job
    /\ Quit(t, "leave")
    /\ UNCHANGED <<created, docs, traced, graph>> /\ KeepManager

\* _mark_failed, from execute_graph_organizing_job or from _worker_loop.
mark_failed(t) ==
    LET j == task[t].job IN
    /\ task[t].pc \in {"failing", "loop_failing"} /\ ~Locked(j)
    /\ IF ~Exists(j)
       THEN UNCHANGED job
       ELSE SetStatus(j, IF job[j].status = "cancel_requested"
                         THEN "cancelled" ELSE "failed")
    /\ Quit(t, "left")
    /\ UNCHANGED <<created, docs, traced, graph>> /\ KeepManager

AfterTaskCancel ==
    [s \in {"analyzing", "pause_requested", "cancel_requested"} |->
        CASE s = "analyzing" -> "queued"
          [] s = "pause_requested" -> "paused"
          [] s = "cancel_requested" -> "cancelled"]

\* _mark_after_task_cancel reads the status without a lock ...
mark_after_task_cancel_read(t) ==
    LET s == job[task[t].job].status IN
    /\ task[t].pc = "interrupted" /\ ~task[t].cancelling
    /\ IF s \in DOMAIN AfterTaskCancel
       THEN task' = [task EXCEPT ![t] = [@ EXCEPT !.pc = "requeue", !.seen = s]]
            /\ UNCHANGED current
       ELSE task' = [task EXCEPT ![t] = Fresh("done")] /\ current' = NoJob
    /\ UNCHANGED <<database, graph>> /\ KeepManager

\* ... and writes what follows from it, then re-raises.  The UPDATE of a row
\* that is gone raises another exception, which _worker_loop takes for a failure.
mark_after_task_cancel_write(t) ==
    LET j == task[t].job IN
    /\ task[t].pc = "requeue" /\ ~Locked(j)
    /\ IF Exists(j)
       THEN /\ SetStatus(j, AfterTaskCancel[task[t].seen])
            /\ task' = [task EXCEPT ![t] = Fresh("done")]
            /\ current' = NoJob
       ELSE Quit(t, "loop_failing") /\ UNCHANGED job
    /\ UNCHANGED <<created, docs, traced, graph>> /\ KeepManager

\* Where an exception raised at pc takes the task.
OnError(pc) == CASE pc \in TryPcs -> "failing"
                 [] pc \in {"failing", "interrupted", "requeue"} -> "loop_failing"
                 [] OTHER -> "broken"

\* A database call of the worker raises (connection lost, server restarted).
DbError(t) ==
    /\ task[t].pc \in DbPcs /\ ~task[t].cancelling
    /\ dbErrors < MaxDbErrors
    /\ dbErrors' = dbErrors + 1
    /\ task' = [task EXCEPT ![t] = At(OnError(@.pc), @.job)]
    /\ current' = IF OnError(task[t].pc) = "broken" THEN NoJob ELSE current
    /\ UNCHANGED <<database, graph, queue, queued, workerTask, phase, req, crashes>>

TaskStep(t) ==
    \/ Interrupt(t) \/ worker_loop_get(t) \/ worker_loop_finally(t)
    \/ load_job_inputs(t) \/ job_snapshot(t) \/ begin_analysis(t)
    \/ pause_at_section_boundary(t)
    \/ submit_rule_graph(t) \/ extract_graph_section(t)
    \/ record_trace_completed(t) \/ record_trace_failed(t)
    \/ record_section(t) \/ mark_applied(t) \/ mark_failed(t)
    \/ mark_after_task_cancel_read(t) \/ mark_after_task_cancel_write(t)

-----------------------------------------------------------------------------
(* The administrator's routes *)

Reply(r) == req' = [req EXCEPT ![r] = Idle]
KeepWorker == UNCHANGED <<manager, task>>

\* start_graph_organizing_job: 404, 409 and 503 answers change nothing ...
start_job_check(r, d) ==
    /\ phase = "up" /\ req[r].pc = "idle"
    /\ d \in docs /\ ~Active(d)
    /\ created < MaxJobs
    /\ req' = [req EXCEPT ![r].pc = "create", ![r].doc = d]
    /\ KeepWorker /\ UNCHANGED <<database, graph, phase, budgets>>

\* ... the INSERT needs the document (and a job number within the bound) ...
start_job_create(r) ==
    /\ req[r].pc = "create"
    /\ IF req[r].doc \in docs /\ created < MaxJobs
       THEN /\ created' = created + 1
            /\ job' = [job EXCEPT ![created + 1] = Row(req[r].doc, "queued")]
            /\ req' = [req EXCEPT ![r] = [Idle EXCEPT !.pc = "enqueue", !.job = created + 1]]
       ELSE Reply(r) /\ UNCHANGED <<created, job>>
    /\ KeepWorker /\ UNCHANGED <<docs, traced, graph, phase, budgets>>

\* ... and start, resume and retry enqueue after the audit log is committed.
audit_and_enqueue(r) ==
    /\ req[r].pc = "enqueue"
    /\ enqueue(req[r].job)
    /\ Reply(r)
    /\ UNCHANGED <<database, graph, phase, budgets>>

\* The audit log's INSERT raises: the handler answers 500 and enqueues nothing.
AuditError(r) ==
    /\ req[r].pc = "enqueue"
    /\ dbErrors < MaxDbErrors
    /\ dbErrors' = dbErrors + 1
    /\ Reply(r)
    /\ KeepWorker /\ UNCHANGED <<database, graph, phase, crashes>>

\* save() reads the row again after its commit: a document deleted in between
\* makes that raise, and the handler answers 500 without its last step.
RowGone(r) ==
    /\ req[r].pc \in {"enqueue", "signal"} /\ ~Exists(req[r].job)
    /\ Reply(r)
    /\ KeepWorker /\ UNCHANGED <<database, graph, phase, budgets>>

pause_job(r, j) ==
    /\ phase = "up" /\ req[r].pc = "idle" /\ ~Locked(j)
    /\ \/ job[j].status = "queued" /\ SetStatus(j, "paused")
       \/ job[j].status = "analyzing" /\ SetStatus(j, "pause_requested")
    /\ KeepWorker /\ UNCHANGED <<created, docs, traced, graph, phase, req, budgets>>

resume_job(r, j) ==
    /\ phase = "up" /\ req[r].pc = "idle" /\ ~Locked(j)
    /\ job[j].status = "paused"
    /\ SetStatus(j, "queued")
    /\ req' = [req EXCEPT ![r].pc = "enqueue", ![r].job = j]
    /\ KeepWorker /\ UNCHANGED <<created, docs, traced, graph, phase, budgets>>

\* retry: the row is locked, then the document's unfinished jobs are read ...
retry_job_check(r, j) ==
    /\ phase = "up" /\ req[r].pc = "idle" /\ ~Locked(j)
    /\ job[j].status = "failed" /\ ~Active(job[j].doc)
    /\ req' = [req EXCEPT ![r].pc = "retry", ![r].job = j]
    /\ KeepWorker /\ UNCHANGED <<database, graph, phase, budgets>>

\* ... and the commit releases the lock.
retry_job_commit(r) ==
    /\ req[r].pc = "retry"
    /\ SetStatus(req[r].job, "queued")
    /\ req' = [req EXCEPT ![r].pc = "enqueue"]
    /\ KeepWorker /\ UNCHANGED <<created, docs, traced, graph, phase, budgets>>

cancel_job(r, j) ==
    /\ phase = "up" /\ req[r].pc = "idle" /\ ~Locked(j)
    /\ \/ job[j].status \in {"queued", "paused"} /\ SetStatus(j, "cancelled")
       \/ /\ job[j].status \in {"analyzing", "pause_requested"}
          /\ SetStatus(j, "cancel_requested")
    /\ req' = [req EXCEPT ![r].pc = "signal", ![r].job = j]
    /\ KeepWorker /\ UNCHANGED <<created, docs, traced, graph, phase, budgets>>

\* GraphOrganizerTaskManager.cancel: False, or task.cancel() ...
manager_cancel_only_waits(r) ==
    /\ req[r].pc = "signal"
    /\ IF current # req[r].job \/ workerTask = NoTask
       THEN req' = [req EXCEPT ![r].pc = "refresh"]
       ELSE req' = [req EXCEPT ![r].pc = "await", ![r].task = workerTask]
    /\ UNCHANGED <<database, graph, phase, manager, task, budgets>>
manager_cancel(r) ==
    /\ req[r].pc = "signal"
    /\ IF \/ current # req[r].job \/ workerTask = NoTask
          \/ task[workerTask].pc \in DeadPcs
       THEN req' = [req EXCEPT ![r].pc = "refresh"] /\ UNCHANGED task
       ELSE /\ task' = [task EXCEPT ![workerTask].cancelling = TRUE]
            /\ req' = [req EXCEPT ![r].pc = "await", ![r].task = workerTask]
    /\ UNCHANGED <<database, graph, phase, manager, budgets>>

\* _worker_task, after the cancelled task ended.
WorkerForgotten(ended) == NoTask
KeptWorker(ended) == IF workerTask = ended THEN NoTask ELSE workerTask

manager_cancelled_leaves_no_worker(r) ==
    /\ req[r].pc = "await" /\ task[req[r].task].pc \in DeadPcs
    /\ workerTask' = KeptWorker(req[r].task)
    /\ req' = [req EXCEPT ![r].pc = "refresh", ![r].task = NoTask]
    /\ UNCHANGED <<database, graph, phase, queue, queued, current, task, budgets>>

\* ... and await task; the new worker is created unless there is one already.
\* A task that ended with an exception raises it here, out of the handler.
manager_cancelled(r) ==
    /\ req[r].pc = "await" /\ task[req[r].task].pc \in DeadPcs
    /\ IF task[req[r].task].pc = "broken"
       THEN Reply(r) /\ UNCHANGED <<workerTask, task>>
       ELSE /\ ensure_worker(KeptWorker(req[r].task))
            /\ req' = [req EXCEPT ![r].pc = "refresh", ![r].task = NoTask]
    /\ UNCHANGED <<database, graph, phase, queue, queued, current, budgets>>

cancel_job_refresh(r) ==
    /\ req[r].pc = "refresh"
    /\ IF job[req[r].job].status = "cancel_requested"
       THEN req' = [req EXCEPT ![r].pc = "settle"]
       ELSE Reply(r)
    /\ KeepWorker /\ UNCHANGED <<database, graph, phase, budgets>>

cancel_job_settle(r) ==
    /\ req[r].pc = "settle" /\ ~Locked(req[r].job)
    /\ IF Exists(req[r].job) THEN SetStatus(req[r].job, "cancelled") ELSE UNCHANGED job
    /\ Reply(r)
    /\ KeepWorker /\ UNCHANGED <<created, docs, traced, graph, phase, budgets>>

\* delete_document: the job and trace rows go with the document, Neo4j stays.
delete_document(d) ==
    /\ phase = "up" /\ d \in docs \cap Deletable
    /\ \A j \in Jobs : job[j].doc = d => ~Locked(j)
    /\ docs' = docs \ {d}
    /\ job' = [j \in Jobs |-> IF job[j].doc = d THEN Row(NoDoc, "absent") ELSE job[j]]
    /\ traced' = [j \in Jobs |-> IF job[j].doc = d THEN {} ELSE traced[j]]
    /\ KeepWorker /\ UNCHANGED <<created, graph, phase, req, budgets>>

RequestStep(r) ==
    \/ start_job_create(r) \/ audit_and_enqueue(r) \/ RowGone(r) \/ retry_job_commit(r)
    \/ manager_cancel(r) \/ manager_cancelled(r)
    \/ cancel_job_refresh(r) \/ cancel_job_settle(r)

NewRequest(r) ==
    \/ \E d \in Docs : start_job_check(r, d)
    \/ \E j \in Jobs : \/ pause_job(r, j) \/ resume_job(r, j)
                       \/ retry_job_check(r, j) \/ cancel_job(r, j)

Next ==
    \/ start \/ stop \/ stopped \/ Crash
    \/ \E t \in Tasks : TaskStep(t) \/ DbError(t)
    \/ \E r \in Requests : RequestStep(r) \/ NewRequest(r) \/ AuditError(r)
    \/ \E d \in Docs : delete_document(d)

Spec == Init /\ [][Next]_vars

\* The event loop runs every task and every handler that can go on, and an
\* Agent Session ends at its timeout at the latest.  Nothing is assumed of the
\* administrators, nor that a process that went down is started again.
Fairness ==
    /\ \A t \in Tasks : WF_vars(TaskStep(t))
    /\ \A r \in Requests : WF_vars(RequestStep(r))
    /\ WF_vars(stopped)

FairSpec == Spec /\ Fairness
-----------------------------------------------------------------------------
(* Properties *)

Rows == [doc : Docs \cup {NoDoc}, status : Statuses, offset : 0 .. NumSections,
         counted : Nat, started : BOOLEAN]
TaskStates == [pc : TaskPcs, job : Jobs \cup {NoJob}, sec : 0 .. NumSections,
               attempt : 0 .. MaxAttempts, submitted : BOOLEAN, again : BOOLEAN,
               seen : Statuses, cancelling : BOOLEAN]
RequestStates == [pc : RequestPcs, job : Jobs \cup {NoJob},
                  doc : Docs \cup {NoDoc}, task : Tasks \cup {NoTask}]

\* The type invariant.  A task has a job when it executes one, its section is
\* a real one while it extracts it, and what it requeues is a status it handles.
TypeOK ==
    /\ job \in [Jobs -> Rows]
    /\ created \in 0 .. MaxJobs
    /\ docs \subseteq Docs
    /\ graph \in [Jobs -> SUBSET Sections]
    /\ traced \in [Jobs -> SUBSET Sections]
    /\ phase \in {"down", "up", "stopping"}
    /\ queue \in Seq(Jobs)
    /\ queued \subseteq Jobs
    /\ workerTask \in Tasks \cup {NoTask}
    /\ current \in Jobs \cup {NoJob}
    /\ task \in [Tasks -> TaskStates]
    /\ \A t \in Tasks :
          /\ task[t].pc \in TryPcs \cup HandlerPcs => task[t].job \in Jobs
          /\ task[t].pc \in SectionPcs => task[t].sec \in Sections
          /\ task[t].pc = "requeue" => task[t].seen \in DOMAIN AfterTaskCancel
    /\ req \in [Requests -> RequestStates]
    /\ \A r \in Requests :
          /\ req[r].pc \notin {"idle", "create"} => req[r].job \in Jobs
          /\ req[r].pc = "create" => req[r].doc \in Docs
          /\ req[r].pc = "await" => req[r].task \in Tasks
    /\ crashes \in 0 .. MaxCrashes
    /\ dbErrors \in 0 .. MaxDbErrors

Alive == {t \in Tasks : task[t].pc \notin DeadPcs}

\* Recorded progress never runs ahead of what was written: every section up
\* to current_offset has its rules committed in Neo4j and a completed trace,
\* across crashes, cancellations, failures and retries.
Written(j) == graph[j] \cap traced[j]
RecordedIsWritten == \A j \in Jobs : 1 .. job[j].offset \subseteq Written(j)

\* A job is applied only when every section of its document was written.
AppliedIsComplete ==
    \A j \in Jobs : job[j].status = "applied" => Sections \subseteq graph[j]

\* What makes the two hold at every step.  A worker task has written all the
\* sections before the one it is busy with, and that one when it says so;
\* job numbers are never reused, so nothing that refers to a job outlives the
\* row into another job's; and a retry finds the row it has locked.
WorkerIsAheadOfRecord ==
    \A t \in Tasks : LET l == task[t] IN
        /\ l.submitted => l.pc = "extract"
        /\ l.job \in Jobs => /\ l.submitted => l.sec \in graph[l.job]
                             /\ l.pc = "trace_ok" => l.sec \in graph[l.job]
        /\ l.job \in Jobs /\ Exists(l.job) =>
              /\ l.pc \in {"begin", "gate"} => 1 .. l.sec \subseteq Written(l.job)
              /\ l.pc \in SectionPcs => 1 .. (l.sec - 1) \subseteq Written(l.job)
              /\ l.pc = "record" => l.sec \in Written(l.job)
              /\ l.pc = "finish" => Sections \subseteq Written(l.job)
ReferencesAreCreated ==
    /\ \A j \in Jobs : Exists(j) => j <= created
    /\ \A i \in DOMAIN queue : queue[i] <= created
    /\ \A t \in Tasks : task[t].job <= created
    /\ \A r \in Requests : req[r].job <= created
RetryHasRow == \A r \in Requests : req[r].pc = "retry" => Exists(req[r].job)

ProgressInv ==
    /\ RecordedIsWritten /\ AppliedIsComplete
    /\ WorkerIsAheadOfRecord /\ ReferencesAreCreated /\ RetryHasRow

\* The job's counters sum every recorded section once, however often the
\* section was run (a crash between the graph commit and the record repeats it).
CountedOnce == \A j \in Jobs : job[j].counted = job[j].offset

\* _queued holds exactly the jobs in _queue, and none is queued twice: a job
\* that is paused and resumed while it waits keeps its one place.
QueueAgrees ==
    /\ queued = {queue[i] : i \in DOMAIN queue}
    /\ \A i, k \in DOMAIN queue : queue[i] = queue[k] => i = k

\* At most one worker task is alive, and _worker_task is it: two would run
\* Agent Sessions side by side and one of them could not be cancelled.
OneWorker == \A t \in Alive : t = workerTask

\* A queued job is not forgotten: it waits in the queue, or the worker has
\* taken it and not yet begun it, or the handler that queued it is about to
\* enqueue it, or the process is down and its start will.
NoLostJob ==
    \A j \in Jobs : job[j].status = "queued" =>
        \/ j \in queued
        \/ \E t \in Alive : task[t].job = j /\ task[t].pc \in {"load", "snapshot", "begin"}
        \/ \E r \in Requests : req[r].job = j /\ req[r].pc = "enqueue"
        \/ phase # "up"

\* A job in the queue of a running process has a worker task to take it, or
\* the cancel handler that awaits the old worker is about to create one.
QueueHasWorker ==
    phase = "up" /\ queue # <<>>
        => Alive # {} \/ \E r \in Requests : req[r].pc = "await"

\* No job is stranded in a state only the worker leaves: while the process
\* runs the worker is executing it, or the cancel handler will settle it.
NoStrandedJob ==
    phase = "up" =>
        \A j \in Jobs :
            job[j].status \in {"analyzing", "pause_requested", "cancel_requested"} =>
                \/ \E t \in Alive : task[t].job = j
                \/ /\ job[j].status = "cancel_requested"
                   /\ \E r \in Requests : req[r].job = j /\ req[r].pc # "idle"

\* At most one unfinished job per document ("this document already has an
\* organizing job running", the 409 of start and retry).
OneUnfinishedPerDocument ==
    \A i, j \in Jobs :
        /\ job[i].status \in UNFINISHED /\ job[j].status \in UNFINISHED
        /\ job[i].doc = job[j].doc
        => i = j

\* A cancelled job stays cancelled until its row is deleted: it can neither be
\* resumed nor retried (README: 已取消任务不能继续或重试).
CancelledIsFinal ==
    [][\A j \in Jobs : job[j].status = "cancelled"
                       => job'[j].status \in {"cancelled", "absent"}]_vars

\* Nothing is written for a job that has come to rest: once it is paused,
\* cancelled, failed or applied no section of it reaches the graph and its
\* progress stands still, so that a resume finds the offset it was left with.
AtRestNothingMoves ==
    [][\A j \in Jobs : job[j].status \in {"queued", "paused", "cancelled", "failed", "applied"}
                       => graph'[j] = graph[j]
                          /\ (job'[j].offset = job[j].offset \/ job'[j].status = "absent")]_vars

\* Progress is made one section at a time: resuming, retrying and recovering
\* never skip a section and never fall back behind a recorded one.
ProgressInOrder ==
    [][\A j \in Jobs : \/ job'[j].offset \in {job[j].offset, job[j].offset + 1}
                       \/ job'[j].status = "absent"]_vars

\* What waits for the worker is taken up: every queued job, which nothing that
\* another job does can starve, and every pause and cancel request (unless the
\* process goes down first).
JobsMove ==
    LET waiting == {"queued", "pause_requested", "cancel_requested"}
    IN \A j \in Jobs : job[j].status \in waiting
                       ~> (job[j].status \notin waiting \/ phase = "down")

\* The cancel route answers: the await on the worker task ends, unless the
\* document, and the job with it, was deleted meanwhile.
CancelReturns ==
    \A r \in Requests :
        req[r].pc = "await" ~> (req[r].pc # "await" \/ ~Exists(req[r].job))

\* Whatever the routes, the worker and task.cancel() do to one another: no job
\* is lost or stranded, and the one worker there is has the queue.
WorkIsHeld == NoLostJob /\ NoStrandedJob /\ QueueHasWorker /\ OneWorker

\* Over kills, failing calls and repeated sections, what a job counts is what
\* one worker recorded, once.
CountedByOneWorker == CountedOnce /\ OneWorker

\* A job that has come to rest is left alone, and a cancelled one for good.
RestIsKept == CancelledIsFinal /\ AtRestNothingMoves
=============================================================================
