--------------------------- MODULE EvaluationQueue ---------------------------
(***************************************************************************)
(* The MingLi-Bench evaluation queue: the run and item rows in PostgreSQL, *)
(* the in-memory queue of EvaluationTaskManager, its one worker task that  *)
(* scores a run's questions batch by batch, and the administrator's routes *)
(* that start, cancel and delete a run, across kills and shutdowns.        *)
(*                                                                         *)
(* A transaction is one atomic step.  The routes and _set_run_state take   *)
(* no locks: what a handler read before its own write may be stale.        *)
(* A definition named after another one and a fault is what that code      *)
(* would be with the fault; no behaviour of Spec uses it.                  *)
(***************************************************************************)
EXTENDS Integers, Sequences, FiniteSets

CONSTANTS
    MaxRuns,         \* bound: how many runs are ever created
    NumItems,        \* questions of a run
    MaxConcurrency,  \* EvaluationRun.max_concurrency
    Requests,        \* HTTP handlers that may be in flight at once
    MaxErrors        \* bound: how many failures hit one life of the process

ASSUME ConstantsAssumption ==
    /\ MaxRuns \in Nat \ {0}
    /\ NumItems \in Nat \ {0}
    /\ MaxConcurrency \in Nat \ {0}
    /\ MaxErrors \in Nat

VARIABLES
    status,     \* evaluation_runs.status, by run number in creation order
    published,  \* ... completed_questions and error_count
    item,       \* evaluation_items.status, by run and question
    created,    \* how many runs were created
    phase,      \* the process: "down", "up" or "stopping"
    queue,      \* EvaluationTaskManager._queue
    queued,     \* ... ._queued
    worker,     \* ... ._worker_task: program counter and locals
    req,        \* the HTTP handlers: program counter and locals
    errors,     \* failures since the process started
    lost        \* runs that one of them or a late cancellation left to the next start

vars == <<status, published, item, created, phase, queue, queued, worker, req,
          errors, lost>>
rows == <<status, published, item, created>>
history == <<errors, lost>>

Runs == 1 .. MaxRuns
Items == 1 .. NumItems
NoRun == 0

ACTIVE == {"queued", "running", "cancel_requested"}
FINAL == {"completed", "cancelled", "failed"}
TERMINAL == {"completed", "error"}   \* of an item

\* The try of execute_evaluation_run, and before it.
TryPcs == {"check", "mark", "score", "persist", "complete", "cancel", "abort"}
EarlyPcs == {"load", "set_running", "pending", "complete_early", "cancel_early",
             "fail_early"}

Count(r, S) == Cardinality({i \in Items : item[r][i] \in S})
NothingPublished == [completed |-> 0, errors |-> 0]
\* The worker at pc with run r (and no questions) in hand.
At(pc, r) == [pc |-> pc, run |-> r, todo |-> {}, batch |-> {}, errs |-> {},
              fatal |-> FALSE, cancelling |-> FALSE]
Dead == At("dead", NoRun)
\* The worker executes its run; the runs that wait in the queue.
Executes == worker.pc \notin {"dead", "get", "leave"}
Waiting == {queue[n] : n \in DOMAIN queue}
IdleRequest == [pc |-> "idle", run |-> NoRun]

Init ==
    /\ status = [r \in Runs |-> "absent"]
    /\ published = [r \in Runs |-> NothingPublished]
    /\ item = [r \in Runs |-> [i \in Items |-> "pending"]]
    /\ created = 0
    /\ phase = "down"
    /\ queue = <<>> /\ queued = {}
    /\ worker = Dead
    /\ req = [q \in Requests |-> IdleRequest]
    /\ errors = 0 /\ lost = {}

-----------------------------------------------------------------------------
(* EvaluationTaskManager *)

\* _ensure_worker: a new task when there is none or it ended.
ensure_worker ==
    worker' = IF worker.pc = "dead" THEN At("get", NoRun) ELSE worker

enqueue(r) ==
    /\ ensure_worker
    /\ IF r \in queued
       THEN UNCHANGED <<queue, queued>>
       ELSE queued' = queued \cup {r} /\ queue' = Append(queue, r)

Recovered_nothing == status
Recovered == [r \in Runs |-> IF status[r] = "running" THEN "queued" ELSE status[r]]
\* The runs start() enqueues: cancel_requested ones too, to be settled.
Unfinished == {r \in Runs : status[r] \in ACTIVE}

\* The sequences that hold each run of S once, oldest first.
InCreationOrder(S) ==
    {q \in UNION {[1 .. n -> S] : n \in 0 .. MaxRuns} :
        /\ \A a, b \in DOMAIN q : a < b => q[a] < q[b]
        /\ \A r \in S : \E a \in DOMAIN q : q[a] = r}

start ==
    /\ phase = "down"
    /\ phase' = "up"
    /\ status' = Recovered
    /\ ensure_worker
    /\ queued' = Unfinished
    /\ queue' \in InCreationOrder(Unfinished)
    /\ UNCHANGED <<published, item, created, req, history>>

stop ==
    /\ phase = "up"
    /\ \A q \in Requests : req[q].pc = "idle"
    /\ phase' = "stopping"
    /\ worker' = IF worker.pc = "dead" THEN worker ELSE [worker EXCEPT !.cancelling = TRUE]
    /\ UNCHANGED <<rows, queue, queued, req, history>>

ForgetMemory ==
    /\ phase' = "down"
    /\ queue' = <<>> /\ queued' = {} /\ worker' = Dead
    /\ req' = [q \in Requests |-> IdleRequest]
    /\ errors' = 0 /\ lost' = {}

stopped ==
    /\ phase = "stopping" /\ worker.pc = "dead"
    /\ ForgetMemory
    /\ UNCHANGED rows

Crash ==
    /\ phase # "down"
    /\ ForgetMemory
    /\ UNCHANGED rows

-----------------------------------------------------------------------------
(* The worker task *)

\* A CancelledError: the try requeues the run and re-raises; elsewhere the task
\* just ends.
OnCancel_lost(w) == At("requeue", NoRun)
OnCancel(w) == IF w.pc \in TryPcs THEN At("requeue", w.run) ELSE Dead

\* The await at which the worker is completes and it goes on with locals l.
Resume(l) == worker' = IF worker.cancelling THEN OnCancel(worker) ELSE l
Goto(pc) == Resume([worker EXCEPT !.pc = pc])
KeepManager == UNCHANGED <<created, phase, queue, queued, req, history>>

\* The CancelledError arrives and the call in flight had no effect.
Interrupt ==
    /\ worker.cancelling
    /\ worker' = OnCancel(worker)
    /\ UNCHANGED rows /\ KeepManager

worker_loop_get ==
    /\ worker.pc = "get" /\ queue # <<>> /\ ~worker.cancelling
    /\ worker' = At("load", Head(queue))
    /\ queue' = Tail(queue)
    /\ UNCHANGED <<rows, phase, queued, req, history>>

\* The finally of _worker_loop: only now may the run be queued again.
worker_loop_finally ==
    /\ worker.pc = "leave" /\ ~worker.cancelling
    /\ worker' = At("get", NoRun)
    /\ queued' = queued \ {worker.run}
    /\ UNCHANGED <<rows, phase, queue, req, history>>

\* _set_run_state writes whatever the row holds by then.
set_run_state(r, s) ==
    status' = IF status[r] = "absent" THEN status ELSE [status EXCEPT ![r] = s]

\* The run, the credential and the data set's digest; a missing one fails the
\* run.  What it sees of the status here decides what it does next.
credential_run_and_knowledge ==
    /\ worker.pc = "load"
    /\ \/ /\ status[worker.run] # "absent"
          /\ Goto(IF status[worker.run] = "cancel_requested" THEN "cancel_early"
                                                              ELSE "set_running")
       \/ Goto("fail_early")
    /\ UNCHANGED rows /\ KeepManager

set_running ==
    /\ worker.pc = "set_running"
    /\ set_run_state(worker.run, "running")
    /\ Goto("pending")
    /\ UNCHANGED <<published, item>> /\ KeepManager

\* The questions to score: those a former execution left running are pending again.
pending_items_with_errors ==
    /\ worker.pc = "pending"
    /\ LET todo == {i \in Items : item[worker.run][i] # "completed"} IN
       /\ item' = [item EXCEPT ![worker.run] =
                     [i \in Items |-> IF i \in todo THEN "pending" ELSE @[i]]]
       /\ Resume([worker EXCEPT !.pc = IF todo = {} THEN "complete_early" ELSE "check",
                                !.todo = todo])
    /\ UNCHANGED <<status, published>> /\ KeepManager
pending_items ==
    /\ worker.pc = "pending"
    /\ LET todo == {i \in Items : item[worker.run][i] \notin TERMINAL} IN
       /\ item' = [item EXCEPT ![worker.run] =
                     [i \in Items |-> IF i \in todo THEN "pending" ELSE @[i]]]
       /\ Resume([worker EXCEPT !.pc = IF todo = {} THEN "complete_early" ELSE "check",
                                !.todo = todo])
    /\ UNCHANGED <<status, published>> /\ KeepManager

\* Between two batches: the first MaxConcurrency questions still to do.
FirstOf(todo) == {i \in todo : Cardinality({k \in todo : k <= i}) <= MaxConcurrency}

run_status ==
    /\ worker.pc = "check"
    /\ IF worker.todo = {}
       THEN Goto("complete")
       ELSE IF status[worker.run] = "cancel_requested"
            THEN Goto("cancel")
            ELSE Resume([worker EXCEPT !.pc = "mark", !.batch = FirstOf(worker.todo)])
    /\ UNCHANGED rows /\ KeepManager

mark_items_running ==
    /\ worker.pc = "mark"
    /\ item' = [item EXCEPT ![worker.run] =
                  [i \in Items |-> IF i \in worker.batch /\ @[i] = "pending"
                                   THEN "running" ELSE @[i]]]
    /\ Goto("score")
    /\ UNCHANGED <<status, published>> /\ KeepManager

\* gather() of the batch's _score_one: each question is answered or fails for
\* good, after its own retries; a fatal error is one that would repeat.
score_batch ==
    /\ worker.pc = "score" /\ ~worker.cancelling
    /\ \E errs \in SUBSET worker.batch, fatal \in BOOLEAN :
          /\ fatal => errs # {}
          /\ worker' = [worker EXCEPT !.pc = "persist", !.errs = errs, !.fatal = fatal]
    /\ UNCHANGED rows /\ KeepManager

\* Answers and counts in one transaction; the counts are flushed answers.
Outcome(r, i) == IF i \in worker.batch /\ item[r][i] = "running"
                 THEN IF i \in worker.errs THEN "error" ELSE "completed"
                 ELSE item[r][i]
Published(r) ==
    [completed |-> Cardinality({i \in Items : Outcome(r, i) \in TERMINAL}),
     errors |-> Cardinality({i \in Items : Outcome(r, i) = "error"})]

persist_outcomes ==
    LET r == worker.run IN
    /\ worker.pc = "persist"
    /\ item' = [item EXCEPT ![r] = [i \in Items |-> Outcome(r, i)]]
    /\ published' = [published EXCEPT ![r] = Published(r)]
    /\ Resume([worker EXCEPT !.pc = IF worker.fatal THEN "abort" ELSE "check",
                             !.todo = worker.todo \ worker.batch,
                             !.batch = {}, !.errs = {}, !.fatal = FALSE])
    /\ UNCHANGED status /\ KeepManager

\* The last _set_run_state of an execution, and what follows it.
LastState == [complete |-> "completed", complete_early |-> "completed",
              cancel |-> "cancelled", cancel_early |-> "cancelled",
              abort |-> "failed", fail_early |-> "failed", failing |-> "failed",
              loop_failing |-> "failed"]
set_last_state ==
    /\ worker.pc \in DOMAIN LastState
    /\ set_run_state(worker.run, LastState[worker.pc])
    /\ Resume(At("leave", worker.run))
    /\ UNCHANGED <<published, item>> /\ KeepManager

\* except CancelledError: the run is queued again and the task ends.
requeue_not_reraised ==
    /\ worker.pc = "requeue"
    /\ set_run_state(worker.run, "queued")
    /\ worker' = At("leave", worker.run)
    /\ UNCHANGED <<published, item>> /\ KeepManager
requeue ==
    /\ worker.pc = "requeue"
    /\ set_run_state(worker.run, "queued")
    /\ worker' = Dead
    /\ UNCHANGED <<published, item>> /\ KeepManager

\* A call raises, without effect: a handler of execute_evaluation_run or of
\* _worker_loop marks the run failed; one that raises in the latter ends the task.
\* A failure may last until the handlers' own calls.
Handling == {"failing", "loop_failing"}
CallError ==
    /\ worker.pc \in TryPcs \cup EarlyPcs \cup Handling \cup {"requeue"}
    /\ ~worker.cancelling
    /\ IF worker.pc \in Handling THEN UNCHANGED errors
       ELSE errors < MaxErrors /\ errors' = errors + 1
    /\ worker' = CASE worker.pc \in TryPcs -> At("failing", worker.run)
                   [] worker.pc = "loop_failing" -> Dead
                   [] OTHER -> At("loop_failing", worker.run)
    \* the finally of _worker_loop, when the task ends with it
    /\ queued' = IF worker.pc = "loop_failing" THEN queued \ {worker.run} ELSE queued
    /\ lost' = IF worker.pc = "loop_failing" THEN lost \cup Waiting \cup {worker.run} ELSE lost
    /\ UNCHANGED <<rows, phase, queue, req>>

WorkerStep ==
    \/ Interrupt \/ worker_loop_get \/ worker_loop_finally
    \/ credential_run_and_knowledge \/ set_running \/ pending_items \/ run_status
    \/ mark_items_running \/ score_batch \/ persist_outcomes \/ set_last_state
    \/ requeue

-----------------------------------------------------------------------------
(* The administrator's routes *)

Reply(q) == req' = [req EXCEPT ![q] = IdleRequest]
Handle(q, l) == req' = [req EXCEPT ![q] = l]
NewRequestOK(q) == phase = "up" /\ req[q].pc = "idle"

\* start: no run may be active ...
start_run_check(q) ==
    /\ NewRequestOK(q) /\ created < MaxRuns
    /\ \A r \in Runs : status[r] \notin ACTIVE
    /\ Handle(q, [IdleRequest EXCEPT !.pc = "create"])
    /\ UNCHANGED <<rows, phase, queue, queued, worker, history>>

\* ... then the run and its items are inserted (within the bound) ...
create_run(q) ==
    /\ req[q].pc = "create"
    /\ IF created < MaxRuns
       THEN /\ created' = created + 1
            /\ status' = [status EXCEPT ![created + 1] = "queued"]
            /\ Handle(q, [IdleRequest EXCEPT !.pc = "enqueue", !.run = created + 1])
       ELSE Reply(q) /\ UNCHANGED <<created, status>>
    /\ UNCHANGED <<published, item, phase, queue, queued, worker, history>>

\* ... and it is enqueued after the audit log.
audit_and_enqueue(q) ==
    /\ req[q].pc = "enqueue"
    /\ enqueue(req[q].run)
    /\ lost' = lost \ Waiting'
    /\ Reply(q)
    /\ UNCHANGED <<rows, phase, errors>>

AuditError(q) ==
    /\ req[q].pc = "enqueue"
    /\ errors < MaxErrors
    /\ errors' = errors + 1
    /\ lost' = lost \cup {req[q].run}
    /\ Reply(q)
    /\ UNCHANGED <<rows, phase, queue, queued, worker>>

\* cancel: the row is read; one that is to be cancelled already keeps its status ...
cancel_run_read(q, r) ==
    /\ NewRequestOK(q) /\ status[r] \in ACTIVE \ {"cancel_requested"}
    /\ Handle(q, [pc |-> "cancel", run |-> r])
    /\ UNCHANGED <<rows, phase, queue, queued, worker, history>>

\* ... and cancel_requested is written over whatever it is by now; an UPDATE of
\* a row that is gone raises.
request_cancel(q) ==
    /\ req[q].pc = "cancel"
    /\ set_run_state(req[q].run, "cancel_requested")
    /\ lost' = IF status[req[q].run] \in FINAL
               THEN lost \cup {req[q].run} ELSE lost
    /\ Reply(q)
    /\ UNCHANGED <<published, item, created, phase, queue, queued, worker, errors>>

\* delete: refused while the run is active, as it is read ...
delete_run_read(q, r) ==
    /\ NewRequestOK(q) /\ status[r] \in FINAL
    /\ Handle(q, [pc |-> "delete", run |-> r])
    /\ UNCHANGED <<rows, phase, queue, queued, worker, history>>

\* ... then items and run are deleted in one transaction.
delete_run(q) ==
    LET r == req[q].run IN
    /\ req[q].pc = "delete"
    /\ status' = [status EXCEPT ![r] = "absent"]
    /\ item' = [item EXCEPT ![r] = [i \in Items |-> "pending"]]
    /\ published' = [published EXCEPT ![r] = NothingPublished]
    /\ Reply(q)
    /\ UNCHANGED <<created, phase, queue, queued, worker, history>>

RequestStep(q) ==
    create_run(q) \/ audit_and_enqueue(q) \/ request_cancel(q) \/ delete_run(q)

NewRequest(q) ==
    \/ start_run_check(q)
    \/ \E r \in Runs : cancel_run_read(q, r) \/ delete_run_read(q, r)

Next ==
    \/ start \/ stop \/ stopped \/ Crash
    \/ WorkerStep \/ CallError
    \/ \E q \in Requests : RequestStep(q) \/ NewRequest(q) \/ AuditError(q)

Spec == Init /\ [][Next]_vars

\* The event loop runs whatever can go on, and a question is answered or fails: a
\* silent model is cut off by the timeout of httpx (MODEL_TIMEOUT_SECONDS), but no
\* deadline bounds how many rounds of tools it asks for, so that the model stops
\* asking is assumed.  Nothing is assumed of the administrators.
Fairness ==
    /\ WF_vars(WorkerStep)
    /\ \A q \in Requests : WF_vars(RequestStep(q))
    /\ WF_vars(stopped)

FairSpec == Spec /\ Fairness
-----------------------------------------------------------------------------
(* Properties *)

WorkerPcs == {"dead", "get", "leave", "requeue"}
             \cup Handling \cup TryPcs \cup EarlyPcs

\* The type invariant; the worker has a run when it executes one.
TypeOK ==
    /\ status \in [Runs -> ACTIVE \cup FINAL \cup {"absent"}]
    /\ published \in [Runs -> [completed : 0 .. NumItems, errors : 0 .. NumItems]]
    /\ item \in [Runs -> [Items -> TERMINAL \cup {"pending", "running"}]]
    /\ created \in 0 .. MaxRuns
    /\ phase \in {"down", "up", "stopping"}
    /\ queue \in Seq(Runs) /\ queued \subseteq Runs
    /\ worker \in [pc : WorkerPcs, run : Runs \cup {NoRun}, todo : SUBSET Items,
                   batch : SUBSET Items, errs : SUBSET Items, fatal : BOOLEAN,
                   cancelling : BOOLEAN]
    /\ worker.pc \notin {"dead", "get"} => worker.run \in Runs
    /\ req \in [Requests -> [pc : {"idle", "create", "enqueue", "cancel", "delete"},
                             run : Runs \cup {NoRun}]]
    /\ \A q \in Requests : req[q].pc \notin {"idle", "create"} => req[q].run \in Runs
    /\ errors \in 0 .. MaxErrors
    /\ lost \subseteq Runs

\* A run that is queued, running or to be cancelled is in the hands of something that
\* will end it: the queue of a live worker, the worker, or the handler that created
\* it and is about to enqueue it; and one that runs is the one that the worker
\* executes.  Three failures leave a run in nobody's hands, and no other step
\* does: its audit log is not written, the worker's task dies of a second failing call
\* in a row, or it is cancelled over its end.
Held(r) ==
    \/ worker.pc # "dead" /\ r \in Waiting
    \/ Executes /\ worker.run = r
    \/ \E q \in Requests : req[q].pc = "enqueue" /\ req[q].run = r
RunIsHeld ==
    phase = "up" => \A r \in Runs \ lost :
        /\ status[r] \in ACTIVE => Held(r)
        /\ status[r] = "running" => Executes /\ worker.run = r

\* Every execution, with its kills, recoveries and cancellations, is one of the
\* abstract score sheets: outcomes are stored once and for all with a tally that
\* counts them, and the sheet of a deleted run never comes back.
Sheets == INSTANCE ScoreSheets WITH
    Sheets <- Runs, Questions <- Items, Batch <- MaxConcurrency,
    life <- [r \in Runs |-> IF r > created THEN "new"
                           ELSE IF status[r] = "absent" THEN "removed" ELSE "listed"],
    outcome <- [r \in Runs |-> [i \in Items |-> IF item[r][i] \in TERMINAL THEN item[r][i]
                                                                         ELSE "open"]],
    tally <- published,
    complete <- {r \in Runs : status[r] = "completed"}
KeepsScoreSheets == Sheets!Spec

\* Every queued run ends, whatever fails, unless the process goes down or the run
\* is left in nobody's hands.
QueuedEnds ==
    \A r \in Runs : status[r] = "queued"
                    ~> (status[r] \notin {"queued", "running"} \/ phase = "down" \/ r \in lost)

\* A shutdown ends: the cancelled worker task finishes and the process with it,
\* unless a call failed (in the handler of CancelledError, say).
ShutdownEnds == phase = "stopping" ~> (phase = "down" \/ errors > 0)

\* A cancel request that was accepted is not forgotten: the run never goes back
\* to waiting or running, it ends when the current batch does.
CancelIsKept ==
    [][\A r \in Runs : status[r] = "cancel_requested"
                       => status'[r] \notin {"queued", "running"}]_vars

\* A run that was asked to be cancelled ends: the 409 of delete tells the
\* administrator to cancel first and to wait for the end.
CancelEnds == \A r \in Runs : status[r] = "cancel_requested"
                              ~> (status[r] # "cancel_requested" \/ phase = "down")

\* Both what waits and what is shut down comes to an end.
RunsEnd == QueuedEnds /\ ShutdownEnds
=============================================================================
