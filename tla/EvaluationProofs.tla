-------------------------- MODULE EvaluationProofs --------------------------
(***************************************************************************)
(* Theorems about EvaluationQueue, for every number of runs, questions,    *)
(* handlers, kills and errors: its types, every unfinished evaluation is   *)
(* in the hands of what will end it, unless a failing call or a late       *)
(* cancellation lost it, and every execution is one of ScoreSheets.        *)
(***************************************************************************)
EXTENDS EvaluationQueue, FiniteSetTheorems, SequenceTheorems, WellFoundedInduction, TLAPS

\* What is in flight when the process is down or stops, and who has a run.
ProcessIsSound ==
    /\ phase = "down" => queue = <<>> /\ worker = Dead
    /\ phase # "up" => \A q \in Requests : req[q].pc = "idle"
    /\ worker.cancelling \/ worker.pc = "requeue" => phase = "stopping"
    /\ worker.pc \in {"dead", "get"} => worker.run = NoRun
    /\ \A q \in Requests : req[q].pc \in {"enqueue", "cancel", "delete"} => req[q].run \in 1 .. created

\* A run is in one hand: in the queue, with the worker or with the handler that
\* created it; all these are listed and none is about to be deleted.
QueueIsSound ==
    /\ \A m, n \in DOMAIN queue : queue[m] = queue[n] => m = n
    /\ Waiting \subseteq queued /\ queued \subseteq 1 .. created
    /\ worker.run # NoRun => worker.run \in queued \ Waiting
    /\ \A q \in Requests : req[q].pc = "enqueue" => req[q].run \notin queued
    /\ \A p, q \in Requests : req[p].pc = "enqueue" /\ req[q].pc = "enqueue" /\ req[p].run = req[q].run
                              => p = q
HandsAreSound ==
    /\ \A r \in Waiting : status[r] \in {"queued", "cancel_requested"}
    /\ \A q \in Requests : req[q].pc = "enqueue" => status[req[q].run] \in {"queued", "cancel_requested"}
    /\ Executes => \/ status[worker.run] \in ACTIVE
                   \/ /\ phase = "stopping" /\ status[worker.run] \in FINAL
                      /\ worker.pc \in {"requeue", "loop_failing"}
    /\ worker.pc = "leave" => status[worker.run] \notin {"queued", "running"}
    /\ \A q \in Requests : req[q].pc = "delete" =>
          /\ req[q].run \notin Waiting
          /\ Executes => worker.run # req[q].run
          /\ \A p \in Requests : req[p].pc = "enqueue" => req[p].run # req[q].run
    /\ \A r \in Runs : status[r] # "absent" => r <= created

\* The questions the worker has to do, and the rows of a sheet.
Opened(r) == {i \in Items : item[r][i] \notin TERMINAL}
WorkIsSound ==
    /\ worker.batch \subseteq worker.todo /\ worker.errs \subseteq worker.batch
    /\ worker.pc \notin {"mark", "score", "persist"} => worker.batch = {}
    /\ worker.pc # "persist" => worker.errs = {}
    /\ Cardinality(worker.batch) <= MaxConcurrency
    /\ worker.pc \in {"check", "mark", "score", "persist"} => Opened(worker.run) = worker.todo
    /\ worker.pc \in {"check", "mark"} => \A i \in worker.todo : item[worker.run][i] = "pending"
    /\ worker.pc \in {"score", "persist"} => \A i \in worker.todo :
          item[worker.run][i] = IF i \in worker.batch THEN "running" ELSE "pending"
    /\ worker.pc \in {"complete", "complete_early"} => Opened(worker.run) = {}
TallyOf(r) == [completed |-> Count(r, TERMINAL), errors |-> Count(r, {"error"})]
SheetsAreSound ==
    /\ \A r \in Runs : status[r] = "absent" => Opened(r) = Items
    /\ \A r \in Runs : published[r] = TallyOf(r)

Inv ==
    /\ TypeOK /\ ProcessIsSound /\ QueueIsSound /\ HandsAreSound /\ WorkIsSound /\ SheetsAreSound
    /\ RunIsHeld

-----------------------------------------------------------------------------
(* The worker's record and the numbers of a sheet. *)

WorkerStates == [pc : WorkerPcs, run : Runs \cup {NoRun}, todo : SUBSET Items,
                 batch : SUBSET Items, errs : SUBSET Items, fatal : BOOLEAN,
                 cancelling : BOOLEAN]

LEMMA AtIs ==
    ASSUME NEW pc \in WorkerPcs, NEW r \in Runs \cup {NoRun}
    PROVE  /\ At(pc, r) \in WorkerStates
           /\ At(pc, r).pc = pc /\ At(pc, r).run = r /\ ~At(pc, r).cancelling
           /\ At(pc, r).todo = {} /\ At(pc, r).batch = {} /\ At(pc, r).errs = {}
BY DEF At, WorkerStates

LEMMA NoBatch == Cardinality({}) <= MaxConcurrency /\ MaxConcurrency \in Nat
BY ConstantsAssumption, FS_EmptySet

\* What a sheet shows are numbers of its questions.
LEMMA CountType ==
    ASSUME NEW S \in SUBSET Items
    PROVE  Cardinality(S) \in 0 .. NumItems
<1>1. IsFiniteSet(Items) /\ Cardinality(Items) = NumItems /\ NumItems \in Nat
  BY ConstantsAssumption, FS_Interval DEF Items
<1>2. IsFiniteSet(S) /\ Cardinality(S) <= Cardinality(Items)
  BY <1>1, FS_Subset
<1> QED BY <1>1, <1>2, FS_CardinalityType

\* A set of numbers has a smallest one.
LEMMA SmallestOf ==
    ASSUME NEW T \in SUBSET Nat, T # {}
    PROVE  \E n \in T : \A m \in T : n <= m
<1> DEFINE Below == {0 .. n : n \in T}
<1>1. Below \subseteq FiniteSubsetsOf(Nat) /\ Below # {}
  <2>1. \A n \in T : 0 .. n \in SUBSET Nat /\ IsFiniteSet(0 .. n)
    BY FS_Interval
  <2> QED BY <2>1 DEF FiniteSubsetsOf
<1>2. IsWellFoundedOn(StrictSubsetOrdering(Nat), FiniteSubsetsOf(Nat))
  BY FS_StrictSubsetOrderingWellFounded
<1>3. PICK B \in Below : \A C \in Below : <<C, B>> \notin StrictSubsetOrdering(Nat)
  <2> HIDE DEF Below
  <2> QED BY <1>1, <1>2, WFMin
<1>4. PICK n \in T : B = 0 .. n
  OBVIOUS
<1>5. ASSUME NEW m \in T, m < n PROVE FALSE
  <2>1. 0 .. m \in Below /\ 0 .. m \subseteq 0 .. n /\ 0 .. m # 0 .. n
    BY <1>5
  <2>2. <<0 .. m, B>> \in StrictSubsetOrdering(Nat)
    BY <1>4, <2>1 DEF StrictSubsetOrdering
  <2> QED BY <1>3, <2>1, <2>2
<1> QED BY <1>5

\* A batch is not larger than it may be: its last question is among the first.
LEMMA BatchIsBounded ==
    ASSUME NEW todo \in SUBSET Items
    PROVE  FirstOf(todo) \subseteq todo /\ Cardinality(FirstOf(todo)) <= MaxConcurrency
<1>1. FirstOf(todo) \subseteq todo
  BY DEF FirstOf
<1>2. CASE FirstOf(todo) = {}
  BY <1>2, NoBatch, FS_EmptySet
<1>3. CASE FirstOf(todo) # {}
  <2> DEFINE Left == {NumItems - i : i \in FirstOf(todo)}
  <2>1. Left \in SUBSET Nat /\ Left # {} /\ NumItems \in Nat
    BY <1>1, <1>3, ConstantsAssumption DEF Items
  <2>2. PICK n \in Left : \A m \in Left : n <= m
    <3> HIDE DEF Left
    <3> QED BY <2>1, SmallestOf
  <2>3. PICK last \in FirstOf(todo) : n = NumItems - last
    OBVIOUS
  <2>4. \A i \in FirstOf(todo) : i <= last
    <3> SUFFICES ASSUME NEW i \in FirstOf(todo) PROVE i <= last
      OBVIOUS
    <3>1. NumItems - last <= NumItems - i
      BY <2>2, <2>3
    <3>2. i \in Items /\ last \in Items
      BY <1>1
    <3> QED BY <3>1, <3>2, <2>1 DEF Items
  <2>5. FirstOf(todo) \subseteq {k \in todo : k <= last}
    BY <1>1, <2>4
  <2>6. Cardinality({k \in todo : k <= last}) <= MaxConcurrency
    BY <2>3 DEF FirstOf
  <2>7. IsFiniteSet({k \in todo : k <= last})
    <3>1. IsFiniteSet(Items)
      BY ConstantsAssumption, FS_Interval DEF Items
    <3> QED BY <3>1, FS_Subset
  <2>8. /\ Cardinality(FirstOf(todo)) <= Cardinality({k \in todo : k <= last})
        /\ Cardinality(FirstOf(todo)) \in Nat /\ Cardinality({k \in todo : k <= last}) \in Nat
    BY <2>5, <2>7, FS_Subset, FS_CardinalityType
  <2> QED BY <2>6, <2>8, <1>1, NoBatch
<1> QED BY <1>1, <1>2, <1>3

-----------------------------------------------------------------------------
(* A step of the worker: what it may do to the rows, and what it leaves alone. *)

Statuses == ACTIVE \cup FINAL \cup {"absent"}
ItemStatuses == TERMINAL \cup {"pending", "running"}

\* Only the row of the run in hand changes, it stays, and its tally is true.
WritesItsRun ==
    /\ status' \in [Runs -> Statuses] /\ item' \in [Runs -> [Items -> ItemStatuses]]
    /\ \A r \in Runs : r # worker.run =>
          status'[r] = status[r] /\ item'[r] = item[r] /\ published'[r] = published[r]
    /\ published' \in [Runs -> [completed : 0 .. NumItems, errors : 0 .. NumItems]]
    /\ \A r \in Runs : r = worker.run => published'[r] = TallyOf(r)'
    /\ status'[worker.run] # "absent"
KeepsTheRest ==
    UNCHANGED <<created, phase, queue, queued, req, lost>> /\ errors' \in errors .. MaxErrors

\* What a step that goes on with worker' has to show of its run and questions.
GoesOn ==
    /\ worker' \in WorkerStates /\ worker'.run = worker.run /\ ~worker'.cancelling
    /\ worker'.pc \notin {"dead", "get"}
    /\ worker'.pc = "requeue" => phase = "stopping"
    /\ worker'.pc # "leave" => \/ status'[worker.run] \in ACTIVE
                               \/ phase = "stopping" /\ worker'.pc \in {"requeue", "loop_failing"}
    /\ worker'.pc = "leave" => status'[worker.run] \in FINAL
    /\ WorkIsSound'

\* The worker that executes has a listed run.
LEMMA ExecutesARun ==
    ASSUME Inv, Executes
    PROVE  /\ worker \in WorkerStates /\ worker.run \in Runs /\ worker.run # NoRun
           /\ worker.run \in queued \ Waiting /\ status[worker.run] \in ACTIVE \cup FINAL
           /\ phase # "down" /\ worker.run <= created
<1>1. worker \in WorkerStates /\ worker.run \in Runs
  BY DEF Inv, TypeOK, WorkerStates, Executes
<1>2. worker.run # NoRun
  BY <1>1, ConstantsAssumption DEF Runs, NoRun
<1>3. worker.run \in queued \ Waiting
  BY <1>2 DEF Inv, QueueIsSound
<1>4. status[worker.run] \in ACTIVE \cup FINAL
  BY DEF Inv, HandsAreSound, Executes
<1>5. phase # "down"
  BY AtIs DEF Inv, ProcessIsSound, Executes, Dead, At
<1>6. worker.run <= created
  BY <1>1, <1>4 DEF Inv, HandsAreSound, ACTIVE, FINAL
<1> QED BY <1>1, <1>2, <1>3, <1>4, <1>5, <1>6

\* The rows a step of the worker leaves behind are sound.
LEMMA RowsStaySound ==
    ASSUME Inv, Executes, WritesItsRun, KeepsTheRest
    PROVE  SheetsAreSound'
<1>1. \A r \in Runs : status'[r] = "absent" => status[r] = "absent" /\ item'[r] = item[r]
  BY ExecutesARun DEF WritesItsRun
<1>2. \A r \in Runs : status'[r] = "absent" => Opened(r)' = Items
  BY <1>1 DEF Inv, SheetsAreSound, Opened
<1>3. \A r \in Runs : published'[r] = TallyOf(r)'
  <2> TAKE r \in Runs
  <2>1. CASE r = worker.run
    BY <2>1 DEF WritesItsRun
  <2>2. CASE r # worker.run
    <3>1. item'[r] = item[r] /\ published'[r] = published[r]
      BY <2>2 DEF WritesItsRun
    <3>2. TallyOf(r)' = TallyOf(r)
      BY <3>1 DEF TallyOf, Count
    <3>3. published[r] = TallyOf(r)
      BY DEF Inv, SheetsAreSound
    <3> QED BY <3>1, <3>2, <3>3
  <2> QED BY <2>1, <2>2
<1> QED BY <1>2, <1>3 DEF SheetsAreSound

\* The hands that are not the worker's hold what they held.
LEMMA OtherHandsKeep ==
    ASSUME Inv, Executes, WritesItsRun, KeepsTheRest
    PROVE  /\ \A r \in Waiting' : status'[r] \in {"queued", "cancel_requested"}
           /\ \A q \in Requests : req'[q].pc = "enqueue" =>
                 status'[req'[q].run] \in {"queued", "cancel_requested"}
           /\ \A q \in Requests : req'[q].pc = "delete" =>
                 /\ req'[q].run \notin Waiting' /\ worker.run # req'[q].run
                 /\ \A p \in Requests : req'[p].pc = "enqueue" => req'[p].run # req'[q].run
           /\ \A r \in Runs : status'[r] # "absent" => r <= created'
<1>1. worker.run \in queued \ Waiting /\ worker.run <= created
  BY ExecutesARun
<1>2. Waiting' = Waiting /\ UNCHANGED <<req, created>>
  BY DEF KeepsTheRest, Waiting
<1>3. Waiting \subseteq Runs
  <2>1. queue \in Seq(Runs)
    BY DEF Inv, TypeOK
  <2> QED BY <2>1 DEF Waiting
<1>4. \A r \in Waiting' : status'[r] \in {"queued", "cancel_requested"}
  BY <1>1, <1>2, <1>3 DEF Inv, HandsAreSound, WritesItsRun
<1>5. \A q \in Requests : req[q].pc = "enqueue" => req[q].run \in Runs \ queued
  BY DEF Inv, TypeOK, QueueIsSound
<1>6. \A q \in Requests : req'[q].pc = "enqueue" =>
         status'[req'[q].run] \in {"queued", "cancel_requested"}
  BY <1>1, <1>2, <1>5 DEF Inv, HandsAreSound, WritesItsRun
<1>7. \A r \in Runs : status'[r] # "absent" => r <= created'
  BY <1>1, <1>2 DEF Inv, HandsAreSound, WritesItsRun
<1> QED BY <1>2, <1>4, <1>6, <1>7 DEF Inv, HandsAreSound

LEMMA WorkerKeeps ==
    ASSUME Inv, Executes, WritesItsRun, KeepsTheRest, GoesOn
    PROVE  Inv'
<1>1. worker.run \in Runs /\ worker.run # NoRun /\ worker.run \in queued \ Waiting
      /\ phase # "down" /\ worker.run <= created
  BY ExecutesARun
<1>2. TypeOK'
  BY <1>1 DEF Inv, TypeOK, WritesItsRun, KeepsTheRest, GoesOn, WorkerStates, Statuses, ItemStatuses
<1>3. ProcessIsSound'
  BY <1>1 DEF Inv, ProcessIsSound, KeepsTheRest, GoesOn
<1>4. QueueIsSound'
  BY <1>1 DEF Inv, QueueIsSound, KeepsTheRest, GoesOn, Waiting
<1>5. HandsAreSound'
  <2>1. Executes' => \/ status'[worker'.run] \in ACTIVE
                     \/ /\ phase' = "stopping" /\ status'[worker'.run] \in FINAL
                        /\ worker'.pc \in {"requeue", "loop_failing"}
    <3>1. status'[worker.run] \in ACTIVE \cup FINAL
      BY <1>1 DEF WritesItsRun, Statuses
    <3> QED BY <3>1 DEF GoesOn, Executes, KeepsTheRest
  <2>2. worker'.pc = "leave" => status'[worker'.run] \notin {"queued", "running"}
    BY DEF GoesOn, FINAL
  <2> QED BY <2>1, <2>2, OtherHandsKeep DEF HandsAreSound, GoesOn
<1>6. SheetsAreSound' /\ WorkIsSound'
  BY RowsStaySound DEF GoesOn
<1>7. RunIsHeld'
  <2> SUFFICES ASSUME phase = "up", NEW r \in Runs \ lost
               PROVE  /\ status'[r] \in ACTIVE => Held(r)'
                      /\ status'[r] = "running" => Executes' /\ worker'.run = r
    BY DEF RunIsHeld, KeepsTheRest
  <2>1. UNCHANGED <<queue, req>> /\ worker'.run = worker.run /\ worker'.pc # "dead"
        /\ (Executes' <=> worker'.pc # "leave")
    BY DEF KeepsTheRest, GoesOn, Executes
  <2>2. CASE r = worker.run
    <3>1. worker'.pc = "leave" => status'[r] \notin ACTIVE /\ status'[r] # "running"
      BY <2>2 DEF GoesOn, ACTIVE, FINAL
    <3> QED BY <2>1, <2>2, <3>1 DEF Held
  <2>3. CASE r # worker.run
    <3>1. status'[r] = status[r]
      BY <2>3 DEF WritesItsRun
    <3>2. (status[r] \in ACTIVE => Held(r)) /\ status[r] # "running"
      BY <2>3 DEF Inv, RunIsHeld
    <3>3. Waiting' = Waiting
      BY <2>1 DEF Waiting
    <3>4. Held(r) => Held(r)'
      BY <2>1, <2>3, <3>3 DEF Held
    <3> QED BY <3>1, <3>2, <3>4
  <2> QED BY <2>2, <2>3
<1> QED BY <1>2, <1>3, <1>4, <1>5, <1>6, <1>7 DEF Inv

\* The task ends while the process stops.
LEMMA WorkerEnds ==
    ASSUME Inv, Executes, WritesItsRun, KeepsTheRest, worker' = Dead, phase = "stopping"
    PROVE  Inv'
<1>1. /\ worker' \in WorkerStates /\ worker'.pc = "dead" /\ worker'.run = NoRun
      /\ ~worker'.cancelling
      /\ worker'.todo = {} /\ worker'.batch = {} /\ worker'.errs = {}
  BY DEF Dead, At, WorkerStates, WorkerPcs
<1>2. TypeOK'
  BY <1>1 DEF Inv, TypeOK, WritesItsRun, KeepsTheRest, WorkerStates, Statuses, ItemStatuses
<1>3. ProcessIsSound'
  BY <1>1 DEF Inv, ProcessIsSound, KeepsTheRest
<1>4. QueueIsSound'
  BY <1>1 DEF Inv, QueueIsSound, KeepsTheRest, Waiting
<1>5. HandsAreSound'
  BY <1>1, OtherHandsKeep DEF HandsAreSound, Executes
<1>6. WorkIsSound'
  BY <1>1, NoBatch DEF WorkIsSound
<1>7. SheetsAreSound'
  BY RowsStaySound
<1>8. RunIsHeld'
  BY DEF RunIsHeld, KeepsTheRest
<1> QED BY <1>2, <1>3, <1>4, <1>5, <1>6, <1>7, <1>8 DEF Inv

\* A CancelledError reaches the worker: its run waits for the requeue, or the
\* task has ended; whatever the call in flight did to the row.
LEMMA CancelKeeps ==
    ASSUME Inv, Executes, WritesItsRun, KeepsTheRest, worker.cancelling,
           worker' = OnCancel(worker)
    PROVE  Inv'
<1>1. phase = "stopping" /\ worker.run \in Runs
  BY ExecutesARun DEF Inv, ProcessIsSound
<1>2. CASE worker.pc \in TryPcs
  <2>1. worker' = At("requeue", worker.run)
    BY <1>2 DEF OnCancel
  <2>2. GoesOn
    BY <1>1, <2>1, NoBatch DEF GoesOn, At, WorkerStates, WorkerPcs, WorkIsSound
  <2> QED BY <2>2, WorkerKeeps
<1>3. CASE worker.pc \notin TryPcs
  BY <1>1, <1>3, WorkerEnds DEF OnCancel
<1> QED BY <1>2, <1>3

-----------------------------------------------------------------------------
(* The steps of execute_evaluation_run, one lemma each. *)

LEMMA ManagerIsKept ==
    ASSUME Inv, KeepManager
    PROVE  KeepsTheRest
BY ConstantsAssumption DEF Inv, TypeOK, KeepManager, KeepsTheRest, history

LEMMA RowsAreKept ==
    ASSUME Inv, Executes, UNCHANGED rows
    PROVE  WritesItsRun /\ status'[worker.run] = status[worker.run]
<1>1. worker.run \in Runs /\ status[worker.run] # "absent"
  BY ExecutesARun DEF ACTIVE, FINAL
<1>2. UNCHANGED <<status, published, item>>
  BY DEF rows
<1>3. \A r \in Runs : TallyOf(r)' = TallyOf(r)
  BY <1>2 DEF TallyOf, Count
<1>4. \A r \in Runs : published'[r] = TallyOf(r)'
  BY <1>2, <1>3 DEF Inv, SheetsAreSound
<1> QED BY <1>1, <1>2, <1>4 DEF Inv, TypeOK, WritesItsRun, Statuses, ItemStatuses

\* A status write reaches the row, for the run in hand was not deleted.
LEMMA StatusIsWritten ==
    ASSUME Inv, Executes, NEW s \in ACTIVE \cup FINAL, set_run_state(worker.run, s),
           UNCHANGED <<published, item>>
    PROVE  WritesItsRun /\ status'[worker.run] = s
<1>1. worker.run \in Runs /\ status[worker.run] # "absent"
  BY ExecutesARun DEF ACTIVE, FINAL
<1>2. status' = [status EXCEPT ![worker.run] = s] /\ status \in [Runs -> Statuses]
  BY <1>1 DEF set_run_state, Inv, TypeOK, Statuses
<1>3. \A r \in Runs : TallyOf(r)' = TallyOf(r)
  BY DEF TallyOf, Count
<1>4. \A r \in Runs : published'[r] = TallyOf(r)'
  BY <1>3 DEF Inv, SheetsAreSound
<1>5. s \in Statuses /\ s # "absent"
  BY DEF Statuses, ACTIVE, FINAL
<1> QED BY <1>1, <1>2, <1>4, <1>5 DEF Inv, TypeOK, WritesItsRun, ItemStatuses

LEMMA InterruptKeeps == ASSUME Inv, Interrupt PROVE Inv'
<1>1. CASE Executes
  BY <1>1, ManagerIsKept, RowsAreKept, CancelKeeps DEF Interrupt
<1>2. CASE ~Executes
  <2>1. worker.pc \notin TryPcs /\ phase = "stopping"
    BY <1>2 DEF Executes, TryPcs, Interrupt, Inv, ProcessIsSound
  <2>2. worker' = Dead /\ UNCHANGED <<status, published, item, created, phase, queue, queued, req, errors, lost>>
    BY <2>1 DEF Interrupt, OnCancel, KeepManager, rows, history
  <2>3. /\ worker' \in WorkerStates /\ worker'.pc = "dead" /\ worker'.run = NoRun
        /\ ~worker'.cancelling
        /\ worker'.todo = {} /\ worker'.batch = {} /\ worker'.errs = {}
    BY <2>2 DEF Dead, At, WorkerStates, WorkerPcs
  <2>4. TypeOK'
    BY <2>2, <2>3 DEF Inv, TypeOK, WorkerStates
  <2>5. ProcessIsSound' /\ QueueIsSound'
    BY <2>1, <2>2, <2>3 DEF Inv, ProcessIsSound, QueueIsSound, Waiting
  <2>6. HandsAreSound'
    BY <2>2, <2>3 DEF Inv, HandsAreSound, Waiting, Executes
  <2>7. WorkIsSound'
    BY <2>3, NoBatch DEF WorkIsSound
  <2>8. SheetsAreSound'
    BY <2>2 DEF Inv, SheetsAreSound, Opened, TallyOf, Count
  <2>9. RunIsHeld'
    BY <2>1, <2>2 DEF RunIsHeld
  <2> QED BY <2>4, <2>5, <2>6, <2>7, <2>8, <2>9 DEF Inv
<1> QED BY <1>1, <1>2

\* With no questions in hand there is nothing to say about them.
LEMMA NoWork ==
    ASSUME NEW pc \in WorkerPcs \ {"check", "mark", "score", "persist", "complete", "complete_early"},
           worker'.pc = pc, worker'.todo = {}, worker'.batch = {}, worker'.errs = {}
    PROVE  WorkIsSound'
BY NoBatch DEF WorkIsSound

\* Each step resumes with the worker it goes on with, or is cancelled.
LEMMA ResumeKeeps ==
    ASSUME Inv, Executes, WritesItsRun, KeepManager, NEW l, Resume(l),
           ~worker.cancelling /\ worker' = l => GoesOn
    PROVE  Inv'
BY ManagerIsKept, CancelKeeps, WorkerKeeps DEF Resume

LEMMA LoadKeeps == ASSUME Inv, credential_run_and_knowledge PROVE Inv'
<1>1. Executes /\ UNCHANGED rows /\ KeepManager
  BY DEF credential_run_and_knowledge, Executes
<1>2. worker \in WorkerStates /\ status'[worker.run] = status[worker.run] /\ WritesItsRun
  BY <1>1, ExecutesARun, RowsAreKept
<1>3. status[worker.run] \in ACTIVE
  BY <1>1 DEF Inv, HandsAreSound, credential_run_and_knowledge
<1>4. worker.batch = {} /\ worker.errs = {}
  BY DEF credential_run_and_knowledge, Inv, WorkIsSound
<1>5. PICK pc \in {"cancel_early", "set_running", "fail_early"} : Goto(pc)
  BY DEF credential_run_and_knowledge
<1> DEFINE l == [worker EXCEPT !.pc = pc]
<1>6. ASSUME ~worker.cancelling, worker' = l PROVE GoesOn
  <2>1. /\ l \in WorkerStates /\ l.pc = pc /\ l.run = worker.run /\ ~l.cancelling
        /\ l.batch = {} /\ l.errs = {}
    BY <1>2, <1>4, <1>6 DEF WorkerStates, WorkerPcs, EarlyPcs
  <2>2. WorkIsSound'
    BY <1>6, <2>1, NoBatch DEF WorkIsSound
  <2> QED BY <1>2, <1>3, <1>6, <2>1, <2>2 DEF GoesOn
<1> QED BY <1>1, <1>2, <1>5, <1>6, ResumeKeeps DEF Goto

LEMMA SetRunningKeeps == ASSUME Inv, set_running PROVE Inv'
<1>1. /\ Executes /\ KeepManager /\ set_run_state(worker.run, "running")
      /\ UNCHANGED <<published, item>> /\ "running" \in ACTIVE
  BY DEF set_running, Executes, ACTIVE
<1>2. worker \in WorkerStates /\ status'[worker.run] \in ACTIVE /\ WritesItsRun
  <2>1. "running" \in ACTIVE \cup FINAL
    BY <1>1
  <2>2. WritesItsRun /\ status'[worker.run] = "running"
    BY <1>1, <2>1, StatusIsWritten
  <2> QED BY <1>1, <2>2, ExecutesARun
<1>3. worker.batch = {} /\ worker.errs = {}
  BY DEF set_running, Inv, WorkIsSound
<1> DEFINE l == [worker EXCEPT !.pc = "pending"]
<1>4. ASSUME ~worker.cancelling, worker' = l PROVE GoesOn
  <2>1. /\ l \in WorkerStates /\ l.pc = "pending" /\ l.run = worker.run /\ ~l.cancelling
        /\ l.batch = {} /\ l.errs = {}
    BY <1>2, <1>3, <1>4 DEF WorkerStates, WorkerPcs, EarlyPcs
  <2>2. WorkIsSound'
    BY <1>4, <2>1, NoBatch DEF WorkIsSound
  <2> QED BY <1>2, <1>4, <2>1, <2>2 DEF GoesOn
<1>5. Resume(l)
  BY DEF set_running, Goto
<1> QED BY <1>1, <1>2, <1>4, <1>5, ResumeKeeps

\* A write to the questions of the run that gives or takes no outcome.
LEMMA ItemsAreWritten ==
    ASSUME Inv, Executes, UNCHANGED <<status, published>>,
           NEW row \in [Items -> ItemStatuses], item' = [item EXCEPT ![worker.run] = row],
           \A i \in Items : IF item[worker.run][i] \in TERMINAL THEN row[i] = item[worker.run][i]
                                                                ELSE row[i] \notin TERMINAL
    PROVE  /\ WritesItsRun /\ status'[worker.run] = status[worker.run]
           /\ item'[worker.run] = row
<1>1. worker.run \in Runs /\ status[worker.run] # "absent"
  BY ExecutesARun DEF ACTIVE, FINAL
<1>2. item \in [Runs -> [Items -> ItemStatuses]]
  BY DEF Inv, TypeOK, ItemStatuses
<1>3. item'[worker.run] = row /\ item' \in [Runs -> [Items -> ItemStatuses]]
      /\ \A r \in Runs : r # worker.run => item'[r] = item[r]
  BY <1>1, <1>2
<1>4. ASSUME NEW r \in Runs PROVE published'[r] = TallyOf(r)'
  <2>1. \A i \in Items : /\ item'[r][i] \in TERMINAL <=> item[r][i] \in TERMINAL
                         /\ item'[r][i] = "error" <=> item[r][i] = "error"
    BY <1>3 DEF TERMINAL
  <2>2. /\ {i \in Items : item'[r][i] \in TERMINAL} = {i \in Items : item[r][i] \in TERMINAL}
        /\ {i \in Items : item'[r][i] \in {"error"}} = {i \in Items : item[r][i] \in {"error"}}
    BY <2>1
  <2>3. TallyOf(r)' = TallyOf(r)
    BY <2>2 DEF TallyOf, Count
  <2>4. published[r] = TallyOf(r)
    BY DEF Inv, SheetsAreSound
  <2> QED BY <2>3, <2>4
<1> QED BY <1>1, <1>3, <1>4 DEF Inv, TypeOK, WritesItsRun, Statuses, ItemStatuses

LEMMA PendingKeeps == ASSUME Inv, pending_items PROVE Inv'
<1> DEFINE todo == {i \in Items : item[worker.run][i] \notin TERMINAL}
           row == [i \in Items |-> IF i \in todo THEN "pending" ELSE item[worker.run][i]]
           l == [worker EXCEPT !.pc = IF todo = {} THEN "complete_early" ELSE "check",
                               !.todo = todo]
<1>1. Executes /\ KeepManager /\ UNCHANGED <<status, published>> /\ Resume(l)
  BY DEF pending_items, Executes
<1>2. worker \in WorkerStates /\ worker.run \in Runs
  BY <1>1, ExecutesARun
<1>3. row \in [Items -> ItemStatuses] /\ item \in [Runs -> [Items -> ItemStatuses]]
  BY <1>2 DEF Inv, TypeOK, ItemStatuses
<1>4. item' = [item EXCEPT ![worker.run] = row]
  BY <1>2, <1>3 DEF pending_items
<1>5. /\ WritesItsRun /\ status'[worker.run] = status[worker.run] /\ item'[worker.run] = row
  <2>1. \A i \in Items : IF item[worker.run][i] \in TERMINAL THEN row[i] = item[worker.run][i]
                                                             ELSE row[i] \notin TERMINAL
    BY DEF TERMINAL
  <2> HIDE DEF row
  <2> QED BY <1>1, <1>3, <1>4, <2>1, ItemsAreWritten
<1>6. status[worker.run] \in ACTIVE /\ worker.batch = {} /\ worker.errs = {}
  BY DEF pending_items, Inv, WorkIsSound, HandsAreSound, Executes
<1>7. ASSUME ~worker.cancelling, worker' = l PROVE GoesOn
  <2>1. /\ l \in WorkerStates /\ l.run = worker.run /\ ~l.cancelling
        /\ l.pc = (IF todo = {} THEN "complete_early" ELSE "check")
        /\ l.todo = todo /\ l.batch = {} /\ l.errs = {}
    BY <1>2, <1>6, <1>7 DEF WorkerStates, WorkerPcs, EarlyPcs, TryPcs
  <2>2. Opened(worker.run)' = todo /\ \A i \in todo : item'[worker'.run][i] = "pending"
    BY <1>5, <1>7, <2>1 DEF Opened, TERMINAL
  <2>3. WorkIsSound'
    BY <1>7, <2>1, <2>2, NoBatch DEF WorkIsSound
  <2> QED BY <1>5, <1>6, <1>7, <2>1, <2>3, SMTT(30) DEF GoesOn
<1> HIDE DEF l
<1> QED BY <1>1, <1>5, <1>7, ResumeKeeps

LEMMA RunStatusKeeps == ASSUME Inv, run_status PROVE Inv'
<1>1. Executes /\ UNCHANGED rows /\ KeepManager /\ worker.pc = "check"
  BY DEF run_status, Executes
<1>2. worker \in WorkerStates /\ status'[worker.run] = status[worker.run] /\ WritesItsRun
  BY <1>1, ExecutesARun, RowsAreKept
<1>3. status[worker.run] \in ACTIVE
  BY <1>1 DEF Inv, HandsAreSound, Executes
<1>4. /\ worker.batch = {} /\ worker.errs = {} /\ Opened(worker.run) = worker.todo
      /\ \A i \in worker.todo : item[worker.run][i] = "pending"
  BY <1>1 DEF Inv, WorkIsSound
<1>5. PICK l : /\ Resume(l)
               /\ \/ l = [worker EXCEPT !.pc = "complete"] /\ worker.todo = {}
                  \/ l = [worker EXCEPT !.pc = "cancel"]
                  \/ l = [worker EXCEPT !.pc = "mark", !.batch = FirstOf(worker.todo)]
  BY DEF run_status, Goto
<1>6. ASSUME ~worker.cancelling, worker' = l PROVE GoesOn
  <2>1. FirstOf(worker.todo) \subseteq worker.todo /\ Cardinality(FirstOf(worker.todo)) <= MaxConcurrency
        /\ worker.todo \in SUBSET Items
    BY <1>2, BatchIsBounded DEF WorkerStates
  <2>2. /\ l \in WorkerStates /\ l.run = worker.run /\ ~l.cancelling
        /\ l.todo = worker.todo /\ l.errs = {}
        /\ \/ l.pc = "complete" /\ worker.todo = {} /\ l.batch = {}
           \/ l.pc = "cancel" /\ l.batch = {}
           \/ l.pc = "mark" /\ l.batch = FirstOf(worker.todo)
    <3>1. CASE l = [worker EXCEPT !.pc = "complete"] /\ worker.todo = {}
      BY <1>2, <1>4, <1>6, <3>1 DEF WorkerStates, WorkerPcs, TryPcs
    <3>2. CASE l = [worker EXCEPT !.pc = "cancel"]
      BY <1>2, <1>4, <1>6, <3>2 DEF WorkerStates, WorkerPcs, TryPcs
    <3>3. CASE l = [worker EXCEPT !.pc = "mark", !.batch = FirstOf(worker.todo)]
      BY <1>2, <1>4, <1>6, <2>1, <3>3 DEF WorkerStates, WorkerPcs, TryPcs
    <3> QED BY <1>5, <3>1, <3>2, <3>3
  <2>3. item' = item /\ Opened(worker.run)' = worker.todo
    BY <1>1, <1>4, <1>6, <2>2 DEF rows, Opened
  <2>4. WorkIsSound'
    BY <1>4, <1>6, <2>1, <2>2, <2>3, NoBatch DEF WorkIsSound
  <2> QED BY <1>2, <1>3, <1>6, <2>2, <2>4 DEF GoesOn
<1> QED BY <1>1, <1>2, <1>5, <1>6, ResumeKeeps

LEMMA MarkKeeps == ASSUME Inv, mark_items_running PROVE Inv'
<1> DEFINE row == [i \in Items |-> IF i \in worker.batch /\ item[worker.run][i] = "pending"
                                   THEN "running" ELSE item[worker.run][i]]
           l == [worker EXCEPT !.pc = "score"]
<1>1. /\ Executes /\ KeepManager /\ UNCHANGED <<status, published>> /\ Resume(l)
      /\ worker.pc = "mark"
  BY DEF mark_items_running, Executes, Goto
<1>2. worker \in WorkerStates /\ worker.run \in Runs
  BY <1>1, ExecutesARun
<1>3. row \in [Items -> ItemStatuses] /\ item \in [Runs -> [Items -> ItemStatuses]]
  BY <1>2 DEF Inv, TypeOK, ItemStatuses
<1>4. item' = [item EXCEPT ![worker.run] = row]
  BY <1>2, <1>3 DEF mark_items_running
<1>5. /\ WritesItsRun /\ status'[worker.run] = status[worker.run] /\ item'[worker.run] = row
  <2>1. \A i \in Items : IF item[worker.run][i] \in TERMINAL THEN row[i] = item[worker.run][i]
                                                             ELSE row[i] \notin TERMINAL
    BY DEF TERMINAL
  <2> HIDE DEF row
  <2> QED BY <1>1, <1>3, <1>4, <2>1, ItemsAreWritten
<1>6. /\ status[worker.run] \in ACTIVE /\ Opened(worker.run) = worker.todo
      /\ worker.batch \subseteq worker.todo /\ worker.errs = {}
      /\ Cardinality(worker.batch) <= MaxConcurrency
      /\ \A i \in worker.todo : item[worker.run][i] = "pending"
  BY <1>1 DEF Inv, WorkIsSound, HandsAreSound, Executes
<1>7. ASSUME ~worker.cancelling, worker' = l PROVE GoesOn
  <2>1. /\ l \in WorkerStates /\ l.run = worker.run /\ ~l.cancelling /\ l.pc = "score"
        /\ l.todo = worker.todo /\ l.batch = worker.batch /\ l.errs = {}
    BY <1>2, <1>6, <1>7 DEF WorkerStates, WorkerPcs, TryPcs
  <2>2. \A i \in Items : row[i] \notin TERMINAL <=> i \in worker.todo
    BY <1>6 DEF Opened, TERMINAL
  <2>3. Opened(worker.run)' = worker.todo
    BY <1>2, <1>5, <1>7, <2>1, <2>2 DEF Opened, WorkerStates
  <2>4. \A i \in worker.todo : row[i] = IF i \in worker.batch THEN "running" ELSE "pending"
    BY <1>2, <1>6 DEF WorkerStates
  <2>5. WorkIsSound'
    <3> HIDE DEF row
    <3> QED BY <1>5, <1>6, <1>7, <2>1, <2>3, <2>4 DEF WorkIsSound
  <2> QED BY <1>5, <1>6, <1>7, <2>1, <2>5 DEF GoesOn
<1> HIDE DEF l
<1> QED BY <1>1, <1>5, <1>7, ResumeKeeps

LEMMA ScoreKeeps == ASSUME Inv, score_batch PROVE Inv'
<1>1. Executes /\ UNCHANGED rows /\ KeepManager /\ worker.pc = "score" /\ ~worker.cancelling
  BY DEF score_batch, Executes
<1>2. worker \in WorkerStates /\ status'[worker.run] = status[worker.run] /\ WritesItsRun
  BY <1>1, ExecutesARun, RowsAreKept
<1>3. PICK errs \in SUBSET worker.batch : \E fatal \in BOOLEAN :
         worker' = [worker EXCEPT !.pc = "persist", !.errs = errs, !.fatal = fatal]
  BY DEF score_batch
<1>4. /\ worker' \in WorkerStates /\ worker'.pc = "persist" /\ worker'.run = worker.run
      /\ ~worker'.cancelling /\ worker'.todo = worker.todo /\ worker'.batch = worker.batch
      /\ worker'.errs = errs
  BY <1>1, <1>2, <1>3 DEF WorkerStates, WorkerPcs, TryPcs
<1>5. item' = item /\ Opened(worker.run)' = Opened(worker.run)
  BY <1>1, <1>4 DEF rows, Opened
<1>6. WorkIsSound'
  BY <1>1, <1>3, <1>4, <1>5 DEF Inv, WorkIsSound
<1>7. GoesOn
  BY <1>1, <1>2, <1>4, <1>6 DEF GoesOn, Inv, HandsAreSound, Executes
<1> QED BY <1>1, <1>2, <1>7, ManagerIsKept, WorkerKeeps

\* The outcomes of a batch: what was left open and was not in it still is.
LEMMA PersistWrites ==
    ASSUME Inv, persist_outcomes
    PROVE  /\ WritesItsRun /\ status'[worker.run] = status[worker.run]
           /\ {i \in Items : item'[worker.run][i] \notin TERMINAL} = worker.todo \ worker.batch
           /\ \A i \in worker.todo \ worker.batch : item'[worker.run][i] = "pending"
<1> DEFINE row == [i \in Items |-> Outcome(worker.run, i)]
<1>1. /\ Executes /\ worker.pc = "persist" /\ UNCHANGED status
      /\ published' = [published EXCEPT ![worker.run] = Published(worker.run)]
      /\ item' = [item EXCEPT ![worker.run] = row]
  BY DEF persist_outcomes, Executes
<1>2. worker \in WorkerStates /\ worker.run \in Runs /\ status[worker.run] # "absent"
  BY <1>1, ExecutesARun DEF ACTIVE, FINAL
<1>3. item \in [Runs -> [Items -> ItemStatuses]]
  BY DEF Inv, TypeOK, ItemStatuses
<1>4. row \in [Items -> ItemStatuses] /\ \A i \in Items : row[i] = Outcome(worker.run, i)
  BY <1>2, <1>3 DEF Outcome, ItemStatuses, TERMINAL
<1>5. item'[worker.run] = row /\ item' \in [Runs -> [Items -> ItemStatuses]]
      /\ \A r \in Runs : r # worker.run => item'[r] = item[r]
  <2> HIDE DEF row
  <2> QED BY <1>1, <1>2, <1>3, <1>4
<1>6. /\ Opened(worker.run) = worker.todo /\ worker.batch \subseteq worker.todo
      /\ \A i \in worker.todo :
            item[worker.run][i] = IF i \in worker.batch THEN "running" ELSE "pending"
  BY <1>1 DEF Inv, WorkIsSound
<1>7. \A i \in Items : /\ row[i] \notin TERMINAL <=> i \in worker.todo \ worker.batch
                       /\ i \in worker.todo \ worker.batch => row[i] = "pending"
  BY <1>4, <1>6 DEF Outcome, Opened, TERMINAL
<1>8. ASSUME NEW r \in Runs PROVE published'[r] = TallyOf(r)'
  <2>1. CASE r = worker.run
    <3>1. /\ {i \in Items : item'[r][i] \in TERMINAL}
               = {i \in Items : Outcome(worker.run, i) \in TERMINAL}
          /\ {i \in Items : item'[r][i] \in {"error"}}
               = {i \in Items : Outcome(worker.run, i) = "error"}
      <4> HIDE DEF row
      <4> QED BY <1>4, <1>5, <2>1
    <3>2. TallyOf(r)' = Published(worker.run)
      BY <3>1 DEF TallyOf, Count, Published
    <3>3. published'[r] = Published(worker.run)
      BY <1>1, <2>1 DEF Inv, TypeOK
    <3> QED BY <3>2, <3>3
  <2>2. CASE r # worker.run
    <3>1. item'[r] = item[r] /\ published'[r] = published[r]
      BY <1>1, <1>5, <2>2 DEF Inv, TypeOK
    <3>2. TallyOf(r)' = TallyOf(r)
      BY <3>1 DEF TallyOf, Count
    <3>3. published[r] = TallyOf(r)
      BY DEF Inv, SheetsAreSound
    <3> QED BY <3>1, <3>2, <3>3
  <2> QED BY <2>1, <2>2
<1>9. published' \in [Runs -> [completed : 0 .. NumItems, errors : 0 .. NumItems]]
  <2>1. Published(worker.run) \in [completed : 0 .. NumItems, errors : 0 .. NumItems]
    <3>1. /\ {i \in Items : Outcome(worker.run, i) \in TERMINAL} \in SUBSET Items
          /\ {i \in Items : Outcome(worker.run, i) = "error"} \in SUBSET Items
      OBVIOUS
    <3> QED BY <3>1, CountType DEF Published
  <2> QED BY <1>1, <1>2, <2>1 DEF Inv, TypeOK
<1>10. WritesItsRun
  <2>1. \A r \in Runs : r # worker.run => published'[r] = published[r]
    BY <1>1 DEF Inv, TypeOK
  <2> QED BY <1>1, <1>2, <1>5, <1>8, <1>9, <2>1 DEF WritesItsRun, Inv, TypeOK, Statuses
<1>11. worker.todo \subseteq Items
  BY <1>2 DEF WorkerStates
<1>12. \A i \in Items : item'[worker.run][i] = row[i]
  BY <1>5
<1> HIDE DEF row
<1>13. {i \in Items : item'[worker.run][i] \notin TERMINAL} = worker.todo \ worker.batch
  BY <1>7, <1>11, <1>12
<1> QED BY <1>1, <1>7, <1>10, <1>11, <1>12, <1>13

LEMMA PersistKeeps == ASSUME Inv, persist_outcomes PROVE Inv'
<1> DEFINE l == [worker EXCEPT !.pc = IF worker.fatal THEN "abort" ELSE "check",
                               !.todo = worker.todo \ worker.batch,
                               !.batch = {}, !.errs = {}, !.fatal = FALSE]
<1>1. Executes /\ KeepManager /\ worker.pc = "persist" /\ Resume(l)
  BY DEF persist_outcomes, Executes
<1>2. worker \in WorkerStates /\ status[worker.run] \in ACTIVE
  BY <1>1, ExecutesARun DEF Inv, HandsAreSound
<1>3. ASSUME ~worker.cancelling, worker' = l PROVE GoesOn
  <2>1. /\ l \in WorkerStates /\ l.run = worker.run /\ ~l.cancelling /\ l.pc \in {"abort", "check"}
        /\ l.todo = worker.todo \ worker.batch /\ l.batch = {} /\ l.errs = {}
    BY <1>2, <1>3 DEF WorkerStates, WorkerPcs, TryPcs
  <2> HIDE DEF l
  <2>2. /\ Opened(worker.run)' = worker.todo \ worker.batch
        /\ \A i \in worker.todo \ worker.batch : item'[worker'.run][i] = "pending"
    BY <1>3, <2>1, PersistWrites DEF Opened
  <2>3. WorkIsSound'
    BY <1>3, <2>1, <2>2, NoBatch DEF WorkIsSound
  <2> QED BY <1>2, <1>3, <2>1, <2>3, PersistWrites DEF GoesOn
<1> HIDE DEF l
<1> QED BY <1>1, <1>3, PersistWrites, ResumeKeeps

LEMMA LastStateKeeps == ASSUME Inv, set_last_state PROVE Inv'
<1> DEFINE l == At("leave", worker.run)
<1>1. /\ Executes /\ KeepManager /\ UNCHANGED <<published, item>> /\ Resume(l)
      /\ worker.pc \in DOMAIN LastState
      /\ set_run_state(worker.run, LastState[worker.pc])
  BY DEF set_last_state, LastState, Executes
<1>2. LastState[worker.pc] \in FINAL
  BY <1>1 DEF LastState, FINAL
<1>3. WritesItsRun /\ status'[worker.run] \in FINAL
  <2>1. PICK s \in FINAL : s = LastState[worker.pc]
    BY <1>2
  <2> QED BY <1>1, <2>1, StatusIsWritten
<1>4. ASSUME ~worker.cancelling, worker' = l PROVE GoesOn
  <2>1. /\ l \in WorkerStates /\ l.run = worker.run /\ ~l.cancelling /\ l.pc = "leave"
        /\ l.todo = {} /\ l.batch = {} /\ l.errs = {}
    BY <1>1, ExecutesARun, AtIs DEF WorkerPcs
  <2> HIDE DEF l
  <2>2. WorkIsSound'
    BY <1>4, <2>1, NoWork DEF WorkerPcs
  <2> QED BY <1>3, <1>4, <2>1, <2>2 DEF GoesOn, FINAL
<1> HIDE DEF l
<1> QED BY <1>1, <1>3, <1>4, ResumeKeeps

LEMMA RequeueKeeps == ASSUME Inv, requeue PROVE Inv'
<1>1. /\ Executes /\ KeepManager /\ UNCHANGED <<published, item>> /\ worker' = Dead
      /\ set_run_state(worker.run, "queued") /\ phase = "stopping"
  BY DEF requeue, Executes, Inv, ProcessIsSound
<1>2. WritesItsRun
  <2>1. "queued" \in ACTIVE \cup FINAL
    BY DEF ACTIVE
  <2> QED BY <1>1, <2>1, StatusIsWritten
<1> QED BY <1>1, <1>2, ManagerIsKept, WorkerEnds

LEMMA CallErrorKeeps == ASSUME Inv, CallError PROVE Inv'
<1>1. /\ UNCHANGED rows /\ UNCHANGED <<created, phase, queue, req>>
      /\ errors' \in errors .. MaxErrors /\ errors' \in 0 .. MaxErrors
      /\ ~worker.cancelling /\ Executes
  BY ConstantsAssumption, SMTT(30) DEF CallError, rows, Inv, TypeOK, Executes, TryPcs, EarlyPcs, Handling
<1>2. /\ worker \in WorkerStates /\ worker.run \in Runs /\ WritesItsRun
      /\ status'[worker.run] = status[worker.run]
  BY <1>1, ExecutesARun, RowsAreKept
<1>3. CASE worker.pc # "loop_failing"
  <2>1. KeepsTheRest
    BY <1>1, <1>3 DEF CallError, KeepsTheRest
  <2>2. PICK pc \in {"failing", "loop_failing"} :
           worker' = At(pc, worker.run) /\ (pc = "failing" => worker.pc \in TryPcs)
    BY <1>3 DEF CallError
  <2>3. /\ worker' \in WorkerStates /\ worker'.run = worker.run /\ ~worker'.cancelling /\ worker'.pc = pc
        /\ worker'.todo = {} /\ worker'.batch = {} /\ worker'.errs = {}
    BY <1>2, <2>2, AtIs DEF WorkerPcs, Handling
  <2>4. WorkIsSound'
    BY <2>3, NoWork DEF WorkerPcs, Handling
  <2>5. \/ status'[worker.run] \in ACTIVE
        \/ phase = "stopping" /\ pc = "loop_failing"
    BY <1>1, <1>2, <1>3, <2>2 DEF Inv, HandsAreSound, TryPcs
  <2>6. GoesOn
    BY <2>3, <2>4, <2>5 DEF GoesOn
  <2> QED BY <1>1, <1>2, <2>1, <2>6, WorkerKeeps
<1>4. CASE worker.pc = "loop_failing"
  <2>1. worker' = Dead /\ queued' = queued \ {worker.run}
    BY <1>4 DEF CallError, TryPcs, EarlyPcs
  <2>2. /\ worker' \in WorkerStates /\ worker'.pc = "dead" /\ worker'.run = NoRun
        /\ ~worker'.cancelling
        /\ worker'.todo = {} /\ worker'.batch = {} /\ worker'.errs = {}
    BY <2>1 DEF Dead, At, WorkerStates, WorkerPcs
  <2>3. UNCHANGED <<status, published, item, created, phase, queue, req>>
        /\ lost' = lost \cup Waiting \cup {worker.run} /\ Waiting \subseteq Runs
    BY <1>1, <1>4 DEF rows, CallError, Waiting, Inv, TypeOK
  <2>4. TypeOK'
    BY <1>1, <1>2, <2>1, <2>2, <2>3 DEF Inv, TypeOK, WorkerStates
  <2>5. ProcessIsSound'
    BY <1>1, <2>2, <2>3, ExecutesARun DEF Inv, ProcessIsSound
  <2>6. QueueIsSound'
    <3>1. Waiting' = Waiting /\ worker.run \notin Waiting
      BY <1>1, ExecutesARun DEF Waiting
    <3> QED BY <2>1, <2>2, <2>3, <3>1 DEF Inv, QueueIsSound
  <2>7. HandsAreSound'
    BY <2>2, <2>3 DEF Inv, HandsAreSound, Waiting, Executes
  <2>8. WorkIsSound'
    BY <2>2, NoBatch DEF WorkIsSound
  <2>9. SheetsAreSound'
    BY <2>3 DEF Inv, SheetsAreSound, Opened, TallyOf, Count
  <2>10. RunIsHeld'
    <3>1. \A r \in Runs \ lost' : Held(r) => Held(r)'
      BY <2>3 DEF Held
    <3> QED BY <2>3, <3>1 DEF Inv, RunIsHeld
  <2> QED BY <2>4, <2>5, <2>6, <2>7, <2>8, <2>9, <2>10 DEF Inv
<1> QED BY <1>3, <1>4

LEMMA GetKeeps == ASSUME Inv, worker_loop_get PROVE Inv'
<1>1. /\ UNCHANGED <<status, published, item, created, phase, queued, req, errors, lost>>
      /\ worker.pc = "get" /\ queue # <<>> /\ queue' = Tail(queue) /\ ~worker.cancelling
  BY DEF worker_loop_get, rows, history
<1>2. PICK r \in Runs : r = Head(queue) /\ r # NoRun
  BY <1>1, ConstantsAssumption DEF Inv, TypeOK, Runs, NoRun
<1>3. /\ worker' \in WorkerStates /\ worker'.pc = "load" /\ worker'.run = r
      /\ ~worker'.cancelling
      /\ worker'.todo = {} /\ worker'.batch = {} /\ worker'.errs = {}
  BY <1>2, AtIs DEF worker_loop_get, WorkerPcs, EarlyPcs
<1>4. /\ queue \in Seq(Runs) /\ queue' \in Seq(Runs) /\ Len(queue) \in Nat \ {0}
      /\ Len(queue') = Len(queue) - 1
      /\ r = queue[1] /\ \A n \in 1 .. Len(queue') : queue'[n] = queue[n + 1]
  BY <1>1, <1>2 DEF Inv, TypeOK
<1>5. /\ \A m, n \in DOMAIN queue : queue[m] = queue[n] => m = n
      /\ DOMAIN queue = 1 .. Len(queue) /\ DOMAIN queue' = 1 .. Len(queue')
  BY <1>4 DEF Inv, QueueIsSound
<1>6. /\ \A m, n \in DOMAIN queue' : queue'[m] = queue'[n] => m = n
      /\ Waiting' = Waiting \ {r} /\ r \in Waiting
  <2>1. \A n \in DOMAIN queue' : n + 1 \in DOMAIN queue /\ n + 1 # 1 /\ queue'[n] = queue[n + 1]
    BY <1>4, <1>5
  <2>2. \A n \in DOMAIN queue : n # 1 => n - 1 \in DOMAIN queue' /\ n - 1 + 1 = n
    BY <1>4, <1>5
  <2>3. 1 \in DOMAIN queue
    BY <1>4, <1>5
  <2>4. \A m, n \in DOMAIN queue' : queue'[m] = queue'[n] => m = n
    <3> SUFFICES ASSUME NEW m \in DOMAIN queue', NEW n \in DOMAIN queue', queue'[m] = queue'[n]
                 PROVE  m = n
      OBVIOUS
    <3>1. m + 1 = n + 1
      BY <1>5, <2>1
    <3> QED BY <3>1, <1>5
  <2>5. Waiting' = Waiting \ {r}
    <3>1. ASSUME NEW x \in Waiting' PROVE x \in Waiting \ {r}
      BY <1>4, <1>5, <2>1, <2>3, <3>1 DEF Waiting
    <3>2. ASSUME NEW x \in Waiting \ {r} PROVE x \in Waiting'
      <4>1. PICK n \in DOMAIN queue : x = queue[n] /\ n # 1
        BY <1>4, <3>2 DEF Waiting
      <4>2. n - 1 \in DOMAIN queue' /\ queue'[n - 1] = x
        BY <2>1, <2>2, <4>1
      <4> QED BY <4>2 DEF Waiting
    <3> QED BY <3>1, <3>2
  <2>6. r \in Waiting
    BY <1>4, <2>3 DEF Waiting
  <2> QED BY <2>4, <2>5, <2>6
<1>7. TypeOK'
  BY <1>1, <1>3, <1>4 DEF Inv, TypeOK, WorkerStates
<1>8. ProcessIsSound'
  BY <1>1, <1>3 DEF Inv, ProcessIsSound
<1>9. QueueIsSound'
  BY <1>1, <1>2, <1>3, <1>6 DEF Inv, QueueIsSound
<1>10. HandsAreSound'
  <2>1. status[r] \in ACTIVE
    BY <1>6 DEF Inv, HandsAreSound, ACTIVE
  <2> QED BY <1>1, <1>3, <1>6, <2>1 DEF Inv, HandsAreSound, Executes
<1>11. WorkIsSound'
  BY <1>3, NoBatch DEF WorkIsSound
<1>12. SheetsAreSound'
  BY <1>1 DEF Inv, SheetsAreSound, Opened, TallyOf, Count
<1>13. RunIsHeld'
  <2>1. ~Executes /\ Executes' /\ worker'.pc # "dead"
    BY <1>1, <1>3 DEF Executes
  <2>2. \A s \in Runs : Held(s) => Held(s)'
    BY <1>1, <1>3, <1>6, <2>1 DEF Held
  <2> QED BY <1>1, <2>1, <2>2 DEF Inv, RunIsHeld
<1> QED BY <1>7, <1>8, <1>9, <1>10, <1>11, <1>12, <1>13 DEF Inv

LEMMA FinallyKeeps == ASSUME Inv, worker_loop_finally PROVE Inv'
<1>1. /\ UNCHANGED <<status, published, item, created, phase, queue, req, errors, lost>>
      /\ worker.pc = "leave" /\ queued' = queued \ {worker.run} /\ ~worker.cancelling
  BY DEF worker_loop_finally, rows, history
<1>2. /\ worker' \in WorkerStates /\ worker'.pc = "get" /\ worker'.run = NoRun
      /\ ~worker'.cancelling
      /\ worker'.todo = {} /\ worker'.batch = {} /\ worker'.errs = {}
  BY AtIs DEF worker_loop_finally, WorkerPcs
<1>3. worker.run \in Runs /\ worker.run # NoRun
  BY <1>1, ConstantsAssumption DEF Inv, TypeOK, Runs, NoRun
<1>4. worker.run \notin Waiting /\ status[worker.run] \notin {"queued", "running"}
  BY <1>1, <1>3 DEF Inv, QueueIsSound, HandsAreSound
<1>5. TypeOK'
  BY <1>1, <1>2 DEF Inv, TypeOK, WorkerStates
<1>6. ProcessIsSound'
  BY <1>1, <1>2 DEF Inv, ProcessIsSound, Dead, At
<1>7. QueueIsSound'
  BY <1>1, <1>2, <1>4 DEF Inv, QueueIsSound, Waiting
<1>8. HandsAreSound'
  BY <1>1, <1>2 DEF Inv, HandsAreSound, Waiting, Executes
<1>9. WorkIsSound'
  BY <1>2, NoBatch DEF WorkIsSound
<1>10. SheetsAreSound'
  BY <1>1 DEF Inv, SheetsAreSound, Opened, TallyOf, Count
<1>11. RunIsHeld'
  <2>1. ~Executes /\ worker.pc # "dead" /\ worker'.pc # "dead" /\ Waiting' = Waiting
    BY <1>1, <1>2 DEF Executes, Waiting
  <2>2. \A s \in Runs : Held(s) => Held(s)'
    BY <1>1, <2>1 DEF Held
  <2> QED BY <1>1, <2>1, <2>2 DEF Inv, RunIsHeld
<1> QED BY <1>5, <1>6, <1>7, <1>8, <1>9, <1>10, <1>11 DEF Inv

-----------------------------------------------------------------------------
(* The process and its queue. *)

\* What a start, a stop and the end of a process leave of the runs.
LEMMA InitInv == ASSUME Init PROVE Inv
<1>1. /\ worker \in WorkerStates /\ worker.pc = "dead" /\ worker.run = NoRun
      /\ ~worker.cancelling /\ worker = Dead
      /\ worker.todo = {} /\ worker.batch = {} /\ worker.errs = {}
  <2>1. worker = Dead /\ Dead = At("dead", NoRun)
    BY DEF Init, Dead
  <2>2. "dead" \in WorkerPcs /\ NoRun \in Runs \cup {NoRun}
    BY DEF WorkerPcs
  <2> HIDE DEF Dead
  <2> QED BY <2>1, <2>2, AtIs
<1>2. 0 \in 0 .. MaxRuns /\ 0 \in 0 .. MaxErrors /\ 0 \in 0 .. NumItems
  BY ConstantsAssumption
<1>3. /\ status = [r \in Runs |-> "absent"] /\ published = [r \in Runs |-> NothingPublished]
      /\ item = [r \in Runs |-> [i \in Items |-> "pending"]] /\ created = 0 /\ phase = "down"
      /\ queue = <<>> /\ queued = {} /\ req = [q \in Requests |-> IdleRequest]
      /\ errors = 0 /\ lost = {}
  BY DEF Init
<1>4. \A q \in Requests : req[q].pc = "idle"
  BY <1>3 DEF IdleRequest
<1>5. TypeOK
  <2>1. queue \in Seq(Runs)
    BY <1>3
  <2>2. NothingPublished \in [completed : 0 .. NumItems, errors : 0 .. NumItems]
    BY <1>2 DEF NothingPublished
  <2>3. IdleRequest \in [pc : {"idle", "create", "enqueue", "cancel", "delete"},
                         run : Runs \cup {NoRun}]
    BY DEF IdleRequest
  <2> QED BY <1>1, <1>2, <1>3, <1>4, <2>1, <2>2, <2>3 DEF TypeOK, WorkerStates
<1>6. ProcessIsSound
  BY <1>1, <1>3, <1>4 DEF ProcessIsSound
<1>7. Waiting = {}
  BY <1>3 DEF Waiting
<1>8. QueueIsSound
  BY <1>1, <1>3, <1>4, <1>7 DEF QueueIsSound
<1>9. HandsAreSound
  BY <1>1, <1>3, <1>4, <1>7 DEF HandsAreSound, Executes
<1>10. WorkIsSound
  BY <1>1, NoBatch DEF WorkIsSound
<1>11. SheetsAreSound
  <2>1. \A r \in Runs : Opened(r) = Items
    BY <1>3 DEF Opened, TERMINAL
  <2>2. \A r \in Runs : TallyOf(r) = NothingPublished
    <3> TAKE r \in Runs
    <3>1. {i \in Items : item[r][i] \in TERMINAL} = {} /\ {i \in Items : item[r][i] \in {"error"}} = {}
      BY <1>3 DEF TERMINAL
    <3> QED BY <3>1, FS_EmptySet DEF TallyOf, Count, NothingPublished
  <2> QED BY <1>3, <2>1, <2>2 DEF SheetsAreSound
<1>12. RunIsHeld
  BY <1>3 DEF RunIsHeld
<1> QED BY <1>5, <1>6, <1>8, <1>9, <1>10, <1>11, <1>12 DEF Inv

\* A sheet with the same rows is as sound as it was.
LEMMA SameRows ==
    ASSUME Inv, UNCHANGED <<published, item>>,
           \A r \in Runs : status'[r] = "absent" => status[r] = "absent"
    PROVE  SheetsAreSound'
BY DEF Inv, SheetsAreSound, Opened, TallyOf, Count

\* The memory of the process is gone: nobody has a run any more.
LEMMA ForgetKeeps ==
    ASSUME Inv, ForgetMemory, UNCHANGED rows
    PROVE  Inv'
<1>1. /\ worker' \in WorkerStates /\ worker'.pc = "dead" /\ worker'.run = NoRun
      /\ ~worker'.cancelling /\ worker' = Dead
      /\ worker'.todo = {} /\ worker'.batch = {} /\ worker'.errs = {}
  BY AtIs DEF ForgetMemory, Dead, WorkerPcs
<1>2. /\ UNCHANGED <<status, published, item, created>> /\ phase' = "down"
      /\ errors' = 0 /\ lost' = {} /\ 0 \in 0 .. MaxErrors
      /\ queue' = <<>> /\ queued' = {} /\ req' = [q \in Requests |-> IdleRequest]
  BY ConstantsAssumption DEF ForgetMemory, rows
<1>3. \A q \in Requests : req'[q].pc = "idle"
  BY <1>2 DEF IdleRequest
<1>4. TypeOK'
  <2>1. queue' \in Seq(Runs)
    BY <1>2
  <2>2. IdleRequest \in [pc : {"idle", "create", "enqueue", "cancel", "delete"},
                         run : Runs \cup {NoRun}]
    BY DEF IdleRequest
  <2> QED BY <1>1, <1>2, <1>3, <2>1, <2>2 DEF Inv, TypeOK, WorkerStates
<1>5. ProcessIsSound'
  BY <1>1, <1>2, <1>3 DEF ProcessIsSound
<1>6. Waiting' = {}
  BY <1>2 DEF Waiting
<1>7. QueueIsSound'
  BY <1>1, <1>2, <1>3, <1>6 DEF QueueIsSound
<1>8. HandsAreSound'
  BY <1>1, <1>2, <1>3, <1>6 DEF Inv, HandsAreSound, Executes
<1>9. WorkIsSound'
  BY <1>1, NoBatch DEF WorkIsSound
<1>10. SheetsAreSound'
  BY <1>2, SameRows
<1>11. RunIsHeld'
  BY <1>2 DEF RunIsHeld
<1> QED BY <1>4, <1>5, <1>7, <1>8, <1>9, <1>10, <1>11 DEF Inv

LEMMA CrashKeeps == ASSUME Inv, Crash PROVE Inv'
BY ForgetKeeps DEF Crash

LEMMA StoppedKeeps == ASSUME Inv, stopped PROVE Inv'
BY ForgetKeeps DEF stopped

LEMMA StopKeeps == ASSUME Inv, stop PROVE Inv'
<1>1. /\ UNCHANGED <<status, published, item, created, queue, queued, req, errors, lost>>
      /\ phase = "up" /\ phase' = "stopping" /\ \A q \in Requests : req[q].pc = "idle"
  BY DEF stop, rows, history
<1>2. worker \in WorkerStates /\ worker' \in WorkerStates /\ worker'.pc = worker.pc
      /\ worker'.run = worker.run /\ worker'.todo = worker.todo
      /\ worker'.batch = worker.batch /\ worker'.errs = worker.errs
  BY DEF stop, Inv, TypeOK, WorkerStates
<1>3. TypeOK'
  BY <1>1, <1>2 DEF Inv, TypeOK, WorkerStates
<1>4. ProcessIsSound' /\ QueueIsSound'
  BY <1>1, <1>2 DEF Inv, ProcessIsSound, QueueIsSound, Waiting
<1>5. HandsAreSound'
  BY <1>1, <1>2 DEF Inv, HandsAreSound, Waiting, Executes
<1>6. WorkIsSound'
  BY <1>1, <1>2 DEF Inv, WorkIsSound, Opened
<1>7. SheetsAreSound'
  BY <1>1, SameRows
<1>8. RunIsHeld'
  BY <1>1 DEF RunIsHeld
<1> QED BY <1>3, <1>4, <1>5, <1>6, <1>7, <1>8 DEF Inv

\* The queue start() fills holds every unfinished run once.
LEMMA QueueOf ==
    ASSUME NEW S \in SUBSET Runs, NEW q \in InCreationOrder(S)
    PROVE  /\ q \in Seq(S) /\ q \in Seq(Runs)
           /\ \A m, n \in DOMAIN q : q[m] = q[n] => m = n
           /\ {q[n] : n \in DOMAIN q} = S
<1>1. PICK k \in 0 .. MaxRuns : q \in [1 .. k -> S]
  BY DEF InCreationOrder
<1>2. DOMAIN q = 1 .. k /\ k \in Nat /\ q \in Seq(S)
  BY <1>1, ConstantsAssumption
<1>3. q \in Seq(Runs)
  BY <1>1, <1>2
<1>4. /\ \A a, b \in DOMAIN q : a < b => q[a] < q[b]
      /\ \A r \in S : \E a \in DOMAIN q : q[a] = r
  BY DEF InCreationOrder
<1>5. ASSUME NEW m \in DOMAIN q, NEW n \in DOMAIN q, q[m] = q[n] PROVE m = n
  <2>1. m \in Int /\ n \in Int /\ q[m] \in Int /\ q[n] \in Int
    <3>1. m \in 1 .. k /\ n \in 1 .. k
      BY <1>2
    <3>2. q[m] \in S /\ q[n] \in S
      BY <1>1, <3>1
    <3>3. q[m] \in Runs /\ q[n] \in Runs
      BY <3>2
    <3> QED BY <3>1, <3>3, <1>2, ConstantsAssumption DEF Runs
  <2> QED BY <1>4, <1>5, <2>1
<1>6. {q[n] : n \in DOMAIN q} = S
  BY <1>1, <1>4
<1> QED BY <1>2, <1>3, <1>5, <1>6

LEMMA StartKeeps == ASSUME Inv, start PROVE Inv'
<1>1. /\ UNCHANGED <<published, item, created, req, errors, lost>>
      /\ phase = "down" /\ phase' = "up" /\ worker = Dead
      /\ status' = Recovered /\ queued' = Unfinished /\ queue' \in InCreationOrder(Unfinished)
      /\ \A q \in Requests : req[q].pc = "idle"
  BY DEF start, history, Inv, ProcessIsSound
<1>2. worker.pc = "dead" /\ worker' = At("get", NoRun)
  BY <1>1 DEF start, ensure_worker, Dead, At
<1>3. /\ worker' \in WorkerStates /\ worker'.pc = "get" /\ worker'.run = NoRun
      /\ ~worker'.cancelling
      /\ worker'.todo = {} /\ worker'.batch = {} /\ worker'.errs = {}
  BY <1>2, AtIs DEF WorkerPcs
<1>4. /\ status' \in [Runs -> Statuses]
      /\ \A r \in Runs : /\ status'[r] \in ACTIVE <=> status[r] \in ACTIVE
                         /\ status'[r] = "absent" <=> status[r] = "absent"
                         /\ status'[r] # "running"
  BY <1>1 DEF Inv, TypeOK, Recovered, Statuses, ACTIVE, FINAL
<1>5. Unfinished \in SUBSET Runs /\ \A r \in Unfinished : status'[r] \in {"queued", "cancel_requested"}
  BY <1>4 DEF Unfinished, ACTIVE
<1>6. /\ queue' \in Seq(Runs) /\ \A m, n \in DOMAIN queue' : queue'[m] = queue'[n] => m = n
      /\ Waiting' = Unfinished
  BY <1>1, <1>5, QueueOf DEF Waiting
<1>7. TypeOK'
  BY <1>1, <1>3, <1>4, <1>5, <1>6 DEF Inv, TypeOK, WorkerStates, Statuses
<1>8. ProcessIsSound' /\ QueueIsSound'
  <2>1. Unfinished \subseteq 1 .. created
    BY DEF Unfinished, Inv, HandsAreSound, Runs, ACTIVE
  <2> QED BY <1>1, <1>3, <1>6, <2>1 DEF Inv, ProcessIsSound, QueueIsSound
<1>9. HandsAreSound'
  BY <1>1, <1>3, <1>4, <1>5, <1>6 DEF Inv, HandsAreSound, Executes
<1>10. WorkIsSound'
  BY <1>3, NoBatch DEF WorkIsSound
<1>11. SheetsAreSound'
  BY <1>1, <1>4, SameRows
<1>12. RunIsHeld'
  <2>1. \A r \in Runs : status'[r] \in ACTIVE => Held(r)'
    BY <1>3, <1>4, <1>6 DEF Held, Unfinished
  <2> QED BY <1>4, <2>1 DEF RunIsHeld
<1> QED BY <1>7, <1>8, <1>9, <1>10, <1>11, <1>12 DEF Inv

-----------------------------------------------------------------------------
(* The administrator's handlers. *)

RequestStates == [pc : {"idle", "create", "enqueue", "cancel", "delete"},
                  run : Runs \cup {NoRun}]

\* One handler goes on, the others stay where they are.
LEMMA HandlerMoves ==
    ASSUME Inv, NEW q \in Requests, NEW l \in RequestStates, Handle(q, l)
    PROVE  /\ req' \in [Requests -> RequestStates] /\ req'[q] = l
           /\ \A p \in Requests : p # q => req'[p] = req[p]
BY DEF Inv, TypeOK, RequestStates, Handle

LEMMA HandlerEnds ==
    ASSUME Inv, NEW q \in Requests, Reply(q)
    PROVE  /\ req' \in [Requests -> RequestStates] /\ req'[q].pc = "idle"
           /\ \A p \in Requests : p # q => req'[p] = req[p]
<1>1. IdleRequest \in RequestStates /\ IdleRequest.pc = "idle" /\ Handle(q, IdleRequest)
  BY DEF IdleRequest, RequestStates, Reply, Handle
<1> QED BY <1>1, HandlerMoves

\* A handler that has only read, and has not been given a run to enqueue.
LEMMA ReadKeeps ==
    ASSUME Inv, NEW q \in Requests, NEW l \in RequestStates, Handle(q, l),
           phase = "up", UNCHANGED <<rows, phase, queue, queued, worker, history>>,
           req[q].pc # "enqueue", l.pc \in {"idle", "create", "cancel", "delete"},
           l.pc \in {"cancel", "delete"} => l.run \in Runs /\ l.run <= created,
           l.pc = "delete" => status[l.run] \in FINAL
    PROVE  Inv'
<1>1. /\ UNCHANGED <<status, published, item, created, phase, queue, queued, worker, errors, lost>>
      /\ req' \in [Requests -> RequestStates] /\ req'[q] = l
      /\ \A p \in Requests : p # q => req'[p] = req[p]
  BY HandlerMoves DEF rows, history
<1>2. TypeOK'
  BY <1>1 DEF Inv, TypeOK, RequestStates
<1>3. ProcessIsSound'
  <2>1. \A p \in Requests : req'[p].pc \in {"enqueue", "cancel", "delete"} => req'[p].run \in 1 .. created'
    BY <1>1 DEF Inv, ProcessIsSound, Runs
  <2> QED BY <1>1, <2>1 DEF Inv, ProcessIsSound
<1>4. QueueIsSound'
  BY <1>1 DEF Inv, QueueIsSound, Waiting
<1>5. HandsAreSound'
  <2>1. Waiting' = Waiting /\ Executes' = Executes
    BY <1>1 DEF Waiting, Executes
  <2>2. \A p \in Requests : req'[p].pc = "enqueue" => p # q /\ req[p].pc = "enqueue" /\ req'[p].run = req[p].run
    BY <1>1
  <2>3. ASSUME NEW p \in Requests, req'[p].pc = "delete"
        PROVE  /\ req'[p].run \notin Waiting'
               /\ Executes' => worker'.run # req'[p].run
               /\ \A o \in Requests : req'[o].pc = "enqueue" => req'[o].run # req'[p].run
    <3>1. CASE p = q
      <4>1. l.pc = "delete" /\ status[l.run] \in FINAL /\ req'[p].run = l.run
        BY <1>1, <2>3, <3>1
      <4>2. l.run \notin Waiting
        BY <4>1 DEF Inv, HandsAreSound, ACTIVE, FINAL
      <4>3. Executes => worker.run # l.run
        BY <4>1 DEF Inv, HandsAreSound, ACTIVE, FINAL
      <4>4. \A o \in Requests : req[o].pc = "enqueue" => req[o].run # l.run
        BY <4>1 DEF Inv, HandsAreSound, FINAL
      <4> QED BY <1>1, <2>1, <2>2, <4>1, <4>2, <4>3, <4>4
    <3>2. CASE p # q
      <4>1. req'[p] = req[p]
        BY <1>1, <3>2
      <4> QED BY <1>1, <2>1, <2>2, <2>3, <4>1 DEF Inv, HandsAreSound
    <3> QED BY <3>1, <3>2
  <2>4. \A p \in Requests : req'[p].pc = "enqueue" => status'[req'[p].run] \in {"queued", "cancel_requested"}
    BY <1>1, <2>2 DEF Inv, HandsAreSound
  <2> QED BY <1>1, <2>1, <2>3, <2>4 DEF Inv, HandsAreSound
<1>6. WorkIsSound'
  BY <1>1 DEF Inv, WorkIsSound, Opened
<1>7. SheetsAreSound'
  BY <1>1, SameRows
<1>8. RunIsHeld'
  <2>1. \A p \in Requests : req[p].pc = "enqueue" => req'[p] = req[p]
    BY <1>1
  <2>2. Waiting' = Waiting /\ Executes' = Executes
    BY <1>1 DEF Waiting, Executes
  <2>3. \A r \in Runs : Held(r) => Held(r)'
    BY <1>1, <2>1, <2>2 DEF Held
  <2> QED BY <1>1, <2>2, <2>3 DEF Inv, RunIsHeld
<1> QED BY <1>2, <1>3, <1>4, <1>5, <1>6, <1>7, <1>8 DEF Inv

LEMMA NewRequestKeeps == ASSUME Inv, NEW q \in Requests, NewRequest(q) PROVE Inv'
<1>1. phase = "up" /\ req[q].pc = "idle" /\ UNCHANGED <<rows, phase, queue, queued, worker, history>>
  BY DEF NewRequest, start_run_check, cancel_run_read, delete_run_read, NewRequestOK
<1>2. CASE start_run_check(q)
  <2> DEFINE l == [IdleRequest EXCEPT !.pc = "create"]
  <2>1. l \in RequestStates /\ l.pc = "create"
    BY DEF RequestStates, IdleRequest
  <2>2. Handle(q, l)
    BY <1>2 DEF start_run_check
  <2> HIDE DEF l
  <2> QED BY <1>1, <2>1, <2>2, ReadKeeps
<1>3. ASSUME NEW r \in Runs, cancel_run_read(q, r) \/ delete_run_read(q, r) PROVE Inv'
  <2>1. /\ status[r] \in ACTIVE \cup FINAL
        /\ \E pc \in {"cancel", "delete"} :
              /\ Handle(q, [pc |-> pc, run |-> r])
              /\ pc = "delete" => status[r] \in FINAL
    BY <1>3 DEF cancel_run_read, delete_run_read
  <2>2. PICK pc \in {"cancel", "delete"} :
           /\ Handle(q, [pc |-> pc, run |-> r])
           /\ pc = "delete" => status[r] \in FINAL
    BY <2>1
  <2>3. PICK l \in RequestStates : l = [pc |-> pc, run |-> r] /\ l.pc = pc /\ l.run = r
    BY <2>1, <2>2 DEF RequestStates
  <2>4. r <= created
    BY <2>1 DEF Inv, HandsAreSound, ACTIVE, FINAL
  <2> QED BY <1>1, <2>2, <2>3, <2>4, ReadKeeps
<1> QED BY <1>2, <1>3 DEF NewRequest

LEMMA CreateKeeps == ASSUME Inv, NEW q \in Requests, create_run(q) PROVE Inv'
<1>1. /\ UNCHANGED <<published, item, phase, queue, queued, worker, errors, lost>>
      /\ req[q].pc = "create" /\ phase = "up"
  BY DEF create_run, history, Inv, ProcessIsSound
<1>2. CASE created < MaxRuns
  <2>1. PICK new : new = created + 1
    OBVIOUS
  <2>2. /\ new \in Runs /\ new # NoRun /\ created' = new /\ created \in Nat /\ new \notin 1 .. created
        /\ new \in 1 .. created' /\ 1 .. created \subseteq 1 .. created'
    <3>1. created' = new /\ created \in 0 .. MaxRuns /\ MaxRuns \in Nat
      BY <1>2, <2>1, ConstantsAssumption DEF create_run, Inv, TypeOK
    <3> QED BY <1>2, <2>1, <3>1 DEF Runs, NoRun
  <2>3. /\ status' \in [Runs -> Statuses] /\ status'[new] = "queued"
        /\ \A r \in Runs : r # new => status'[r] = status[r]
    BY <1>2, <2>1, <2>2 DEF create_run, Inv, TypeOK, Statuses, ACTIVE, FINAL
  <2> DEFINE l == [IdleRequest EXCEPT !.pc = "enqueue", !.run = new]
  <2>4. l \in RequestStates /\ l.pc = "enqueue" /\ l.run = new /\ Handle(q, l)
    BY <1>2, <2>1, <2>2 DEF RequestStates, IdleRequest, create_run
  <2> HIDE DEF l
  <2>5. /\ req' \in [Requests -> RequestStates] /\ req'[q] = l
        /\ \A p \in Requests : p # q => req'[p] = req[p]
    BY <2>4, HandlerMoves
  <2>6. \A p \in Requests : p # q /\ req'[p].pc \in {"enqueue", "cancel", "delete"} => req'[p].run \in 1 .. created
    BY <2>5 DEF Inv, ProcessIsSound
  <2>7. queued \subseteq 1 .. created /\ Waiting \subseteq 1 .. created
    BY DEF Inv, QueueIsSound
  <2>8. worker.run # new
    BY <2>2, <2>7 DEF Inv, QueueIsSound
  <2>9. TypeOK'
    <3>1. created' \in 0 .. MaxRuns
      BY <2>2, ConstantsAssumption DEF Runs
    <3>2. \A p \in Requests : req'[p].pc \notin {"idle", "create"} => req'[p].run \in Runs
      <4> TAKE p \in Requests
      <4>1. CASE p = q
        BY <2>2, <2>4, <2>5, <4>1
      <4>2. CASE p # q
        BY <2>5, <4>2 DEF Inv, TypeOK
      <4> QED BY <4>1, <4>2
    <3> QED BY <1>1, <2>3, <2>5, <3>1, <3>2 DEF Inv, TypeOK, RequestStates, Statuses
  <2>10. ProcessIsSound'
    <3>1. \A p \in Requests : req'[p].pc \in {"enqueue", "cancel", "delete"} => req'[p].run \in 1 .. created'
      BY <2>2, <2>4, <2>5, <2>6
    <3> QED BY <1>1, <3>1 DEF Inv, ProcessIsSound
  <2>11. QueueIsSound'
    <3>1. Waiting' = Waiting
      BY <1>1 DEF Waiting
    <3>2. \A p \in Requests : req'[p].pc = "enqueue" => req'[p].run \notin queued'
      BY <1>1, <2>2, <2>4, <2>5, <2>7 DEF Inv, QueueIsSound
    <3>3. \A p, o \in Requests : req'[p].pc = "enqueue" /\ req'[o].pc = "enqueue" /\ req'[p].run = req'[o].run
                                 => p = o
      <4> SUFFICES ASSUME NEW p \in Requests, NEW o \in Requests,
                          req'[p].pc = "enqueue", req'[o].pc = "enqueue", req'[p].run = req'[o].run,
                          p # o
                   PROVE  FALSE
        OBVIOUS
      <4>1. CASE p = q
        BY <2>2, <2>4, <2>5, <2>6, <4>1
      <4>2. CASE o = q
        BY <2>2, <2>4, <2>5, <2>6, <4>2
      <4>3. CASE p # q /\ o # q
        BY <2>5, <4>3 DEF Inv, QueueIsSound
      <4> QED BY <4>1, <4>2, <4>3
    <3>4. queued' \subseteq 1 .. created'
      BY <1>1, <2>2, <2>7
    <3> QED BY <1>1, <3>1, <3>2, <3>3, <3>4 DEF Inv, QueueIsSound
  <2>12. HandsAreSound'
    <3>1. Waiting' = Waiting /\ Executes' = Executes
      BY <1>1 DEF Waiting, Executes
    <3>2. \A r \in Waiting' : status'[r] \in {"queued", "cancel_requested"}
      <4> TAKE r \in Waiting'
      <4>1. r \in Waiting /\ r # new /\ r \in Runs
        <5>1. r \in Waiting
          BY <3>1
        <5>2. r \in queued /\ queued \subseteq Runs
          BY <5>1 DEF Inv, TypeOK, QueueIsSound
        <5> QED BY <2>2, <2>7, <5>1, <5>2
      <4> QED BY <2>3, <4>1 DEF Inv, HandsAreSound
    <3>3. \A p \in Requests : req'[p].pc = "enqueue" => status'[req'[p].run] \in {"queued", "cancel_requested"}
      <4> SUFFICES ASSUME NEW p \in Requests, req'[p].pc = "enqueue"
                   PROVE  status'[req'[p].run] \in {"queued", "cancel_requested"}
        OBVIOUS
      <4>1. CASE p = q
        BY <2>3, <2>4, <2>5, <4>1
      <4>2. CASE p # q
        <5>1. req'[p] = req[p] /\ req[p].pc = "enqueue"
          BY <2>5, <4>2
        <5>2. req[p].run \in Runs /\ req[p].run # new
          BY <2>2, <2>6, <4>2, <5>1 DEF Inv, TypeOK
        <5>3. status[req[p].run] \in {"queued", "cancel_requested"}
          BY <5>1 DEF Inv, HandsAreSound
        <5> QED BY <2>3, <5>1, <5>2, <5>3
      <4> QED BY <4>1, <4>2
    <3>4. /\ Executes => status'[worker.run] = status[worker.run]
          /\ worker.pc = "leave" => status'[worker.run] = status[worker.run]
      BY <2>3, <2>8 DEF Executes, Inv, TypeOK
    <3>5. \A p \in Requests : req'[p].pc = "delete" =>
             /\ req'[p].run \notin Waiting
             /\ Executes => worker.run # req'[p].run
             /\ \A o \in Requests : req'[o].pc = "enqueue" => req'[o].run # req'[p].run
      <4> SUFFICES ASSUME NEW p \in Requests, req'[p].pc = "delete"
                   PROVE  /\ req'[p].run \notin Waiting
                          /\ Executes => worker.run # req'[p].run
                          /\ \A o \in Requests : req'[o].pc = "enqueue" => req'[o].run # req'[p].run
        OBVIOUS
      <4>1. p # q /\ req'[p] = req[p] /\ req[p].run # new
        BY <2>2, <2>4, <2>5, <2>6
      <4>2. \A o \in Requests : req'[o].pc = "enqueue" /\ o # q => req[o].pc = "enqueue" /\ req'[o].run = req[o].run
        BY <2>5
      <4>3. req'[q].run = new
        BY <2>4, <2>5
      <4>4. /\ req[p].run \notin Waiting
            /\ Executes => worker.run # req[p].run
            /\ \A o \in Requests : req[o].pc = "enqueue" => req[o].run # req[p].run
        BY <4>1 DEF Inv, HandsAreSound
      <4> QED BY <4>1, <4>2, <4>3, <4>4
    <3>6. \A r \in Runs : status'[r] # "absent" => r <= created'
      BY <2>1, <2>2, <2>3 DEF Inv, HandsAreSound, Runs
    <3> QED BY <1>1, <3>1, <3>2, <3>3, <3>4, <3>5, <3>6 DEF Inv, HandsAreSound
  <2>13. WorkIsSound'
    BY <1>1 DEF Inv, WorkIsSound, Opened
  <2>14. SheetsAreSound'
    BY <1>1, <2>3, SameRows
  <2>15. RunIsHeld'
    <3>1. \A p \in Requests : req[p].pc = "enqueue" => req'[p] = req[p]
      BY <1>1, <2>5
    <3>2. req'[q].pc = "enqueue" /\ req'[q].run = new
      BY <2>4, <2>5
    <3>3. Waiting' = Waiting /\ Executes' = Executes
      BY <1>1 DEF Waiting, Executes
    <3>4. \A r \in Runs : Held(r) => Held(r)'
      BY <1>1, <3>1, <3>3 DEF Held
    <3> SUFFICES ASSUME NEW r \in Runs \ lost
                 PROVE  /\ status'[r] \in ACTIVE => Held(r)'
                        /\ status'[r] = "running" => Executes' /\ worker'.run = r
      BY <1>1 DEF RunIsHeld
    <3>5. CASE r = new
      <4>1. Held(r)'
        BY <3>2, <3>5 DEF Held
      <4> QED BY <2>3, <3>5, <4>1
    <3>6. CASE r # new
      BY <1>1, <2>3, <3>3, <3>4, <3>6 DEF Inv, RunIsHeld
    <3> QED BY <3>5, <3>6
  <2> QED BY <2>9, <2>10, <2>11, <2>12, <2>13, <2>14, <2>15 DEF Inv
<1>3. CASE ~(created < MaxRuns)
  <2>1. IdleRequest \in RequestStates /\ IdleRequest.pc = "idle"
    BY DEF RequestStates, IdleRequest
  <2>2. Handle(q, IdleRequest) /\ UNCHANGED <<rows, phase, queue, queued, worker, history>>
    BY <1>1, <1>3 DEF create_run, Reply, Handle, rows, history
  <2> QED BY <1>1, <2>1, <2>2, ReadKeeps
<1> QED BY <1>2, <1>3

LEMMA EnqueueKeeps == ASSUME Inv, NEW q \in Requests, audit_and_enqueue(q) PROVE Inv'
<1> DEFINE r == req[q].run
<1>1. /\ UNCHANGED <<status, published, item, created, phase, errors>>
      /\ lost' = lost \ Waiting'
      /\ req[q].pc = "enqueue" /\ phase = "up" /\ r \in Runs /\ r \notin queued /\ r \in 1 .. created
  BY DEF audit_and_enqueue, rows, history, Inv, TypeOK, ProcessIsSound, QueueIsSound
<1>2. queued' = queued \cup {r} /\ queue' = Append(queue, r)
  BY <1>1 DEF audit_and_enqueue, enqueue
<1>3. /\ worker' \in WorkerStates /\ worker'.run = worker.run /\ (worker'.cancelling => worker.cancelling)
      /\ \/ worker' = worker
         \/ worker.pc = "dead" /\ worker'.pc = "get" /\ ~worker'.cancelling
            /\ worker'.todo = {} /\ worker'.batch = {} /\ worker'.errs = {}
  <2>1. CASE worker.pc = "dead"
    <3>1. worker' = At("get", NoRun) /\ worker.run = NoRun /\ ~worker.cancelling
      BY <1>1, <2>1 DEF audit_and_enqueue, enqueue, ensure_worker, Inv, TypeOK, ProcessIsSound
    <3>2. At("get", NoRun).cancelling = FALSE
      BY DEF At
    <3> QED BY <2>1, <3>1, <3>2, AtIs DEF WorkerPcs
  <2>2. CASE worker.pc # "dead"
    BY <2>2 DEF audit_and_enqueue, enqueue, ensure_worker, Inv, TypeOK, WorkerStates
  <2> QED BY <2>1, <2>2
<1>4. /\ req' \in [Requests -> RequestStates] /\ req'[q].pc = "idle"
      /\ \A p \in Requests : p # q => req'[p] = req[p]
  BY HandlerEnds DEF audit_and_enqueue
<1> HIDE DEF r
<1>5. /\ queue \in Seq(Runs) /\ queue' \in Seq(Runs) /\ Len(queue) \in Nat
      /\ DOMAIN queue = 1 .. Len(queue) /\ DOMAIN queue' = 1 .. (Len(queue) + 1)
      /\ queue'[Len(queue) + 1] = r /\ \A n \in DOMAIN queue : queue'[n] = queue[n]
  BY <1>1, <1>2 DEF Inv, TypeOK
<1>6. /\ Len(queue) + 1 \in DOMAIN queue'
      /\ \A n \in DOMAIN queue' : n # Len(queue) + 1 => n \in DOMAIN queue
      /\ \A n \in DOMAIN queue : n \in DOMAIN queue'
  BY <1>5
<1>7. Waiting' = Waiting \cup {r} /\ r \notin Waiting
  <2>1. r \notin Waiting
    BY <1>1 DEF Inv, QueueIsSound
  <2> QED BY <1>5, <1>6, <2>1 DEF Waiting
<1>8. \A m, n \in DOMAIN queue' : queue'[m] = queue'[n] => m = n
  <2>1. \A m, n \in DOMAIN queue : queue[m] = queue[n] => m = n
    BY DEF Inv, QueueIsSound
  <2>2. \A n \in DOMAIN queue : queue[n] # r
    BY <1>7 DEF Waiting
  <2> QED BY <1>5, <1>6, <2>1, <2>2
<1>9. \A p \in Requests : req'[p].pc # "idle" => p # q /\ req'[p] = req[p]
  BY <1>4
<1>10. \A p \in Requests : req'[p].pc = "enqueue" => req[p].run # r
  BY <1>1, <1>9 DEF Inv, QueueIsSound, r
<1>11. TypeOK'
  <2>1. \A p \in Requests : req'[p].pc \notin {"idle", "create"} => req'[p].run \in Runs
    BY <1>9 DEF Inv, TypeOK
  <2>2. queued' \subseteq Runs
    BY <1>1, <1>2 DEF Inv, TypeOK
  <2>3. worker'.pc \notin {"dead", "get"} => worker'.run \in Runs
    BY <1>3 DEF Inv, TypeOK
  <2> QED BY <1>1, <1>3, <1>4, <1>5, <2>1, <2>2, <2>3 DEF Inv, TypeOK, WorkerStates, RequestStates
<1>12. ProcessIsSound'
  BY <1>1, <1>3, <1>9 DEF Inv, ProcessIsSound
<1>13. QueueIsSound'
  <2>1. worker.run # NoRun => worker.run \in queued \ Waiting
    BY DEF Inv, QueueIsSound
  <2>2. worker'.run # NoRun => worker'.run \in queued' \ Waiting'
    BY <1>1, <1>2, <1>3, <1>7, <2>1
  <2>3. Waiting' \subseteq queued' /\ queued' \subseteq 1 .. created'
    BY <1>1, <1>2, <1>7 DEF Inv, QueueIsSound
  <2>4. \A p \in Requests : req'[p].pc = "enqueue" => req'[p].run \notin queued'
    BY <1>2, <1>9, <1>10 DEF Inv, QueueIsSound
  <2>5. \A p, o \in Requests : req'[p].pc = "enqueue" /\ req'[o].pc = "enqueue" /\ req'[p].run = req'[o].run
                               => p = o
    BY <1>9 DEF Inv, QueueIsSound
  <2> QED BY <1>8, <2>2, <2>3, <2>4, <2>5 DEF QueueIsSound
<1>14. HandsAreSound'
  <2>1. \A s \in Waiting' : status'[s] \in {"queued", "cancel_requested"}
    BY <1>1, <1>7 DEF Inv, HandsAreSound, ACTIVE, r
  <2>2. \A p \in Requests : req'[p].pc = "enqueue" => status'[req'[p].run] \in {"queued", "cancel_requested"}
    BY <1>1, <1>9 DEF Inv, HandsAreSound
  <2>3. \/ UNCHANGED worker /\ Executes' = Executes
        \/ worker'.pc = "get" /\ ~Executes /\ worker'.run = worker.run
           /\ ~(worker'.pc \notin {"dead", "get", "leave"}) /\ status' = status
    BY <1>1, <1>3 DEF Executes
  <2>4. /\ Executes' => /\ Executes /\ worker' = worker
        /\ worker'.pc = "leave" => worker' = worker
    BY <2>3 DEF Executes
  <2>5. \A p \in Requests : req'[p].pc = "delete" =>
           /\ req'[p].run \notin Waiting'
           /\ Executes' => worker'.run # req'[p].run
           /\ \A o \in Requests : req'[o].pc = "enqueue" => req'[o].run # req'[p].run
    <3> SUFFICES ASSUME NEW p \in Requests, req'[p].pc = "delete"
                 PROVE  /\ req'[p].run \notin Waiting'
                        /\ Executes' => worker'.run # req'[p].run
                        /\ \A o \in Requests : req'[o].pc = "enqueue" => req'[o].run # req'[p].run
      OBVIOUS
    <3>1. req'[p] = req[p] /\ req[p].run # r
      BY <1>1, <1>9 DEF Inv, HandsAreSound, r
    <3> QED BY <1>7, <1>9, <2>4, <3>1 DEF Inv, HandsAreSound
  <2>6. \A s \in Runs : status'[s] # "absent" => s <= created'
    BY <1>1 DEF Inv, HandsAreSound
  <2> QED BY <1>1, <2>1, <2>2, <2>4, <2>5, <2>6 DEF Inv, HandsAreSound
<1>15. WorkIsSound'
  <2>1. CASE worker' = worker
    BY <1>1, <2>1 DEF Inv, WorkIsSound, Opened
  <2>2. CASE worker' # worker
    BY <1>3, <2>2, NoBatch DEF WorkIsSound
  <2> QED BY <2>1, <2>2
<1>16. SheetsAreSound'
  BY <1>1, SameRows
<1>17. RunIsHeld'
  <2> SUFFICES ASSUME NEW s \in Runs \ lost'
               PROVE  /\ status[s] \in ACTIVE => Held(s)'
                      /\ status[s] = "running" => Executes' /\ worker'.run = s
    BY <1>1 DEF RunIsHeld
  <2>1. worker'.pc # "dead"
    BY <1>2 DEF audit_and_enqueue, enqueue, ensure_worker, At
  <2>2. CASE s \in Waiting'
    <3>1. Held(s)'
      BY <2>1, <2>2 DEF Held
    <3>2. status[s] # "running"
      BY <1>1, <1>14, <2>2 DEF HandsAreSound
    <3> QED BY <3>1, <3>2
  <2>3. CASE s \notin Waiting'
    <3>1. s \notin lost /\ s \notin Waiting /\ s # r
      BY <1>1, <1>7, <2>3
    <3>2. Executes => worker' = worker /\ Executes'
      BY <1>3 DEF Executes
    <3>3. \A p \in Requests : req[p].run = s => p # q
      BY <3>1 DEF r
    <3>4. Held(s) => Held(s)'
      BY <1>4, <3>1, <3>2, <3>3 DEF Held
    <3> QED BY <1>1, <3>1, <3>2, <3>4 DEF Inv, RunIsHeld
  <2> QED BY <2>2, <2>3
<1> QED BY <1>11, <1>12, <1>13, <1>14, <1>15, <1>16, <1>17 DEF Inv

\* A handler that replies: what it wrote is one status, for a row that stays.
LEMMA ReplyKeeps ==
    ASSUME Inv, NEW q \in Requests, Reply(q), req[q].pc \in {"enqueue", "cancel"},
           UNCHANGED <<published, item, created, phase, queue, queued, worker>>,
           errors' \in errors .. MaxErrors, NEW r \in Runs,
           status' = status \/ status' = [status EXCEPT ![r] = "cancel_requested"],
           status' # status => status[r] # "absent",
           lost \subseteq lost' /\ lost' \subseteq Runs,
           status' # status /\ status[r] \in FINAL => r \in lost',
           req[q].pc = "enqueue" => req[q].run \in lost'
    PROVE  Inv'
<1>1. /\ req' \in [Requests -> RequestStates] /\ req'[q].pc = "idle"
      /\ \A p \in Requests : p # q => req'[p] = req[p]
  BY HandlerEnds
<1>2. \A p \in Requests : req'[p].pc # "idle" => p # q /\ req'[p] = req[p]
  BY <1>1
<1>3. phase = "up"
  BY DEF Inv, ProcessIsSound
<1>4. /\ status' \in [Runs -> Statuses]
      /\ \A s \in Runs :
            \/ status'[s] = status[s]
            \/ status'[s] = "cancel_requested" /\ status[s] # "absent"
  BY DEF Inv, TypeOK, Statuses, ACTIVE
<1>5. TypeOK'
  <2>1. \A p \in Requests : req'[p].pc \notin {"idle", "create"} => req'[p].run \in Runs
    BY <1>2 DEF Inv, TypeOK
  <2>2. errors' \in 0 .. MaxErrors
    BY ConstantsAssumption DEF Inv, TypeOK
  <2> QED BY <1>1, <1>4, <2>1, <2>2 DEF Inv, TypeOK, WorkerStates, RequestStates, Statuses
<1>6. ProcessIsSound' /\ QueueIsSound'
  <2>1. Waiting' = Waiting
    BY DEF Waiting
  <2> QED BY <1>2, <2>1 DEF Inv, ProcessIsSound, QueueIsSound
<1>7. HandsAreSound'
  <2>1. Waiting' = Waiting /\ Executes' = Executes
    BY DEF Waiting, Executes
  <2>2. Waiting \subseteq Runs
    BY DEF Inv, TypeOK, QueueIsSound
  <2>3. \A s \in Waiting' : status'[s] \in {"queued", "cancel_requested"}
    BY <1>4, <2>1, <2>2 DEF Inv, HandsAreSound, ACTIVE
  <2>4. \A p \in Requests : req'[p].pc = "enqueue" => status'[req'[p].run] \in {"queued", "cancel_requested"}
    <3> SUFFICES ASSUME NEW p \in Requests, req'[p].pc = "enqueue"
                 PROVE  status'[req'[p].run] \in {"queued", "cancel_requested"}
      OBVIOUS
    <3>1. req'[p] = req[p] /\ req[p].run \in Runs /\ status[req[p].run] \in {"queued", "cancel_requested"}
      BY <1>2 DEF Inv, TypeOK, HandsAreSound
    <3> QED BY <1>4, <3>1
  <2>5. /\ Executes => status'[worker.run] \in ACTIVE
        /\ worker.pc = "leave" => status'[worker.run] \notin {"queued", "running"}
    BY <1>3, <1>4 DEF Inv, TypeOK, HandsAreSound, Executes, ACTIVE
  <2>6. \A p \in Requests : req'[p].pc = "delete" =>
           /\ req'[p].run \notin Waiting'
           /\ Executes' => worker'.run # req'[p].run
           /\ \A o \in Requests : req'[o].pc = "enqueue" => req'[o].run # req'[p].run
    BY <1>2, <2>1 DEF Inv, HandsAreSound
  <2>7. \A s \in Runs : status'[s] # "absent" => s <= created'
    BY <1>4 DEF Inv, HandsAreSound
  <2> QED BY <2>1, <2>3, <2>4, <2>5, <2>6, <2>7 DEF HandsAreSound
<1>8. WorkIsSound'
  BY DEF Inv, WorkIsSound, Opened
<1>9. SheetsAreSound'
  BY <1>4, SameRows
<1>10. RunIsHeld'
  <2> SUFFICES ASSUME NEW s \in Runs \ lost'
               PROVE  /\ status'[s] \in ACTIVE => Held(s)'
                      /\ status'[s] = "running" => Executes' /\ worker'.run = s
    BY DEF RunIsHeld
  <2>1. \A p \in Requests : req[p].pc = "enqueue" /\ req[p].run = s => req'[p] = req[p]
    BY <1>1
  <2>2. Waiting' = Waiting /\ Executes' = Executes
    BY DEF Waiting, Executes
  <2>3. Held(s) => Held(s)'
    BY <2>1, <2>2 DEF Held
  <2>4. /\ status'[s] \in ACTIVE => status[s] \in ACTIVE
        /\ status'[s] = "running" => status[s] = "running"
    BY DEF Inv, TypeOK, ACTIVE
  <2> QED BY <1>3, <2>2, <2>3, <2>4 DEF Inv, RunIsHeld
<1> QED BY <1>5, <1>6, <1>7, <1>8, <1>9, <1>10 DEF Inv

LEMMA AuditErrorKeeps == ASSUME Inv, NEW q \in Requests, AuditError(q) PROVE Inv'
<1>1. /\ UNCHANGED <<status, published, item, created, phase, queue, queued, worker>>
      /\ Reply(q) /\ req[q].pc = "enqueue" /\ lost' = lost \cup {req[q].run}
      /\ lost' \subseteq Runs
  BY DEF AuditError, rows, Inv, TypeOK
<1>2. errors' \in errors .. MaxErrors
  BY ConstantsAssumption DEF AuditError, Inv, TypeOK
<1>3. PICK r : r \in Runs
  BY ConstantsAssumption DEF Runs
<1> QED BY <1>1, <1>2, <1>3, ReplyKeeps

LEMMA RequestCancelKeeps == ASSUME Inv, NEW q \in Requests, request_cancel(q) PROVE Inv'
<1>1. /\ UNCHANGED <<published, item, created, phase, queue, queued, worker, errors>>
      /\ Reply(q) /\ req[q].pc = "cancel"
  BY DEF request_cancel
<1>2. errors' \in errors .. MaxErrors
  BY <1>1, ConstantsAssumption DEF Inv, TypeOK
<1>3. PICK r \in Runs : r = req[q].run
  BY <1>1 DEF Inv, TypeOK
<1>4. /\ status' = status \/ status' = [status EXCEPT ![r] = "cancel_requested"]
      /\ status' # status => status[r] # "absent"
  BY <1>3 DEF request_cancel, set_run_state
<1>5. /\ lost \subseteq lost' /\ lost' \subseteq Runs
      /\ status[r] \in FINAL => r \in lost'
  BY <1>3 DEF request_cancel, Inv, TypeOK
<1> QED BY <1>1, <1>2, <1>4, <1>5, ReplyKeeps

LEMMA DeleteKeeps == ASSUME Inv, NEW q \in Requests, delete_run(q) PROVE Inv'
<1>1. /\ UNCHANGED <<created, phase, queue, queued, worker, errors, lost>>
      /\ Reply(q) /\ req[q].pc = "delete" /\ phase = "up"
  BY DEF delete_run, history, Inv, ProcessIsSound
<1>2. PICK r \in Runs : r = req[q].run
  BY <1>1 DEF Inv, TypeOK
<1>3. /\ r \notin Waiting /\ (Executes => worker.run # r)
      /\ \A p \in Requests : req[p].pc = "enqueue" => req[p].run # r
  BY <1>1, <1>2 DEF Inv, HandsAreSound
<1>4. /\ status' = [status EXCEPT ![r] = "absent"]
      /\ item' = [item EXCEPT ![r] = [i \in Items |-> "pending"]]
      /\ published' = [published EXCEPT ![r] = NothingPublished]
  BY <1>2 DEF delete_run
<1>5. /\ req' \in [Requests -> RequestStates] /\ req'[q].pc = "idle"
      /\ \A p \in Requests : p # q => req'[p] = req[p]
  BY <1>1, HandlerEnds
<1>6. \A p \in Requests : req'[p].pc # "idle" => p # q /\ req'[p] = req[p]
  BY <1>5
<1>7. /\ status' \in [Runs -> Statuses] /\ status'[r] = "absent"
      /\ item' \in [Runs -> [Items -> ItemStatuses]] /\ item'[r] = [i \in Items |-> "pending"]
      /\ published'[r] = NothingPublished
      /\ \A s \in Runs : s # r => status'[s] = status[s] /\ item'[s] = item[s] /\ published'[s] = published[s]
  BY <1>4 DEF Inv, TypeOK, Statuses, ItemStatuses
<1>8. TypeOK'
  <2>1. \A p \in Requests : req'[p].pc \notin {"idle", "create"} => req'[p].run \in Runs
    BY <1>6 DEF Inv, TypeOK
  <2>2. published' \in [Runs -> [completed : 0 .. NumItems, errors : 0 .. NumItems]]
    <3>1. NothingPublished \in [completed : 0 .. NumItems, errors : 0 .. NumItems]
      BY ConstantsAssumption DEF NothingPublished
    <3> QED BY <1>4, <3>1 DEF Inv, TypeOK
  <2> QED BY <1>1, <1>5, <1>7, <2>1, <2>2 DEF Inv, TypeOK, RequestStates, Statuses, ItemStatuses
<1>9. ProcessIsSound' /\ QueueIsSound'
  <2>1. Waiting' = Waiting
    BY <1>1 DEF Waiting
  <2> QED BY <1>1, <1>6, <2>1 DEF Inv, ProcessIsSound, QueueIsSound
<1>10. HandsAreSound'
  <2>1. Waiting' = Waiting /\ Executes' = Executes
    BY <1>1 DEF Waiting, Executes
  <2>2. Waiting \subseteq Runs
    BY DEF Inv, TypeOK, QueueIsSound
  <2>3. \A s \in Waiting' : status'[s] \in {"queued", "cancel_requested"}
    BY <1>3, <1>7, <2>1, <2>2 DEF Inv, HandsAreSound
  <2>4. \A p \in Requests : req'[p].pc = "enqueue" => status'[req'[p].run] \in {"queued", "cancel_requested"}
    <3> SUFFICES ASSUME NEW p \in Requests, req'[p].pc = "enqueue"
                 PROVE  status'[req'[p].run] \in {"queued", "cancel_requested"}
      OBVIOUS
    <3>1. /\ req'[p] = req[p] /\ req[p].run \in Runs /\ req[p].run # r
          /\ status[req[p].run] \in {"queued", "cancel_requested"}
      BY <1>3, <1>6 DEF Inv, TypeOK, HandsAreSound
    <3> QED BY <1>7, <3>1
  <2>5. /\ Executes => status'[worker.run] \in ACTIVE
        /\ worker.pc = "leave" => status'[worker.run] \notin {"queued", "running"}
    BY <1>1, <1>3, <1>7 DEF Inv, TypeOK, HandsAreSound, Executes
  <2>6. \A p \in Requests : req'[p].pc = "delete" =>
           /\ req'[p].run \notin Waiting'
           /\ Executes' => worker'.run # req'[p].run
           /\ \A o \in Requests : req'[o].pc = "enqueue" => req'[o].run # req'[p].run
    BY <1>1, <1>6, <2>1 DEF Inv, HandsAreSound
  <2>7. \A s \in Runs : status'[s] # "absent" => s <= created'
    BY <1>1, <1>7 DEF Inv, HandsAreSound
  <2> QED BY <1>1, <2>1, <2>3, <2>4, <2>5, <2>6, <2>7 DEF HandsAreSound
<1>11. WorkIsSound'
  <2>1. Executes => worker.run \in Runs /\ item'[worker.run] = item[worker.run]
    BY <1>3, <1>7, ExecutesARun
  <2>2. Executes => Opened(worker.run)' = Opened(worker.run)
    BY <1>1, <2>1 DEF Opened
  <2> QED BY <1>1, <2>1, <2>2 DEF Inv, WorkIsSound, Executes
<1>12. SheetsAreSound'
  <2>1. Opened(r)' = Items
    BY <1>7 DEF Opened, TERMINAL
  <2>2. published'[r] = TallyOf(r)'
    <3>1. {i \in Items : item'[r][i] \in TERMINAL} = {} /\ {i \in Items : item'[r][i] \in {"error"}} = {}
      BY <1>7 DEF TERMINAL
    <3> QED BY <1>7, <3>1, FS_EmptySet DEF TallyOf, Count, NothingPublished
  <2>3. ASSUME NEW s \in Runs, s # r
        PROVE  (status'[s] = "absent" => Opened(s)' = Items) /\ published'[s] = TallyOf(s)'
    <3>1. item'[s] = item[s] /\ status'[s] = status[s] /\ published'[s] = published[s]
      BY <1>7, <2>3
    <3>2. Opened(s)' = Opened(s) /\ TallyOf(s)' = TallyOf(s)
      BY <3>1 DEF Opened, TallyOf, Count
    <3> QED BY <3>1, <3>2 DEF Inv, SheetsAreSound
  <2> QED BY <2>1, <2>2, <2>3 DEF SheetsAreSound
<1>13. RunIsHeld'
  <2>1. \A p \in Requests : req[p].pc = "enqueue" => req'[p] = req[p]
    BY <1>1, <1>5
  <2>2. Waiting' = Waiting /\ Executes' = Executes
    BY <1>1 DEF Waiting, Executes
  <2>3. \A s \in Runs : Held(s) => Held(s)'
    BY <1>1, <2>1, <2>2 DEF Held
  <2>4. \A s \in Runs : /\ status'[s] \in ACTIVE => status[s] \in ACTIVE
                        /\ status'[s] = "running" => status[s] = "running"
    BY <1>7 DEF ACTIVE
  <2> QED BY <1>1, <2>2, <2>3, <2>4 DEF Inv, RunIsHeld
<1> QED BY <1>8, <1>9, <1>10, <1>11, <1>12, <1>13 DEF Inv

-----------------------------------------------------------------------------
(* The invariant, and the theorems it gives. *)

LEMMA NextKeeps == ASSUME Inv, [Next]_vars PROVE Inv'
<1>1. CASE Next
  <2>1. CASE start \/ stop \/ stopped \/ Crash
    BY <2>1, StartKeeps, StopKeeps, StoppedKeeps, CrashKeeps
  <2>2. CASE WorkerStep
    BY <2>2, InterruptKeeps, GetKeeps, FinallyKeeps, LoadKeeps, SetRunningKeeps, PendingKeeps,
       RunStatusKeeps, MarkKeeps, ScoreKeeps, PersistKeeps, LastStateKeeps, RequeueKeeps
       DEF WorkerStep
  <2>3. CASE CallError
    BY <2>3, CallErrorKeeps
  <2>4. ASSUME NEW q \in Requests, RequestStep(q) \/ NewRequest(q) \/ AuditError(q) PROVE Inv'
    BY <2>4, CreateKeeps, EnqueueKeeps, RequestCancelKeeps, DeleteKeeps, NewRequestKeeps,
       AuditErrorKeeps DEF RequestStep
  <2> QED BY <1>1, <2>1, <2>2, <2>3, <2>4 DEF Next
<1>2. CASE UNCHANGED vars
  <2>1. UNCHANGED <<status, published, item, created, phase, queue, queued, worker, req, errors, lost>>
    BY <1>2 DEF vars
  <2>2. TypeOK'
    BY <2>1 DEF Inv, TypeOK
  <2>3. ProcessIsSound' /\ QueueIsSound'
    BY <2>1 DEF Inv, ProcessIsSound, QueueIsSound, Waiting
  <2>4. HandsAreSound'
    BY <2>1 DEF Inv, HandsAreSound, Waiting, Executes
  <2>5. WorkIsSound' /\ SheetsAreSound'
    BY <2>1, SameRows DEF Inv, WorkIsSound, Opened
  <2>6. RunIsHeld'
    BY <2>1 DEF Inv, RunIsHeld, Held, Waiting, Executes
  <2> QED BY <2>2, <2>3, <2>4, <2>5, <2>6 DEF Inv
<1> QED BY <1>1, <1>2

LEMMA InvHolds == Spec => []Inv
BY InitInv, NextKeeps, PTL DEF Spec

\* The variables keep their types, and the worker has a run while it executes one
\* (_worker_loop, execute_evaluation_run).
THEOREM TypeCorrect == Spec => []TypeOK
<1>1. Inv => TypeOK
  BY DEF Inv
<1> QED BY <1>1, InvHolds, PTL

\* An evaluation that is queued, running or to be cancelled is in the queue of a live
\* worker, with the worker, or with the handler about to enqueue it, and a running one
\* is the one the worker executes: no kill, recovery, cancellation, requeue or order of
\* the administrators' requests loses one, but for an audit log that is not written, a
\* worker that dies of its handler's failure and a cancellation written over an end
\* (start, _ensure_worker, enqueue, _worker_loop, request_cancel).
THEOREM NothingIsLost == Spec => []RunIsHeld
<1>1. Inv => RunIsHeld
  BY DEF Inv
<1> QED BY <1>1, InvHolds, PTL

-----------------------------------------------------------------------------
(* The score sheets: what an administrator sees of the rows. *)

Life == [r \in Runs |-> IF r > created THEN "new"
                        ELSE IF status[r] = "absent" THEN "removed" ELSE "listed"]
Outcomes == [r \in Runs |-> [i \in Items |-> IF item[r][i] \in TERMINAL THEN item[r][i]
                                                                     ELSE "open"]]
CompleteRuns == {r \in Runs : status[r] = "completed"}
SheetStep == [Sheets!Next]_<<Life, Outcomes, published, CompleteRuns>>

\* The sheets count as the queue does: ScoreSheets takes Cardinality from FiniteSets.
LEMMA SameCount == \A S : Sheets!Cardinality(S) = Cardinality(S)
BY DEF Cardinality, Sheets!Cardinality

\* An outcome is open when the question has none, and the tally counts them.
LEMMA OutcomesShowItems ==
    ASSUME NEW r \in Runs
    PROVE  /\ Outcomes[r] \in [Items -> TERMINAL \cup {"open"}]
           /\ \A i \in Items : /\ Outcomes[r][i] = "open" <=> item[r][i] \notin TERMINAL
                               /\ item[r][i] \in TERMINAL => Outcomes[r][i] = item[r][i]
           /\ Sheets!TallyOf(Outcomes[r]) = TallyOf(r)
<1>1. \A i \in Items : /\ Outcomes[r][i] = "open" <=> item[r][i] \notin TERMINAL
                       /\ item[r][i] \in TERMINAL => Outcomes[r][i] = item[r][i]
                       /\ Outcomes[r][i] = "error" <=> item[r][i] = "error"
  BY DEF Outcomes, TERMINAL
<1>2. Outcomes[r] \in [Items -> TERMINAL \cup {"open"}]
  BY DEF Outcomes
<1>3. /\ {i \in Items : Outcomes[r][i] # "open"} = {i \in Items : item[r][i] \in TERMINAL}
      /\ {i \in Items : Outcomes[r][i] = "error"} = {i \in Items : item[r][i] \in {"error"}}
  BY <1>1
<1>4. Sheets!TallyOf(Outcomes[r]) = TallyOf(r)
  BY <1>3, SameCount DEF Sheets!TallyOf, TallyOf, Count
<1> QED BY <1>1, <1>2, <1>4

LEMMA BlankSheet ==
    ASSUME NEW r \in Runs, Opened(r) = Items
    PROVE  Outcomes[r] = Sheets!Blank
<1>1. \A i \in Items : Outcomes[r][i] = "open"
  BY OutcomesShowItems DEF Opened
<1> QED BY <1>1 DEF Outcomes, Sheets!Blank

LEMMA InitSheets == ASSUME Init PROVE Sheets!Init
<1>1. Inv
  BY InitInv
<1>2. \A r \in Runs : Opened(r) = Items /\ published[r] = TallyOf(r) /\ status[r] = "absent"
  BY <1>1 DEF Inv, SheetsAreSound, Init
<1>3. Life = [r \in Runs |-> "new"]
  BY DEF Life, Init, Runs
<1>4. Outcomes = [r \in Runs |-> Sheets!Blank]
  <2>1. \A r \in Runs : Outcomes[r] = Sheets!Blank
    BY <1>2, BlankSheet
  <2> QED BY <2>1 DEF Outcomes
<1>5. published = [r \in Runs |-> Sheets!TallyOf(Sheets!Blank)]
  <2>1. \A r \in Runs : published[r] = Sheets!TallyOf(Sheets!Blank)
    BY <1>2, BlankSheet, OutcomesShowItems
  <2>2. published = [r \in Runs |-> published[r]]
    BY DEF Init
  <2> QED BY <2>1, <2>2
<1>6. CompleteRuns = {}
  BY <1>2 DEF CompleteRuns
<1> QED BY <1>3, <1>4, <1>5, <1>6 DEF Sheets!Init, Life, Outcomes, CompleteRuns

\* A status write of the worker or of a late cancellation: the sheet stays listed.
LEMMA StatusShows ==
    ASSUME Inv, NEW r \in Runs, NEW s \in (ACTIVE \cup FINAL) \ {"completed"},
           status[r] # "absent", status' = [status EXCEPT ![r] = s],
           UNCHANGED <<created, item, published>>
    PROVE  SheetStep
<1>1. UNCHANGED <<Life, Outcomes>>
  <2>1. \A x \in Runs : status'[x] = "absent" <=> status[x] = "absent"
    BY DEF Inv, TypeOK, ACTIVE, FINAL
  <2> QED BY <2>1 DEF Life, Outcomes
<1>2. CompleteRuns' = CompleteRuns \ {r}
  BY DEF CompleteRuns, Inv, TypeOK
<1>3. Sheets!Reopen(r)
  BY <1>1, <1>2 DEF Sheets!Reopen, Life, Outcomes, CompleteRuns
<1> QED BY <1>3 DEF SheetStep, Sheets!Next

\* Questions that are marked or taken back show as they did.
LEMMA MarksAreNotShown ==
    ASSUME UNCHANGED <<created, status, published>>,
           \A r \in Runs : \A i \in Items :
              IF item[r][i] \in TERMINAL THEN item'[r][i] = item[r][i] ELSE item'[r][i] \notin TERMINAL
    PROVE  SheetStep
<1>1. UNCHANGED <<Life, Outcomes, CompleteRuns>>
  BY DEF Life, Outcomes, CompleteRuns
<1> QED BY <1>1 DEF SheetStep

LEMMA OutcomesAreScored == ASSUME Inv, persist_outcomes PROVE SheetStep
<1>1. /\ Executes /\ worker.pc = "persist" /\ UNCHANGED <<status, created>>
      /\ worker.batch \subseteq worker.todo /\ worker.errs \subseteq worker.batch
      /\ Cardinality(worker.batch) <= MaxConcurrency /\ Opened(worker.run) = worker.todo
      /\ \A i \in worker.batch : item[worker.run][i] = "running"
  BY DEF persist_outcomes, Executes, KeepManager, Inv, WorkIsSound
<1>2. PICK r \in Runs : r = worker.run /\ r <= created /\ status[r] # "absent"
  BY <1>1, ExecutesARun DEF ACTIVE, FINAL
<1>3. PICK A : A = worker.batch
  OBVIOUS
<1>4. PICK E : E = worker.errs
  OBVIOUS
<1>5. WritesItsRun
  BY PersistWrites
<1>6. \A i \in Items : item'[r][i] = Outcome(r, i)
  BY <1>2 DEF persist_outcomes, Inv, TypeOK
<1>7. Outcomes' = [Outcomes EXCEPT ![r] =
                      [i \in Items |-> IF i \in E THEN "error"
                                       ELSE IF i \in A THEN "completed" ELSE @[i]]]
  <2>1. \A i \in Items : Outcomes'[r][i] = IF i \in E THEN "error"
                                           ELSE IF i \in A THEN "completed" ELSE Outcomes[r][i]
    BY <1>1, <1>2, <1>3, <1>4, <1>6 DEF Outcomes, Outcome, TERMINAL
  <2>2. \A x \in Runs : x # r => Outcomes'[x] = Outcomes[x]
    BY <1>2, <1>5 DEF Outcomes, WritesItsRun
  <2>3. /\ Outcomes = [x \in Runs |-> Outcomes[x]] /\ Outcomes' = [x \in Runs |-> Outcomes'[x]]
        /\ Outcomes'[r] = [i \in Items |-> Outcomes'[r][i]]
    BY DEF Outcomes
  <2> QED BY <2>1, <2>2, <2>3
<1>8. published' = [published EXCEPT ![r] = Sheets!TallyOf(Outcomes'[r])]
  <2>1. published'[r] = TallyOf(r)'
    BY <1>2, <1>5 DEF WritesItsRun
  <2>2. /\ {i \in Items : Outcomes'[r][i] # "open"} = {i \in Items : item'[r][i] \in TERMINAL}
        /\ {i \in Items : Outcomes'[r][i] = "error"} = {i \in Items : item'[r][i] \in {"error"}}
    BY DEF Outcomes, TERMINAL
  <2>3. Sheets!TallyOf(Outcomes'[r]) = TallyOf(r)'
    BY <2>2, SameCount DEF Sheets!TallyOf, TallyOf, Count
  <2>4. published' = [published EXCEPT ![r] = published'[r]]
    BY <1>2 DEF persist_outcomes, Inv, TypeOK
  <2> QED BY <2>1, <2>3, <2>4
<1>9. UNCHANGED <<Life, CompleteRuns>>
  BY <1>1 DEF Life, CompleteRuns
<1>10. CASE A = {}
  <2>1. UNCHANGED Outcomes
    <3>1. \A x \in Runs : Outcomes'[x] = Outcomes[x]
      <4>1. Outcomes'[r] = [i \in Items |-> Outcomes[r][i]]
        BY <1>1, <1>3, <1>4, <1>7, <1>10 DEF Outcomes
      <4> QED BY <1>7, <4>1 DEF Outcomes
    <3> QED BY <3>1 DEF Outcomes
  <2>2. UNCHANGED published
    <3>1. published[r] = Sheets!TallyOf(Outcomes[r])
      BY OutcomesShowItems DEF Inv, SheetsAreSound
    <3> QED BY <1>8, <2>1, <3>1 DEF Inv, TypeOK
  <2> QED BY <1>9, <2>1, <2>2 DEF SheetStep
<1>11. CASE A # {}
  <2>1. A \in SUBSET Sheets!Open(r) /\ E \in SUBSET A
    <3>1. A \subseteq Opened(r) /\ E \subseteq A
      BY <1>1, <1>2, <1>3, <1>4
    <3>2. Sheets!Open(r) = Opened(r)
      BY DEF Sheets!Open, Opened, Outcomes, TERMINAL
    <3> QED BY <3>1, <3>2
  <2>2. Life[r] = "listed"
    BY <1>2 DEF Life, Runs, Inv, TypeOK
  <2>3. Sheets!Cardinality(A) <= MaxConcurrency
    BY <1>1, <1>3, SameCount
  <2>4. \E B \in SUBSET Sheets!Open(r) :
           /\ B # {} /\ Sheets!Cardinality(B) <= MaxConcurrency
           /\ \E F \in SUBSET B :
                 Outcomes' = [Outcomes EXCEPT ![r] =
                    [i \in Items |-> IF i \in F THEN "error"
                                     ELSE IF i \in B THEN "completed" ELSE @[i]]]
    <3> HIDE DEF Outcomes
    <3> QED BY <1>7, <1>11, <2>1, <2>3
  <2>5. Sheets!Score(r)
    BY <1>8, <1>9, <2>2, <2>4 DEF Sheets!Score, Life, Outcomes, CompleteRuns
  <2> QED BY <2>5 DEF SheetStep, Sheets!Next
<1> QED BY <1>10, <1>11

\* The end of an execution: a complete sheet has no open question.
LEMMA LastStateShows == ASSUME Inv, set_last_state PROVE SheetStep
<1>1. /\ Executes /\ worker.pc \in DOMAIN LastState /\ UNCHANGED <<created, item, published>>
      /\ set_run_state(worker.run, LastState[worker.pc])
  BY DEF set_last_state, LastState, Executes, KeepManager
<1>2. PICK r \in Runs : r = worker.run /\ r <= created /\ status[r] # "absent"
  BY <1>1, ExecutesARun DEF ACTIVE, FINAL
<1>3. PICK s \in FINAL : s = LastState[worker.pc]
  BY <1>1 DEF LastState, FINAL
<1>4. status' = [status EXCEPT ![r] = s]
  BY <1>1, <1>2, <1>3 DEF set_run_state
<1>5. CASE s # "completed"
  BY <1>1, <1>2, <1>4, <1>5, StatusShows
<1>6. CASE s = "completed"
  <2>1. worker.pc \in {"complete", "complete_early"}
    BY <1>1, <1>3, <1>6 DEF LastState
  <2>2. Sheets!Open(r) = {}
    <3>1. Opened(r) = {}
      BY <1>2, <2>1 DEF Inv, WorkIsSound
    <3> QED BY <3>1 DEF Sheets!Open, Opened, Outcomes, TERMINAL
  <2>3. Life[r] = "listed"
    BY <1>2 DEF Life, Runs, Inv, TypeOK
  <2>4. UNCHANGED <<Life, Outcomes, published>>
    <3>1. \A x \in Runs : status'[x] = "absent" <=> status[x] = "absent"
      BY <1>2, <1>4, <1>6 DEF Inv, TypeOK
    <3> QED BY <1>1, <3>1 DEF Life, Outcomes
  <2>5. CompleteRuns' = CompleteRuns \cup {r}
    BY <1>4, <1>6 DEF CompleteRuns, Inv, TypeOK
  <2>6. Sheets!Complete(r)
    BY <2>2, <2>3, <2>4, <2>5 DEF Sheets!Complete, Life, Outcomes, CompleteRuns
  <2> QED BY <2>6 DEF SheetStep, Sheets!Next
<1> QED BY <1>5, <1>6

LEMMA StatusWritesShow ==
    ASSUME Inv, set_running \/ requeue
    PROVE  SheetStep
<1>1. /\ Executes /\ UNCHANGED <<created, item, published>>
      /\ \E s \in {"running", "queued"} : set_run_state(worker.run, s)
  BY DEF set_running, requeue, Executes, KeepManager
<1>2. PICK r \in Runs : r = worker.run /\ status[r] # "absent"
  BY <1>1, ExecutesARun DEF ACTIVE, FINAL
<1>3. PICK s \in {"running", "queued"} : set_run_state(worker.run, s)
  BY <1>1
<1>4. s \in (ACTIVE \cup FINAL) \ {"completed"} /\ status' = [status EXCEPT ![r] = s]
  BY <1>2, <1>3 DEF set_run_state, ACTIVE
<1> QED BY <1>1, <1>2, <1>4, StatusShows

\* A run that is created is listed on a sheet of its own, never a former one's.
LEMMA CreatedIsListed == ASSUME Inv, NEW q \in Requests, create_run(q) PROVE SheetStep
<1>1. UNCHANGED <<item, published>>
  BY DEF create_run
<1>2. CASE created < MaxRuns
  <2>1. PICK new : new = created + 1
    OBVIOUS
  <2>2. new \in Runs /\ created' = new /\ status' = [status EXCEPT ![new] = "queued"]
        /\ \A r \in Runs : r # new => (r > created' <=> r > created)
    <3>1. /\ created' = new /\ created \in 0 .. MaxRuns /\ MaxRuns \in Nat
          /\ status' = [status EXCEPT ![new] = "queued"]
      BY <1>2, <2>1, ConstantsAssumption DEF create_run, Inv, TypeOK
    <3> QED BY <1>2, <2>1, <3>1 DEF Runs
  <2>3. new > created /\ ~(new > created') /\ status[new] = "absent"
    BY <2>1, <2>2 DEF Inv, TypeOK, HandsAreSound, Runs
  <2>4. Life[new] = "new" /\ Life' = [Life EXCEPT ![new] = "listed"]
    <3>1. status'[new] = "queued" /\ \A r \in Runs : r # new => status'[r] = status[r]
      BY <2>2 DEF Inv, TypeOK
    <3> QED BY <2>2, <2>3, <3>1 DEF Life
  <2>5. UNCHANGED <<Outcomes, CompleteRuns>>
    BY <1>1, <2>2, <2>3 DEF Outcomes, CompleteRuns, Inv, TypeOK
  <2>6. Sheets!List(new)
    BY <1>1, <2>4, <2>5 DEF Sheets!List, Life, Outcomes, CompleteRuns
  <2> QED BY <2>2, <2>6 DEF SheetStep, Sheets!Next
<1>3. CASE ~(created < MaxRuns)
  BY <1>1, <1>3 DEF create_run, SheetStep, Life, Outcomes, CompleteRuns
<1> QED BY <1>2, <1>3

LEMMA CancelShows == ASSUME Inv, NEW q \in Requests, request_cancel(q) PROVE SheetStep
<1>1. req[q].pc = "cancel" /\ UNCHANGED <<created, item, published>>
  BY DEF request_cancel
<1>2. PICK r \in Runs : r = req[q].run
  BY <1>1 DEF Inv, TypeOK
<1>3. CASE status' = [status EXCEPT ![r] = "cancel_requested"] /\ status[r] # "absent"
  <2>1. "cancel_requested" \in (ACTIVE \cup FINAL) \ {"completed"}
    BY DEF ACTIVE
  <2> QED BY <1>1, <1>3, <2>1, StatusShows
<1>4. CASE UNCHANGED status
  BY <1>1, <1>4 DEF SheetStep, Life, Outcomes, CompleteRuns
<1> QED BY <1>2, <1>3, <1>4 DEF request_cancel, set_run_state

\* A deleted run's sheet is blank and gone for good; deleting it again shows nothing.
LEMMA DeletedIsRemoved == ASSUME Inv, NEW q \in Requests, delete_run(q) PROVE SheetStep
<1>1. req[q].pc = "delete" /\ UNCHANGED created
  BY DEF delete_run
<1>2. PICK r \in Runs : r = req[q].run /\ r <= created
  <2>1. req[q].run \in Runs /\ req[q].run \in 1 .. created
    BY <1>1 DEF Inv, TypeOK, ProcessIsSound
  <2> QED BY <2>1
<1>3. /\ status' = [status EXCEPT ![r] = "absent"]
      /\ item' = [item EXCEPT ![r] = [i \in Items |-> "pending"]]
      /\ published' = [published EXCEPT ![r] = NothingPublished]
  BY <1>2 DEF delete_run
<1>4. Outcomes' = [Outcomes EXCEPT ![r] = Sheets!Blank]
  <2>1. Outcomes'[r] = [i \in Items |-> "open"] /\ \A x \in Runs : x # r => Outcomes'[x] = Outcomes[x]
    BY <1>3 DEF Outcomes, TERMINAL, Inv, TypeOK
  <2>2. Sheets!Blank = [i \in Items |-> "open"]
    BY DEF Sheets!Blank
  <2>3. Outcomes = [x \in Runs |-> Outcomes[x]] /\ Outcomes' = [x \in Runs |-> Outcomes'[x]]
    BY DEF Outcomes
  <2> QED BY <2>1, <2>2, <2>3
<1>5. NothingPublished = Sheets!TallyOf(Sheets!Blank)
  <2>1. /\ {i \in Items : Sheets!Blank[i] # "open"} = {}
        /\ {i \in Items : Sheets!Blank[i] = "error"} = {}
    BY DEF Sheets!Blank
  <2> QED BY <2>1, SameCount, FS_EmptySet DEF Sheets!TallyOf, NothingPublished
<1>6. CompleteRuns' = CompleteRuns \ {r}
  BY <1>3 DEF CompleteRuns, Inv, TypeOK
<1>7. ~(r > created)
  BY <1>2 DEF Runs, Inv, TypeOK
<1>8. CASE status[r] # "absent"
  <2>1. Life[r] = "listed" /\ Life' = [Life EXCEPT ![r] = "removed"]
    <3>1. status'[r] = "absent" /\ \A x \in Runs : x # r => status'[x] = status[x]
      BY <1>3 DEF Inv, TypeOK
    <3> QED BY <1>1, <1>7, <1>8, <3>1 DEF Life
  <2>2. Sheets!Remove(r)
    BY <1>3, <1>4, <1>5, <1>6, <2>1 DEF Sheets!Remove, Life, Outcomes, CompleteRuns
  <2> QED BY <2>2 DEF SheetStep, Sheets!Next
<1>9. CASE status[r] = "absent"
  <2>1. Opened(r) = Items /\ published[r] = TallyOf(r)
    BY <1>9 DEF Inv, SheetsAreSound
  <2>2. Outcomes[r] = Sheets!Blank
    BY <2>1, BlankSheet
  <2>3. published[r] = NothingPublished
    BY <1>5, <2>1, <2>2, OutcomesShowItems
  <2>4. UNCHANGED <<status, published>>
    BY <1>3, <1>9, <2>3 DEF Inv, TypeOK
  <2>5. UNCHANGED Outcomes
    BY <1>4, <2>2 DEF Outcomes
  <2> QED BY <1>1, <2>4, <2>5 DEF SheetStep, Life, CompleteRuns
<1> QED BY <1>8, <1>9

LEMMA NextShows == ASSUME Inv, [Next]_vars PROVE SheetStep
<1>1. CASE UNCHANGED rows
  BY <1>1 DEF rows, SheetStep, Life, Outcomes, CompleteRuns
<1>2. CASE start
  <2>1. \A r \in Runs : /\ status'[r] = "absent" <=> status[r] = "absent"
                        /\ status'[r] = "completed" <=> status[r] = "completed"
    BY <1>2 DEF start, Recovered
  <2> QED BY <1>2, <2>1 DEF start, SheetStep, Life, Outcomes, CompleteRuns
<1>3. CASE pending_items \/ mark_items_running
  <2>1. /\ worker.run \in Runs /\ item \in [Runs -> [Items -> ItemStatuses]]
        /\ UNCHANGED <<created, status, published>>
    BY <1>3, ExecutesARun
       DEF pending_items, mark_items_running, Executes, KeepManager, Inv, TypeOK, ItemStatuses
  <2>2. \A r \in Runs : \A i \in Items :
           IF item[r][i] \in TERMINAL THEN item'[r][i] = item[r][i] ELSE item'[r][i] \notin TERMINAL
    <3>1. CASE pending_items
      BY <2>1, <3>1 DEF pending_items, TERMINAL
    <3>2. CASE mark_items_running
      BY <2>1, <3>2 DEF mark_items_running, TERMINAL
    <3> QED BY <1>3, <3>1, <3>2
  <2> QED BY <2>1, <2>2, MarksAreNotShown
<1>4. ASSUME NEW q \in Requests, RequestStep(q) \/ NewRequest(q) \/ AuditError(q) PROVE SheetStep
  <2>1. CASE NewRequest(q) \/ AuditError(q) \/ audit_and_enqueue(q)
    <3>1. UNCHANGED rows
      BY <2>1 DEF NewRequest, AuditError, audit_and_enqueue, start_run_check, cancel_run_read, delete_run_read
    <3> QED BY <1>1, <3>1
  <2> QED BY <1>4, <2>1, CreatedIsListed, CancelShows, DeletedIsRemoved DEF RequestStep
<1>5. CASE \/ stop \/ stopped \/ Crash \/ Interrupt \/ worker_loop_get \/ worker_loop_finally
           \/ credential_run_and_knowledge \/ run_status \/ score_batch \/ CallError \/ UNCHANGED vars
  <2>1. UNCHANGED rows
    BY <1>5 DEF stop, stopped, Crash, Interrupt, worker_loop_get, worker_loop_finally,
       credential_run_and_knowledge, run_status, score_batch, CallError, vars, rows
  <2> QED BY <1>1, <2>1
<1> QED BY <1>2, <1>3, <1>4, <1>5, OutcomesAreScored, LastStateShows, StatusWritesShow
        DEF Next, WorkerStep

\* Every execution of the queue, with its kills, requeues, recoveries and late
\* cancellations, is one of the score sheets: each question gets one outcome, at
\* most a batch of them at a time, the tally always counts them, a completed sheet
\* has none open and a deleted one never comes back (persist_outcomes,
\* _set_run_state, pending_items, delete_evaluation_run).
THEOREM EvaluationKeepsScoreSheets == Spec => KeepsScoreSheets
<1>1. Init => Sheets!Init
  BY InitSheets
<1>2. Inv /\ [Next]_vars => [Sheets!Next]_Sheets!sheetVars
  BY NextShows DEF SheetStep, Sheets!sheetVars, Life, Outcomes, CompleteRuns
<1> QED BY <1>1, <1>2, InvHolds, PTL DEF Spec, KeepsScoreSheets, Sheets!Spec

=============================================================================
