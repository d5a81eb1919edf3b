# A verification project for tianxu

tianxu is a BaZi analysis application: a FastAPI backend (`backend`), a Next.js
frontend (`frontend`), PostgreSQL for everything durable and Neo4j for a graph of
interpretation rules. The backend is one uvicorn process with one event loop. This
directory holds TLA+ models of the backend (and of the chat workspace in the
browser), the TLC runs that check them and the TLAPS proofs about them.
`PROJECT.json` maps every definition to the lines it stands for.

To check a run: `tlc -config <name>.cfg <module>.tla`; to check a proof: `tlapm <module>.tla`.

## 1. Inventory

| Part | State it keeps | Operations | What is hard | What makes it correct |
|---|---|---|---|---|
| **Graph organizer queue** (`graph_organizer_worker.py`, `graph_organizer_repository.py`, `api/graph_routes.py`) | job and trace rows, an in-memory queue with the set that guards it, one worker task, the sections committed to Neo4j | start, pause, resume, retry, cancel; execute a job section by section; recover at start, stop | two databases without a common commit; `task.cancel()` at any await; kills; check-then-act in the routes | progress is never ahead of what was written; no job lost, stranded or run twice; requests are carried out |
| **Evaluation queue** (`evals/mingli_bench/worker.py`, `repository.py`, `api/evaluation_routes.py`) | run and item rows with shown counts, an in-memory queue, one worker task | start, cancel, delete; ask questions in concurrent batches; recover, stop | blind status writes racing the cancel route; a kill inside a batch | outcomes are stored once, counts agree with them, a run ends |
| **Tool-calling agent** (`tool_calling_agent.py`, `agent_tools.py`, `agent_capabilities.py`) | one session's history, calls, executions | ask the model, dispatch tools, finalize | failures between two tools, deadlines, text streamed before tools | every call answered once, in order; nothing starts late; what is shown is what is stored |
| **Agent trace** (`agent_trace.py`) | the stored trace | compact a session, rebuild its requests | cutting one list of executions at the right places | the rebuilt requests are those that were sent |
| **Rule extraction and merge** (`graph_organizer.py`) | none but the session's | cut a text into sections, validate and merge submitted rules with the graph | boundaries, identity of rules, several submissions in a session, a session repeated after its write | the sections are the text; merging twice is merging once |
| **Rule graph store** (`graph_store.py`) | Neo4j | apply a change set, summaries, neighbourhoods, snapshot | reads and the write in different transactions; groups of conditions shared by later submissions | a change set is applied as a whole, once; what is read fits together |
| **Rule graph search** (`rule_graph_search.py`, `rule_graph_capability.py`) | a cache of vectors shared by all searches, the embedding's error | match, rank by words and by vectors, fuse, read the evidence | searches beside each other and beside a write; an embedding that fails | vectors are of the texts that were read; what is shown was in the graph |
| **Chat** (`api/chat_routes.py`, `conversations.py`, `chat_agent.py`, `components/chat-workspace.tsx`) | conversations and messages; a tab's draft and the message it waits for | stream an answer, store the turn, delete | concurrent turns, disconnects, a deletion meanwhile, a commit whose refresh fails | turns stored whole; what the client is told is what was stored; every message gets an end |
| **Accounts** (`auth.py`, `api/auth_routes.py`, `api/admin_routes.py`, `cli.py`) | users, sessions, throttles, the bootstrap flag | set up, log in and out, change, reset, disable, delete sessions | unlocked reads, several commits per operation, rows locked in different orders | one administrator set up by the web, a reset leaves no older session, no deadlock |
| **Knowledge documents** (`knowledge.py`, `api/knowledge_routes.py`, `knowledge_tools.py`) | documents with their text, audit rows; what an agent session found and read | upload, delete; search, read the page of a hit, the next and the previous one | two uploads at once, failing commits; page boundaries | one row per text, each with its audit row; the page of a hit shows it, reading on loses nothing |
| **Chart engine** (`bazi/`) | none | pillars, luck periods, years and months, the ones that hold at an instant | half-open intervals that meet at births, years and months | the periods tile the time and one of each holds at an instant |
| Reports, credentials, configuration, schemas, migrations | one credential row | generate a report; replace the credential | – | – |

How they interact: the routes and the lifespan of the process (`main.py`) call the
two task managers; each manager's worker runs jobs by calling an **agent session**
(organizer and evaluations; chat and reports call it from their handlers); the
session calls the model over HTTP and its tools in process; the organizer's
submitting tool merges and writes the rules to Neo4j, the reading tools search the
graph and page through documents; all keep their rows in PostgreSQL under READ
COMMITTED. There is no lock besides `SELECT ... FOR UPDATE` in a few places, the
locks of rows that are written, and one around the vectors; and no message bus:
shared state is the rows, the two in-memory queues, the vector cache and the
asyncio tasks.

## 2. Plan

Done, the most important behaviour first:

1. `GraphOrganizer` – the organizer queue; its safety proved.
2. `EvaluationQueue`, with the abstract specification `ScoreSheets` it implements;
   its safety and the refinement proved.
3. `AgentSession` – the shared loop with its listener, deadline and trace; its safety proved.
4. `ChatTurns` – conversations with concurrent turns, deletions, lost connections;
   its safety proved.
5. `Accounts` – set-up, sessions and their revocation, throttle, administrators; its
   safety proved.
6. `RuleGraph` and `TextSections` – what a section is and what its session writes;
   `RuleSearch` on top of `RuleGraph` – the readers beside the writer. The sections,
   the writes and the readers proved.
7. `Knowledge` on top of `Paging` – documents and pages; both proved.
8. `FortuneTimeline` – luck periods, years and months; proved.

To be done:

9. An abstract specification of a job (`OrganizedDocument`: sections are written in
   order, a job ends applied, cancelled or failed) that `GraphOrganizer` implements.
10. The deletion of a document whose job runs, composed of `GraphOrganizer`,
    `Knowledge` and `RuleGraph` (see the end of section 5).

Left to prove: the refinement of item 9.

## 3. The modules

| Module | Models |
|---|---|
| `GraphOrganizer` | `GraphOrganizerTaskManager`, `execute_graph_organizing_job` and the routes of `/api/v1/admin/graph` that change jobs |
| `GraphOrganizerProofs`, `GraphOrganizerWork` | theorems about it: types, queue and progress; what becomes of the jobs |
| `EvaluationQueue` | `EvaluationTaskManager`, `execute_evaluation_run`, the routes of evaluations |
| `ScoreSheets` | the abstract promise `EvaluationQueue` implements |
| `EvaluationProofs` | theorems about both |
| `AgentSession` | `run_tool_calling_agent`, `AgentToolRegistry.dispatch_async`, `trace_model_calls` |
| `AgentSessionProofs` | theorems about it |
| `ChatTurns` | `stream_message`, `ConversationRepository`, the sending side of `chat-workspace.tsx` |
| `ChatTurnsProofs` | theorems about it |
| `Accounts` | `AuthRepository`, the routes of authentication and of users, the command line |
| `AccountsProofs` | theorems about it |
| `RuleGraph` | `merge_graph_extractions`, the submitting capability, `GraphStore.apply_rules` |
| `RuleGraphProofs` | theorems about it: the graph stays sound, writes only add, reports are exact, repeats add nothing |
| `RuleSearch` | `RuleGraphHybridSearch`, the search tool, `GraphStore`'s reads (EXTENDS `RuleGraph`) |
| `Knowledge` | `KnowledgeRepository`, its routes, `detect_txt_encoding`, `KnowledgeToolSession` (EXTENDS `Paging`, `Positions`) |
| `Paging` | where pages and contexts begin and end |
| `TextSections` | `split_document_sections`, `_preferred_break` |
| `FortuneTimeline` | `calculate_fortune_cycles`, `select_fortune_at` |
| `Positions` | what a loop collects of a sequence; used by `RuleGraph`, `Knowledge` and `FortuneTimeline` |
| `LibraryProofs` | theorems about the last six but `Positions`: searches, documents, pages, sections, the timeline (EXTENDS `RuleGraphProofs`) |
| `MC...` | instances for TLC; `MCLibrary` holds those of `RuleGraph` and the modules below it |

Conventions. A database transaction is one step, and every `await` between two
transactions is a value of a program counter, at which any other coroutine may run.
A definition named after another one and a fault (`enqueue_again`,
`CallTools_unmoved`) is what that code would be with the fault; no behaviour of a `Spec`
uses it, each breaks the property it is paired with in `PROJECT.json`.
The arms of a `CASE` exclude each other, and `UNION A` stands in parentheses before `\cup`,
which TLC and TLAPS would group differently.
A property of a run that is a conjunction (`WorkIsHeld`, `GraphIsSound`) names its
parts, each stated and explained on its own above it.

### GraphOrganizer

| Code | Model |
|---|---|
| a row of `graph_organizing_jobs` | `job[j]`: document, status, `offset` (the end of the last recorded section, counted in sections), how many sections its counters have summed |
| rows of the trace table, "completed" | `traced[j]` |
| rules in Neo4j, by job | `graph[j]`, the sections committed |
| `_queue`, `_queued`, `_worker_task`, `_current_job_id` | `queue`, `queued`, `workerTask`, `current` |
| a worker task and its locals | `task[t]`; there may be several: one that ended or was cancelled, and its successor |
| an HTTP handler between its transactions | `req[r]` |
| the process | `phase`; `start`, `stop`, `stopped`, `Crash` |

`task.cancel()` sets a flag; the CancelledError is raised at the await the task is
in, and the call in flight there took effect or not (`Interrupt`). A database call
may raise (`DbError`), which leads where the `except` clauses lead. A section is
`extract` (the agent session, up to `MaxAttempts`), `submit_rule_graph` (the Neo4j
commit), `record_trace_*` and `record_section`. What the rules say is left to
`RuleGraph`; the session is the one of `AgentSession`, seen from outside: it submits
or it does not, and it may fail after it has.

### EvaluationQueue and ScoreSheets

A run row is its `status` and `published` counts, an item row a status; the worker
holds the list of open questions it loaded and the batch it asks. A batch is scored
at once (`score_batch`): its questions run concurrently but write nothing until
`_persist_outcomes`. A database call that raises had no effect: the case that it
had, and that the process dies after it, is a kill after the step. A failure may
last until the handler's own call (`Handling`): then the worker's task dies, and what
waits is taken up after the next enqueue or start. The routes read in one
transaction and write in another; a cancel of what is to be cancelled already writes
only a time. `lost` is a ghost: the runs that were left in nobody's hands since the
process started, by an audit log that was not written, a worker that died, or a
cancellation written over an end. `RunIsHeld` says that there is no other way,
whatever the order of the administrators' requests; `QueuedEnds` excuses the
same runs, one by one, and no others.

`ScoreSheets` hides the queue, the worker, the kills: a sheet is listed, questions
are scored once, at most `Batch` at a time, the tally counts them in the same step,
a sheet is complete only without open questions, and a removed one never returns.
`KeepsScoreSheets` is `Sheets!Spec` under the mapping at the end of `EvaluationQueue`.

### AgentSession

`history` is `responses_input` or `chat_messages` after the prompt: both protocols
build the same list, a reply followed by an output per call. `sent` remembers every
request; `calls` and `execs` are `model_calls` and `tool_executions`; `shown` is what
the listener shows, as (request, message) pairs. The model returns anything the
protocols allow: text, tools, text before tools, tools that do not exist, malformed
calls, error statuses, silence. A tool returns a result, an input error (returned to
the model for some tools), raises, or is cancelled by the deadline; a submitting one
may have taken effect in each of the last cases. Exceptions raised by the listener are left out.

The last section rebuilds each request from the stored trace as `trace_model_calls`
does: from one request, the stored replies and one flat list of executions, which
`_next_request_body` lays beside the calls of each reply. What is sent
(`Continuation`) carries the reasoning of a reply under both protocols; what is rebuilt does
under `responses` only (see section 5).

### ChatTurns

| Code | Model |
|---|---|
| a row of `agent_conversations` / of its messages | `conversation[c]` (its title) / a record in `message` |
| `stream_message` with what it read and what its transaction holds back | `run[r]`: `history`, `title`, `rows`, `connected`, `told` |
| the composer and `isSending` of a tab | `tab[t].draft`, `tab[t].run` |

`_prepare_chat_run` reads the conversation (and with it the title that `add_turn` looks at)
and the messages in two statements, each of which sees what was committed before it:
`handleSend` and `read_messages`. `add_turn` is four steps: the two INSERTs (a message takes its id, and a lock on its
conversation, when it is inserted), the commit, the refresh. A failure or a lost
connection may hit before or after each; the tab's connection breaks in a step of
its own and the server learns of it in another. `cut` is the set of runs that are stored though
their tab took them for failed. The agent is one step that answers
or does not: what happens in it is `AgentSession`.

### Accounts

Each request is a sequence of transactions (`pc`); `seen` is the user object of its
identity map, which the code goes on to use after others have written. Rows that a
request writes or selects `FOR UPDATE` stay locked until it commits (`locks`). A password is a number, a
token a session's number; a request can be cut off at every await. What the login
check reads of the throttle is forgotten again (the identity map holds objects weakly), so
a failed login reads the row anew: `read_login_failure` and `record_login_failure` are the `get`
and the commit of `record_login_failure`, with no lock between them. `setups` and `failures` count what really
happened, to compare the flag and the throttle with: `failures[u]` begins anew at 0 when a
success deletes the row and at 1 when a failure opens a new window, unless another login is between its
reading of the row and its write (`Quiet`), which may yet put back the count it has read.

### RuleGraph and RuleSearch

A text is a member of a small set with its normalized key, and a key a sequence of tokens; ids
are made of keys, and the hash alone is taken as injective. The id of a condition group is that of its
keys joined by the words "and" and "none", as in `_condition_group_id`, where `normalize_graph_key`
leaves no mark of where a key ends: the groups [x, y] and [x and y] of a rule are one node.
The two words are tokens, since an occurrence of one of them in the joined key is either the one put
there or lies within one text: neither overlaps itself or the other, and "all" stands at a
fixed place behind the rule's id. `graph` is the
committed graph: rules with names, aliases, summary and sources, and edges with the
jobs that wrote them. A session reads the existing rules (`read_rules`), merges and
writes in later steps, and may fail after the write, so that the section is read and
submitted again.

A search reads the summaries, brings the shared vectors up to date, ranks, and reads the
neighbourhoods of the hits in a later transaction; how BM25 and the vectors
rank is left open (any order), how the rankings are cut and fused is not.

### Knowledge, Paging, TextSections, FortuneTimeline

A file is its digest, its byte-order mark, the encodings that decode it and those
whose text is readable. A text, for the tools, is its length, where its newlines
are and where each query occurs: the operators of `Paging` take nothing else.
Uploads are: the check for a twin, the INSERT, the commit with its audit row, the
refresh. `TextSections` has characters of five classes, which is all that the patterns of
the code distinguish: `\r?\n` is one line break, two that adjoin (`Adjoins`) end a paragraph. `FortuneTimeline` counts time in units, takes the beginnings of
months from a given calendar and civil years as equally long. What it assumes of the calendar
(`CalendarAssumption`): the first month of a year begins within the civil year of that number, as
Lichun does, and each month begins after the one before, the twelfth before the next year's first.

## 4. The runs

| Run | Instance | Shows |
|---|---|---|
| `organizer_core` | 1 document that may be deleted, 2 jobs, 2 sections, 2 handlers, no faults | types, the queue and its set agree, `WorkIsHeld` (no job lost or stranded, the queue has one worker), `RestIsKept` (a cancelled job stays so, a paused or ended one does not move) |
| `organizer_restart` | 2 documents, 2 jobs, 1 handler, 1 kill at any step, shutdowns | `WorkIsHeld` over a restart; `JobsMove` (queued jobs are taken up, pauses and cancels carried out), the cancel route answers |
| `organizer_faults` | 1 job, 2 sections, 3 attempts, 1 kill, 2 database errors, unusable inputs | what is recorded is written, an applied job is complete, `CountedByOneWorker`, progress in order |
| `organizer_cancelled` | 1 job, unusable inputs | **violated**: a failure is written over `cancelled` |
| `organizer_duplicate` | 2 handlers | **violated**: two unfinished jobs of one document |
| `evaluation_core` | 2 runs, 2 questions one by one, 2 handlers, any number of kills, 1 failure in each life of the process | types, `RunIsHeld` (no run lost but in the three known ways), the refinement, `RunsEnd` (queued runs and shutdowns end) |
| `evaluation_stuck`, `evaluation_forgotten` | 1 handler | **violated**: see section 5 |
| `agent_session` | 3 tools (reading, submitting, terminal), 3 requests, 2 tools and 2 texts per reply, deadline, listener | `SessionIsSound` (calls answered, a terminal tool alone, no hidden write), `StoredIsTrue` (the trace rebuilds the requests, the answer is what was shown), `NothingBeginsAfter` the deadline or the end, and an end |
| `accounts` | 2 users, 2 requests at a time, 3 in all, from an empty database, from two accounts and from two failed logins | one set-up, a password reset leaves no older session, `GuardsHold` (the last administrator, the throttle), every request is answered |
| `chat` | 2 tabs, 2 conversations, 2 texts, 2 messages sent | types, `ConversationsAreSound` (whole turns, the title, complete is stored), a message is stored twice only behind a sending that its tab took for failed, every message gets an end |
| `library` | `part` is one of: `merge`, `search`, `snapshot`, `shelf`, `reading`, `sections`, `fortune` | eleven properties, below |

`library` puts parts that share no state into one run: a behaviour is of one part,
chosen at the beginning, the variables of the others stay as they were, and each
property is about one part. What it explores:

* `merge`: two submissions of up to two rules out of eleven (spellings of one key, a name without
  a key, aliases, groups in two orders, two groups of one id, the same conditions with and
  without an excluded one, contradicting conditions, links to each other),
  one failure with or without effect, two sections of two jobs. `GraphIsSound`: one
  rule per name, edges join nodes that exist, created rules are counted once. `RepeatAddsNothing`: merging what was merged changes
  nothing. `WritesAreSound`: a rule is never lost, a created one was unknown, the
  report is what was written, and a group that is written has its own conditions and no others, none
  required and excluded at once (`ConditionsStayApart`). The last, and the number of
  relationships in the report, are about texts without the words "and" and "none"
  (`Wordless`): without this TLC finds two groups that meet.
* `search`, `snapshot`: two readers beside two submissions. `SearchesAreSound`: the vectors used are of the
  texts read, the ranking is a fusion of the two, nothing that matches is lost for a
  failing embedding. `ReadsFitTogether`: a hit's evidence is of the graph, a
  snapshot's relationships join its nodes.
* `shelf`: two administrators, three rows, one failing commit. `ShelfIsSound`: one row per
  text, each with its audit row, and readable with its label.
* `reading`: every text of nine characters with any of them a newline, pages of five. `PagesShowMatches`: the page
  of a hit shows it and the context does, reading on progresses to the end.
  `HitsAreFair`: hits are not repeated, and each query has its share.
* `sections`: every text of up to six characters of five classes, of seven of four, and of eight
  of a newline with the end of a sentence or with a carriage return.
  `SectionsAreSound`: the sections tile the text within the limits, crumbs are few, sentences stay whole.
* `fortune`: years of 24 units, periods of two years, 14 births at and around the limits of months, four
  beginnings of luck, three calendars. `TimelineIsSound`: the periods tile
  the time, their years tile them and the months the years, months follow on, transitions are marked. `ChosenHolds`: at every instant the
  chosen period, year and month hold.

Why the bounds are enough. Two handlers are the least that race each other, with
the worker as a third actor; a third handler adds nothing that two and the worker
do not show, as each route touches one row and one manager call. Two jobs are
the least where one waits behind another; two sections the least with a boundary
between them and a last one; a kill at any step with the recovery after it. Two
runs of two questions in two batches are one that waits behind another, each with a
boundary where it can be killed or cancelled, and two handlers that race each other
and the worker (a partial batch among larger ones is left to
`EvaluationKeepsScoreSheets`). Three requests give a
session whose history has two continuations, two tools per reply a failure after a
success. `MaxTasks` must hold a worker, one that is ending and one the await of a
handler still names. Two runs of chat are two turns of one conversation or a
message and its repetition. Three account requests are two that race and one that
depends on their outcome (a login after a reset). Two submissions are one that
creates and one that meets what was created, or a section and its repetition. The
limits of pages and sections are scaled down with the texts; every relation between
them that the code's numbers have (`PageAssumption`, `SectionAssumption`) is kept,
and look-back equals target as in the code. The bounds are `MaxJobs`, `MaxTasks`,
`MaxCrashes`, `MaxDbErrors`, `Deletable`, `MaxRuns`, `MaxErrors`, `MaxModelCalls`, `MaxParallel`,
`MaxTexts`, `MaxSessions`, `MaxPassword`, `MaxRequests`, `MaxSubmits`, `MaxFailures` (of `RuleGraph`),
`MaxDocuments`, `MaxAuditErrors`; each is named where it is declared.

`CHECK_DEADLOCK FALSE` everywhere: a process may stay down for ever, an
organizer whose jobs are used up has nothing left to do, and a session, a
conversation, a text end. That no request waits for another's lock for ever is
`RequestsAnswered`.

`QueueHasWorker` and `AtRestNothingMoves` are not checked with database errors,
because the code does not keep them there. A second failure, in `_worker_loop`'s own
handler, ends the worker task until the next enqueue. And a cancelled job can become
failed (`organizer_cancelled` below) and be retried while the first cancel request is
still on its way: that request then settles the retried job as cancelled while
the worker goes on with a section of it. The latter happens without database errors
too when the inputs of a job can be unusable, and `core` has none that are; section 5
tells what else such a job can meet.

### Fairness

`FairSpec` of `GraphOrganizer`: the event loop runs a worker or a handler that can go
on (`WF` of their steps), and a shutdown that has begun ends. A session ends because
the organizer gives it a deadline (`SessionEnds` of `AgentSession`). Nothing is
assumed of `start`: the compose files give the backend no restart policy, so the
liveness properties allow the process to stay down; nor of the administrators.

`FairSpec` of `EvaluationQueue`: the same, and that a question ends. A silent model
is cut off by the read timeout of the HTTP client (90 s), but evaluations give the
session no deadline, so that the model stops asking for tools is an assumption
about the model, not something the code enforces.

`FairSpec` of `AgentSession`: time passes, the loop's own steps are taken, and
`asyncio.timeout` cancels a call that waits. Model and tools may be silent for ever.

`Fairness` of `ChatTurns`: a run that can go on does (its session ends, the database
answers), and a tab reads what has arrived, a lost connection being one way. Chat gives the session no deadline either,
with the same assumption. `Fairness` of `Accounts`: a request that can go on does.
Users, failures and lost connections are left to chance everywhere; no strong
fairness is used.

## 5. What the violated runs show

* `organizer_cancelled` – `_mark_failed` excepts `cancel_requested` only. A job that was
  cancelled while queued and whose inputs turn out unusable becomes `failed` and can
  be retried; `backend/README.md` line 111 says a cancelled one can not.
* `organizer_duplicate` – start looks for an unfinished job and inserts in a later
  transaction, without a lock or a constraint. The start of an evaluation run has
  the same two transactions (`evaluation_routes.py:242`), so that two administrators
  can have two active runs: in `evaluation_core` this happens, both are held and
  executed one after the other, and no property says that there is one.
* `evaluation_stuck` – the cancel route writes `cancel_requested` over the final status
  of a run that ended after it was read. The run is active again, in no queue: it does
  not end, can not be deleted and blocks new runs until the process restarts.
* `evaluation_forgotten` – the worker writes `running` (or, when it is stopped, `queued`)
  without looking at the row again, over a cancel request committed meanwhile.

Seen while modelling, where a property states what the code does keep:

* The guard of the last administrator locks the administrators but compares the user
  object read before. Two requests that each disable or demote after such a read can
  leave none (a trace of eight steps); `LastAdminGuarded` says that the guard fails on an outdated object only.
* The throttle counts less, or more, than what fails. Between `record_login_failure`'s `get` (`auth.py:286`) and its commit
  (301) nothing is locked, and the count that is written is the one that was read plus one: two
  failures count as one, and a count that was read before a success deleted the row is
  written on the row that a later failure inserted. A count read as 1 in a window that was over is set
  to 0 and then to 1, which to SQLAlchemy is no change: the UPDATE writes the window and leaves the count,
  which goes on from where other requests took it. A user can then be blocked with fewer than
  `LOGIN_MAX_FAILURES` failures in the window. What is kept is that nobody is blocked with fewer since the count
  last began anew while no other login was between its reading and its write (`BlockedByFailures`, `Quiet`).
* A login that verified the old password before a reset and inserts its session after the
  revocation stays signed in: `ResetEndsSessions` speaks of the sessions inserted
  before the new password was committed, which is what the code keeps.
* A turn whose refresh fails after the commit is reported as not saved, and a turn whose
  connection broke is stored all the same when the commit comes before the cancellation; sending
  again stores it twice. `StoredOnce` says that nothing else does.
* A turn that is committed between the two reads of `_prepare_chat_run` is in the history of a run that
  still found the default title, and this run renames the conversation, though its turn is
  not the first (`TitleOpens` says what is kept: the title is a stored turn's that found none).
* With the chat-completions protocol a restored trace has not all that was sent:
  `_chat_continuation` sends the reasoning of a reply along with it (`tool_calling_agent.py:152`),
  `trace_model_calls` rebuilds it without (`agent_trace.py:117`), though `backend/README.md`
  lines 314-324 say that the later requests are restored with it (`TraceRebuildsRequests`).
* The id of a condition group joins its texts with words (`graph_store.py:771`), so that the
  groups [x, y] and [x and y] of one rule are one node with the conditions of both; the
  report then counts relationships that were there. `ConditionsStayApart` says that
  nothing else mixes them up.
* A session that submits several times keeps the counters of the last submission, so the
  job's totals may be too low, never too high (`CreatedCountedOnce`).
* Two concurrent deletions of a document both write an audit row, and an upload
  answers 500 when its row is deleted between commit and refresh.
* Going back a page may leave out up to `Lookahead` (240) characters (`PreviousPagesAreBefore`).
* When luck begins at the instant of birth, period 0 is empty and the calculation fails
  unless the birth begins a flow year; the comment at `bazi/engine.py:435` that callers
  filter such intervals is not true (`FailsOnlyAtOnce`).
* Once an embedding has failed, `_embedding_error` stays for the life of the process, though the
  message says "for the moment"; the search falls back to words.
* A job can be lost until the next restart. A queued job whose inputs are unusable is cancelled
  while the worker is about to mark it `failed`, and `_mark_failed` overwrites the cancellation.
  The job is retried, enqueued and taken. Now the first cancel request reaches
  `manager.cancel`, finds the job to be the current one and cancels the worker.
  The row says `queued`, so `_mark_after_task_cancel` leaves it, and no queue has it. (With
  `SetupFails = TRUE` TLC finds it in fifteen steps as a violation of `NoLostJob`.)
  That is why `NoJobIsLost` and `RestIsLeftAlone` of section 6 assume usable inputs.
* A document, and its job with it, can be deleted while `_mark_after_task_cancel` writes: the
  `StaleDataError` then replaces the CancelledError, the worker goes on with its queue, and the
  cancel route awaits a task that does not end. `CancelReturns` excuses a deletion (and its run
  has none).
* A document can be deleted while its job runs; the job ends, and the rules that it has
  written stay in the graph. No property says otherwise.

## 6. What is proved

In the three modules about `GraphOrganizer`, for every number of documents,
jobs, sections, attempts, handlers, tasks, kills and errors, from
`ConstantsAssumption` alone unless more is said:

* `TypeCorrect`: `Spec => []TypeOK`. `TypeOK` is inductive: besides the types it says
  that a task inside a job has one, that a task busy with a section has a real one, and
  that a handler past its first step knows its job, without which the next step
  would index with nothing.
* `QueueCorrect`: `Spec => []QueueAgrees`. The queue and its guarding set hold the same
  jobs, each once; two lemmas about `Append` and `Tail` carry it.
* `RecordedProgressIsWritten` and `AppliedJobsAreComplete`: `RecordedIsWritten` says
  that all sections up to `current_offset` are in Neo4j and traced. It is not
  inductive by itself: the step that records a section relies on what the worker has
  done since it read the row. `ProgressInv` adds `WorkerIsAheadOfRecord` (what a worker
  task claims at each program counter: the sections before its own are written; its own
  is in the graph after a submission, and traced at `record`; all are at `finish`),
  `ReferencesAreCreated` (job numbers are not reused, so a task that outlives its row
  can not claim anything of another's) and `RetryHasRow`. Each action is one of three
  kinds, and a lemma covers each: a task goes on (`TaskKeeps`), a handler goes on
  (`RequestKeeps`), several are reset (start, kill). Rows only lose claims
  when they are begun anew or deleted (`Quiet`).
* `SectionsAreCountedOnce` and `SectionsAreInOrder`: `CountedByOneWorker` and
  `ProgressInOrder`. `WorkerInv` says that one task lives, that `current` is
  its job, and that none that has ended is still being cancelled; `start` after a kill and
  the worker that succeeds a cancelled one are the steps where that could fail.
  `CountInv` adds that the worker stands at the recorded offset between two sections and
  one ahead of it while it works on one, so that what it records is the next.
* `NoJobIsLost` (`WorkIsHeld`) and `RestIsLeftAlone` (`RestIsKept`), for behaviours in which no
  database call raises (`[](dbErrors = 0)`) and no input is unusable (`~SetupFails`); kills,
  shutdowns, pauses, cancels, retries and deletions come as they like. Without the two
  conditions both are false (sections 4 and 5). `WorkInv` has one part for each way a
  job could be lost. A cancel request sticks while its handler is under
  way (`CancelSticks`). A retry finds its job failed and is the only one of it
  (`RetriesFailed`). A worker that has begun a job leaves the row in a status that nobody else
  ends (`WorkIsSound`). A cancel handler that has signalled awaits the very task that works on
  its job (`CancelWaits`). A worker ends only for a handler that awaits it and
  will start its successor (`EndingIsAwaited`). And what is held or queued is in hands
  (`HeldIsWorkedOn`, `QueuedWaits`). A step of a task inside its job is described once by
  `Effects`; handlers that leave the worker alone share `RequestKeepsWork`; the
  successor of a worker is `EnsuringKeepsWork`; start, kill and shutdown have lemmas of their own.

In `EvaluationProofs`, for every number of runs, questions, handlers, batch sizes, kills and
errors:

* `TypeCorrect` and `NothingIsLost` (`RunIsHeld`: every run that is queued, running or to be
  cancelled waits for a live worker, is in its hands or in those of a handler that will enqueue
  it, but for the runs of `lost`), by the invariant `Inv`. `ProcessIsSound` ties the worker to the phase of the process, `QueueIsSound` the queue to its
  guarding set, `HandsAreSound` the statuses to whoever may write them next (a
  deleted run is in nobody's hands), `WorkIsSound` the worker's batch to the rows of the
  items, and `SheetsAreSound` the published numbers to the rows.
* `EvaluationKeepsScoreSheets`: the refinement. The sheets at first are empty, and every step of the
  queue is one of `ScoreSheets` or leaves the sheets as they are: one lemma for each
  action that shows (outcomes stored, a run created, cancelled, ended or deleted), and
  `MarksAreNotShown` for the many that do not.

In `AgentSessionProofs`, for every set of tools, length of replies, number of rounds and texts:

* `TypeCorrect`, `EveryCallIsAnswered` (`SessionIsSound`), `WhatIsStoredIsTrue` (`StoredIsTrue`)
  and `NothingFollowsTheEnd` (`NothingBeginsAfter`). `Inv` says where the loop is
  (`LoopIsSound`); that the executions are those of the replies in their order, the last one's up
  to the tool that runs (`ExecsAreSound`); that every request is the one before it
  with its reply and its outputs added (`RequestsAreSound`); that the effects are the submissions that
  succeeded and a terminal tool ends the loop (`WritesAreSound`); and that the listener shows the
  texts of the present reply (`ShowsTheReply`, `ShownIsAnswer`).
* The stored trace is read back by two recursive functions, `ToolIndex` and the one of `trace_model_calls`. That they
  satisfy their recursive equations is proved without an induction theorem: the
  smallest number at which a function on an initial segment is not defined by its equation
  (`SmallestOf`) would be defined by the values before it.

In `LibraryProofs`, for every value of the constants that satisfies the assumptions named there:

* Pages, for every text (its length and newlines) and every size of page,
  look-ahead and query that satisfies `PageAssumption` (the match, what a page may begin
  before it and the look-ahead fit on a page): `PagesAreSound` (no page is empty or too
  long), `MatchesAreOnTheirPage` (the page that a hit opens contains it whole) and
  `PreviousPagesAreBefore`. They rest on two lemmas about the first and the last
  newline of a window.
* Reading: `PagesAlwaysShowMatches` (`PagesShowMatches`) and `HitsStayFair` (`HitsAreFair`), for every set of
  files and of queries that satisfies `FilesAssumption` and `QueryAssumption`, beside any uploads and deletions. What the
  second assumes is that `str.find` finds a query where it fits, and that a query has no newline, which
  `KnowledgeSearchInput` refuses. `ReadInv` says that rows, uploads and the session hold files, that hits are `Matches` (places
  that fit their text), and that the page begins within a text. `HitsAreFair` is about the turns that
  `_find_hits` takes: those of round `k` come after all of round `k - 1` (`TurnIs`), every match of a group has
  its turn (`TurnOf`), and what is kept of them, first by place and then by number,
  keeps their order (`AtInOrder`, `BeginningIsFair`).
* Sections: `SectionsAreTheText` and `SectionsAreCutWell`, together what `SectionsAreSound`
  checks, for a text of any length that is cut with `Lookback = Target`, as the code does.
  `SectionsInv` says that each section ends where `SectionEnd` of its beginning is, and so does
  the next; `CrumbsOfTwo`, that of two sections next to each other one is not a crumb.
* Documents: `DocumentsStaySound` and `ShelfStaysSound` (`ShelfIsSound`), for every set of files, number
  of administrators, rows and failing commits, beside an agent that reads. `ShelfInv` says that a route past its check holds a file that
  was read, and that the row it has inserted has no audit row yet.
* Searches: `SearchesStaySound` (`SearchesAreSound`) and `ReadsStayTogether`
  (`ReadsFitTogether`), for every set of texts, submissions and readers.
  `SearchInv` says that what a search has read of a rule is in
  the graph, which only grows (`WritesGrow`), so that the evidence of a hit is still
  there at the second read; that hits are kept as they were ranked; that the vectors are of
  the texts that were read; and that a fused score falls with either rank.
* The timeline: `TimelineStaysSound` (`TimelineIsSound`) and `ChosenStaysRight` (`ChosenHolds`), for every
  set of births, beginnings of luck and calendars that know the years of the charts
  (`YearsAreKnown`: a birth whose periods run beyond the last year of the calendar is left out), any length of the civil year,
  any number of periods and any length of them from two years on. The argument: an instant is in one flow
  year, the one that `flow_year_for_datetime` finds by its comparison (`FlowYearOf`), and in one month of it
  (`MonthOf`). So the years of a period are those from its first instant to its last,
  which is why clipping leaves none empty (`YearsOfPeriod`); the months that the loop keeps are an interval of the
  twelve (`MonthsOfSegment`, `AtInterval`). Each level tiles the one above (`YearsTile`, `MonthsTile`).
  A month that begins where another ends is its rest, the next one, or the first after the
  twelfth (`NextMonth`), over the limits of periods too; the five-tigers rule
  then gives the next stem (`StemsFollow`). A flow year is shorter than two civil years, hence than a period, so
  that it sees one change at most (`PhaseIs`). Segments that follow each other hold at
  every instant between (`SegmentsCover`), which gives the choice its year and its month.
  The invariant `FortuneInv` only says that what is stored was calculated from the chart.

In `RuleGraphProofs`, for every set of texts, keys and sections, and any submissions of candidates
that `IsCandidate` describes – what `ExtractedGraphRule` lets through, nothing more (the
candidates of the runs are such: `CandidateAssumption` of `MCLibrary`):

* `GraphStaysSound` (`GraphIsSound`), `RulesAreKept` (`RulesKeep`), `CreatedWereUnknown`
  (`CreatedIsUnknown`), `ReportsAreExact` (`ReportIsExact`) and the last three together,
  `WritesStaySound` (`WritesAreSound`); `GroupsAreKeptApart` (`ConditionsStayApart`, a part of the
  last); and `RepeatsAddNothing` (`RepeatAddsNothing`).
* That groups are kept apart is a fact about joined keys: two sequences of keys without the
  joining words that are joined to the same sequence are the same (`JoinedTellsApart`, by the place
  of the first "and"), so that two groups with one id have the same conditions (`GroupIdTells`).
  A group of the graph can then be read off its id (`GroupIsRead`).
* The invariant `RuleInv` has a part for the graph (`GraphIsReadable`, `GraphHolds`), one for the
  session, whose change set is one of the graph as it still is (`SessionHolds`: one session
  writes at a time), and one for the counter (`CountHolds`).
* `Merged` reads the candidates one by one. What holds of a rule after each of them is
  `IsMerging`: its id is that of its name, its groups can be written, its links lead to other
  rules that exist, its aliases begin with those it has in the graph, and if it is
  new, no rule was known by its name or an alias. It is shown for the smallest number
  of candidates after which it would fail (`SmallestOf`, as above), which needs no induction
  theorem. What `merge_graph_extractions` makes of it is `IsChange`: also nothing twice, and
  an alias that the rule has in the graph only in that spelling. `write_change_set` keeps
  the graph sound for every change set of that kind (`WriteIsSound`).
* That unique texts are unique, and that no key is lost, rests on the elements of a
  sequence at given positions (`At`), whose order is that of the positions (`PositionOf`).
* A repetition is merged beside the first submission: after each candidate, `Follows` holds of
  the two, the same rules with the same texts and groups, no link, and no alias that was not
  known or said the first time. With `GivenHolds` (what is about to be written is what was submitted,
  merged with the graph as it is) nothing is left to add (`RepeatWritesNothing`).
* The report counts items, the transaction writes relationships: `ItemsDiffer` and `ItemsWrite`
  give a bijection between the two, so that both counts are equal (`RelationsAreCounted`).

In `ChatTurnsProofs`, for every number of conversations, tabs,
texts and runs:

* `ConversationsStaySound`: `Spec => []ConversationsAreSound`. Its invariant `Inv` adds what a run holds back: rows of its own
  only, in a conversation that exists; that a conversation which a run has named
  keeps a name; and that every stored message belongs to a run that committed.
* `MessagesAreStoredOnce`: `Spec => []StoredOnce`. `OnceInv` says where a text can
  be: with one tab, which waits for at most one run of it, the last one it was sent in; and
  what a run has stored and is not in `cut` rests with this run and was not sent again.
* `TypeCorrect`: the ids of messages stay within their bound, because the ids taken are the
  rows that the runs have inserted (`Numbered`), at most two per run.

In `AccountsProofs`, for every number of users, requests, sessions and passwords:

* `SetupHappensOnce`: `Spec => []SetupOnce`. The invariant adds that a request between
  the lock and the commit of the set-up holds the row and has seen the flag unset, so
  that there is one of them at most, and that users are never lost.
* `ResetLeavesNoOldSession`: `Spec => []ResetEndsSessions`. The invariant adds that a
  request that has set a password revokes next or is answered, and that the
  user's password is not older than it. Then any session that appears later is as new.
* `TypeCorrect`: passwords and session numbers stay within their bounds.
* `GuardsAreKept`: `GuardsHold`. `Counted` says that the counter in a row, and the count that a login has
  read and is about to write, are not ahead of the failures that were recorded since it began anew: those are
  forgotten only when no other login holds a count (`FailuresChange`).
  `AdminsAreHeld` says that a request about to remove an administrator has locked two of them.

Each step of `Accounts` changes one request (`RequestGoesOn`) and the tables in ways
that are stated once: users grow (`UsersGrow`), sessions are known or new
(`SessionsAreKnown`), the flag is set by one request (`SetupBy`).

Only model-checked are the liveness properties (`JobsMove`, `CancelReturns`, `RunsEnd`,
`SessionEnds`, `RequestsAnswered` and `SendsEnd`), which need fairness and `ENABLED`, out of the provers' reach. Every
safety property that a passing run checks is stated by a theorem. No module declares a RECURSIVE
operator.

## 7. Not modelled, and why

* What a model answers, what rules and texts say, formatting, logging: no property is
  about them. Matches in the words of a summary are left out of the search.
* That two texts have one key: rules whose names have no letter or digit share an id
  (`graph_organizer.py:478`). The hash of a key is taken as injective. Groups with the same conditions in another order are two nodes, in the code as in the model.
* The free Cypher query (`execute_read_query`) and the schema statements of `GraphStore`.
* Read-only routes: they change nothing.
* The frontend but for the chat workspace: views over the HTTP interface.
* Of the chart engine, the pillars, true solar time and the shen sha tables: pure look-ups in
  a calendar library's data; 29 February in the timeline.
* Reports: one session per request, nothing stored. Credentials: one row replaced as a
  whole; the organizer and the evaluations take its absence as an input.
* A bound on a session without a deadline: there is none in the code.
* Migrations, schemas, vendored benchmark code and corpora, scripts.
