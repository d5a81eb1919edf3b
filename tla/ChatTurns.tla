----------------------------- MODULE ChatTurns -----------------------------
(***************************************************************************)
(* Chat turns: a browser sends a message, the server prepares a run, asks  *)
(* the agent, stores the turn and tells the browser over the stream, while *)
(* other tabs of the user send to the same conversation or delete it, the  *)
(* connection breaks or the database fails.                                *)
(*                                                                         *)
(* The agent's session is module AgentSession; here it answers or fails.   *)
(* A message is named by its text.  A transaction holds its rows back till *)
(* it commits; a row inserted into a conversation keeps the conversation   *)
(* from being deleted, and one being deleted from being inserted into.     *)
(* A definition named after another one and a fault is what that code      *)
(* would be with the fault; no behaviour of Spec uses it.                  *)
(***************************************************************************)
EXTENDS Integers, FiniteSets

CONSTANTS
    Conversations,  \* ids of the user's conversations
    Tabs,           \* browser tabs of the user
    MaxTexts,       \* bound: messages the user writes
    MaxRuns         \* bound: messages sent, the retries included

ASSUME ConstantsAssumption == MaxTexts \in Nat /\ MaxRuns \in Nat

VARIABLES
    conversation,  \* table agent_conversations: its title, or Absent
    message,       \* table agent_conversation_messages
    next_id,       \* the sequence of message ids
    run,           \* stream_message of every message sent
    sent,          \* how many were
    tab,           \* what each tab shows: a draft, or the run it waits for
    written,       \* how many texts were written
    cut            \* runs that are stored though their tab took them for failed

vars == <<conversation, message, next_id, run, sent, tab, written, cut>>

Texts == 1 .. MaxTexts
Runs == 1 .. MaxRuns
DefaultTitle == 0
Absent == -1
Titles == Texts \cup {DefaultTitle}
NoConversation == "none"

Message(id, c, role, r) == [id |-> id, conversation |-> c, role |-> role, run |-> r]
Stored(r) == {m \in message : m.run = r}
Of(c) == {m \in message : m.conversation = c}

NoRun == [pc |-> "none", conversation |-> NoConversation, text |-> 0, title |-> DefaultTitle,
          history |-> {}, rows |-> {}, connected |-> FALSE, told |-> "nothing"]
\* draft: the text in the composer; run: the run waited for (isSending).
EmptyTab == [conversation |-> NoConversation, draft |-> 0, run |-> 0]

Init ==
    /\ conversation = [c \in Conversations |-> Absent]
    /\ message = {} /\ next_id = 1
    /\ run = [r \in Runs |-> NoRun] /\ sent = 0
    /\ tab = [t \in Tabs |-> EmptyTab] /\ written = 0
    /\ cut = {}

Exists(c) == c \in Conversations /\ conversation[c] # Absent

-----------------------------------------------------------------------------
(* The browser *)

open_conversation(t) ==
    /\ tab[t].run = 0
    /\ \E c \in Conversations : Exists(c) /\ tab' = [tab EXCEPT ![t].conversation = c]
    /\ UNCHANGED <<conversation, message, next_id, run, sent, written, cut>>

\* A first message creates its conversation before it is sent.
create_conversation(t) ==
    /\ tab[t].run = 0 /\ tab[t].conversation = NoConversation
    /\ \E c \in Conversations :
          /\ conversation[c] = Absent /\ Of(c) = {}
          /\ \A r \in Runs : run[r].conversation # c
          /\ conversation' = [conversation EXCEPT ![c] = DefaultTitle]
          /\ tab' = [tab EXCEPT ![t].conversation = c]
    /\ UNCHANGED <<message, next_id, run, sent, written, cut>>

\* A new message, or the one that has failed, is sent, and _prepare_chat_run
\* reads the conversation; nothing is started when it is missing.
Text(t) == IF tab[t].draft = 0 THEN written + 1 ELSE tab[t].draft
handleSend(t) ==
    /\ tab[t].run = 0 /\ Text(t) \in Texts
    /\ Exists(tab[t].conversation) /\ sent < MaxRuns
    /\ LET c == tab[t].conversation IN
          run' = [run EXCEPT ![sent + 1] =
              [NoRun EXCEPT !.pc = "prepare", !.conversation = c, !.text = Text(t),
                            !.title = conversation[c], !.connected = TRUE]]
    /\ tab' = [tab EXCEPT ![t].draft = 0, ![t].run = sent + 1]
    /\ written' = IF tab[t].draft = 0 THEN written + 1 ELSE written
    /\ sent' = sent + 1
    /\ UNCHANGED <<conversation, message, next_id, cut>>

\* The last event of the stream, or its end without one: the text goes back to
\* the composer unless the turn is complete.
Shown_keeps_draft(t, complete) ==
    tab' = [tab EXCEPT ![t].run = 0, ![t].draft = run[tab[t].run].text]
Shown(t, complete) ==
    tab' = [tab EXCEPT ![t].run = 0,
                       ![t].draft = IF complete THEN 0 ELSE run[tab[t].run].text]

receive(t) ==
    /\ tab[t].run # 0
    /\ LET r == tab[t].run IN
          /\ run[r].connected /\ run[r].pc = "ended"
          /\ Shown(t, run[r].told = "complete")
          /\ run' = [run EXCEPT ![r].connected = FALSE]
    /\ UNCHANGED <<conversation, message, next_id, sent, written, cut>>

\* The connection breaks; the server notices it later (disconnect).
Broken(r) == IF Stored(r) # {} THEN cut \cup {r} ELSE cut
connection_lost(t) ==
    /\ tab[t].run # 0
    /\ LET r == tab[t].run IN
          /\ run[r].connected
          /\ Shown(t, FALSE)
          /\ run' = [run EXCEPT ![r].connected = FALSE]
          /\ cut' = Broken(r)
    /\ UNCHANGED <<conversation, message, next_id, sent, written>>

-----------------------------------------------------------------------------
(* run_and_persist *)

Tell(r, event) == run' = [run EXCEPT ![r].pc = "ended", ![r].told = event, ![r].rows = {}]
Step(r, pc) == run' = [run EXCEPT ![r].pc = pc]

\* The rest of _prepare_chat_run: the stored messages are read by a statement of
\* their own, behind what was committed since; the credential is missing.
read_messages(r) ==
    /\ run[r].pc = "prepare"
    /\ \/ run' = [run EXCEPT ![r].pc = "agent", ![r].history = Of(run[r].conversation)]
       \/ Tell(r, "error")
    /\ UNCHANGED <<conversation, message, next_id, sent, tab, written, cut>>

run_chat_agent(r) ==
    /\ run[r].pc = "agent"
    /\ Step(r, "user") \/ Tell(r, "error")
    /\ UNCHANGED <<conversation, message, next_id, sent, tab, written, cut>>

\* add_turn.  The two rows take their ids one after the other; a row of a
\* conversation that is gone is the error its foreign key raises.
insert_same_id(r, pc, role, next) ==
    /\ run[r].pc = pc
    /\ Exists(run[r].conversation)
    /\ run' = [run EXCEPT ![r].pc = next,
              ![r].rows = @ \cup {Message(next_id, run[r].conversation, role, r)}]
    /\ UNCHANGED <<conversation, message, next_id, sent, tab, written, cut>>
insert(r, pc, role, next) ==
    /\ run[r].pc = pc
    /\ \/ /\ Exists(run[r].conversation)
          /\ run' = [run EXCEPT ![r].pc = next,
                    ![r].rows = @ \cup {Message(next_id, run[r].conversation, role, r)}]
          /\ next_id' = next_id + 1
       \/ /\ ~Exists(run[r].conversation)
          /\ Tell(r, "error") /\ UNCHANGED next_id
    /\ UNCHANGED <<conversation, message, sent, tab, written, cut>>

insert_user(r) == insert(r, "user", "user", "assistant")
insert_assistant(r) == insert(r, "assistant", "assistant", "commit")

\* The title is set when it was the default one as the conversation was read.
Titled(r) == IF run[r].title = DefaultTitle THEN run[r].text
                                            ELSE conversation[run[r].conversation]
commit_answer_only(r) ==
    /\ run[r].pc = "commit"
    /\ message' = message \cup {m \in run[r].rows : m.role = "assistant" \/ run[r].history = {}}
    /\ conversation' = [conversation EXCEPT ![run[r].conversation] = Titled(r)]
    /\ cut' = IF run[r].connected THEN cut ELSE cut \cup {r}
    /\ run' = [run EXCEPT ![r].pc = "refresh", ![r].rows = {}]
    /\ UNCHANGED <<next_id, sent, tab, written>>
commit(r) ==
    /\ run[r].pc = "commit"
    /\ message' = message \cup run[r].rows
    /\ conversation' = [conversation EXCEPT ![run[r].conversation] = Titled(r)]
    /\ cut' = IF run[r].connected THEN cut ELSE cut \cup {r}
    /\ run' = [run EXCEPT ![r].pc = "refresh", ![r].rows = {}]
    /\ UNCHANGED <<next_id, sent, tab, written>>

\* Both messages are read back after the commit; a row that is gone is an error.
refresh_of_stored(r) ==
    /\ run[r].pc = "refresh"
    /\ Stored(r) # {} /\ Tell(r, "complete")
    /\ UNCHANGED <<conversation, message, next_id, sent, tab, written, cut>>
refresh(r) ==
    /\ run[r].pc = "refresh"
    /\ IF Stored(r) # {} THEN Tell(r, "complete") ELSE Tell(r, "error")
    /\ UNCHANGED <<conversation, message, next_id, sent, tab, written, cut>>

\* A database call fails: what is not committed is rolled back, and the tab is
\* told that saving has failed, also when only the refresh did.
save_fails(r) ==
    /\ run[r].pc \in {"user", "assistant", "commit", "refresh"}
    /\ Tell(r, "error")
    /\ cut' = Broken(r)
    /\ UNCHANGED <<conversation, message, next_id, sent, tab, written>>

\* The end of the stream reaches the server, when the stream has begun:
\* task.cancel() lands at an await.
disconnect(r) ==
    /\ run[r].pc \notin {"none", "prepare", "ended"} /\ ~run[r].connected
    /\ Tell(r, "nothing")
    /\ UNCHANGED <<conversation, message, next_id, sent, tab, written, cut>>

\* DELETE waits for the transactions that insert into the conversation.
delete_conversation(c) ==
    /\ Exists(c)
    /\ \A m \in UNION {run[r].rows : r \in Runs} : m.conversation # c
    /\ conversation' = [conversation EXCEPT ![c] = Absent]
    /\ message' = message \ Of(c)
    /\ UNCHANGED <<next_id, run, sent, tab, written, cut>>
-----------------------------------------------------------------------------
Serve(r) ==
    \/ read_messages(r) \/ run_chat_agent(r)
    \/ insert_user(r) \/ insert_assistant(r) \/ commit(r) \/ refresh(r)

Next ==
    \/ \E t \in Tabs : \/ open_conversation(t) \/ create_conversation(t)
                       \/ handleSend(t)
                       \/ receive(t) \/ connection_lost(t)
    \/ \E r \in Runs : Serve(r) \/ save_fails(r) \/ disconnect(r)
    \/ \E c \in Conversations : delete_conversation(c)

Spec == Init /\ [][Next]_vars

\* The agent ends its session, the database answers, and the browser reads what
\* arrives; users and failures do what they like.
Fairness ==
    /\ \A r \in Runs : WF_vars(Serve(r))
    /\ \A t \in Tabs : WF_vars(receive(t))
FairSpec == Spec /\ Fairness

-----------------------------------------------------------------------------
(* Properties *)

Messages == [id : 1 .. next_id - 1, conversation : Conversations, role : {"user", "assistant"}, run : Runs]

\* The type invariant.
TypeOK ==
    /\ conversation \in [Conversations -> Titles \cup {Absent}]
    /\ message \subseteq Messages /\ next_id \in 1 .. 2 * MaxRuns + 1
    /\ \A r \in Runs :
          /\ run[r].pc \in {"none", "prepare", "agent", "user", "assistant", "commit", "refresh", "ended"}
          /\ run[r].told \in {"nothing", "complete", "error"}
          /\ run[r].rows \subseteq Messages /\ run[r].history \subseteq Messages
    /\ sent \in 0 .. MaxRuns /\ written \in 0 .. MaxTexts
    /\ tab \in [Tabs -> [conversation : Conversations \cup {NoConversation},
                         draft : {0} \cup Texts, run : {0} \cup Runs]]
    /\ cut \subseteq Runs

\* A set of messages made of whole turns, each question before its answer.
Whole(messages) ==
    \A m \in messages : \E n \in messages :
        /\ n.run = m.run /\ n.role # m.role
        /\ m.role = "user" => m.id < n.id

\* Whatever is cut off, deleted or sent at the same time, what is stored is
\* whole turns of conversations that exist, and so is the history every agent
\* was asked with.
TurnsAreWhole ==
    /\ Whole(message)
    /\ \A m \in message : Exists(m.conversation)
    /\ \A r \in Runs : Whole(run[r].history)

\* A browser is told that its turn is complete only when it is stored, and it
\* stays stored as long as the conversation does.
CompleteIsStored ==
    \A r \in Runs : run[r].told = "complete" /\ Exists(run[r].conversation) => Stored(r) # {}

\* A message is stored once however often it is sent again ("saving failed,
\* please try again"), unless its tab took an earlier sending for failed that
\* was stored all the same: its connection broke before the server stopped it,
\* or the refresh failed behind the commit.  No sending but these is repeated.
StoredOnce ==
    \A m, n \in message :
        run[m.run].text = run[n.run].text /\ m.role = n.role /\ m.run <= n.run
        => m = n \/ (m.run < n.run /\ m.run \in cut)

\* The title is the message of a stored turn that found the conversation without
\* one.  It need not be the first: turns that began at once are not ordered, and
\* what is committed between the two reads of _prepare_chat_run is in the history
\* of a run that names the conversation nevertheless.
TitleOpens ==
    \A c \in Conversations : Exists(c) =>
        IF Of(c) = {} THEN conversation[c] = DefaultTitle
        ELSE \E m \in Of(c) : /\ conversation[c] = run[m.run].text
                              /\ run[m.run].title = DefaultTitle

\* Every message that is sent gets an end: the answer or an error to try again.
SendsEnd == \A t \in Tabs : tab[t].run # 0 ~> tab[t].run = 0

\* A conversation is whole turns, named after one that found it without a title,
\* and has the turns that a browser was told of.
ConversationsAreSound == TurnsAreWhole /\ TitleOpens /\ CompleteIsStored
=============================================================================
