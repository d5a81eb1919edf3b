-------------------------- MODULE ChatTurnsProofs --------------------------
(***************************************************************************)
(* Theorems about ChatTurns, for every number of conversations, tabs,      *)
(* texts and runs: a conversation holds whole turns and is named after one *)
(* that found it without a title, a browser is told "complete" of stored   *)
(* turns only, and a message is stored twice only when its tab took the    *)
(* earlier sending for failed.                                             *)
(***************************************************************************)
EXTENDS ChatTurns, FiniteSetTheorems, TLAPS

Rows == [id : Nat, conversation : Conversations, role : {"user", "assistant"}, run : Runs]
Pcs == {"none", "prepare", "agent", "user", "assistant", "commit", "refresh", "ended"}
RunRecords ==
    [pc : Pcs, conversation : Conversations \cup {NoConversation}, text : Nat, title : Int,
     history : SUBSET Rows, rows : SUBSET Rows, connected : BOOLEAN,
     told : {"nothing", "complete", "error"}]
TabRecords == [conversation : Conversations \cup {NoConversation}, draft : Nat, run : {0} \cup Runs]

Types ==
    /\ conversation \in [Conversations -> Int]
    /\ message \in SUBSET Rows
    /\ next_id \in Nat
    /\ run \in [Runs -> RunRecords]
    /\ sent \in 0 .. MaxRuns
    /\ tab \in [Tabs -> TabRecords]
    /\ written \in Nat

\* What a run has inserted and not yet committed: nothing, its question, or the
\* whole turn.
HoldsRows(x, r, next) ==
    /\ x.pc = "assistant" => \E i \in 0 .. next - 1 : x.rows = {Message(i, x.conversation, "user", r)}
    /\ x.pc = "commit" => \E i, j \in 0 .. next - 1 :
          i < j /\ x.rows = {Message(i, x.conversation, "user", r), Message(j, x.conversation, "assistant", r)}
    /\ x.pc \notin {"assistant", "commit"} => x.rows = {}

\* A run that began: its conversation exists as long as it holds rows of it, and
\* when it was given a title, its conversation keeps one.
RunIsSound(r) ==
    /\ HoldsRows(run[r], r, next_id)
    /\ run[r].pc # "none" => run[r].text > 0 /\ run[r].conversation \in Conversations
    /\ run[r].pc # "none" <=> r <= sent
    /\ run[r].connected => run[r].pc # "none"
    /\ run[r].pc \in {"assistant", "commit"} => Exists(run[r].conversation)
    /\ run[r].pc # "none" /\ run[r].title # DefaultTitle /\ Exists(run[r].conversation)
          => conversation[run[r].conversation] # DefaultTitle
RunsAreSound == \A r \in Runs : RunIsSound(r)

\* A stored message is of a run that committed and of its conversation.
MessagesAreSound ==
    \A m \in message : /\ m.conversation = run[m.run].conversation
                       /\ run[m.run].pc \in {"refresh", "ended"}

Inv == Types /\ RunsAreSound /\ MessagesAreSound /\ ConversationsAreSound

-----------------------------------------------------------------------------
(* A step of one run that commits nothing. *)

\* Ids that were taken stay below the next one.
LEMMA HoldsRowsLater ==
    ASSUME NEW x, NEW r, NEW m \in Nat, NEW n \in Nat, m <= n, HoldsRows(x, r, m)
    PROVE  HoldsRows(x, r, n)
<1>1. \A i : i \in 0 .. m - 1 => i \in 0 .. n - 1
  OBVIOUS
<1> QED BY <1>1 DEF HoldsRows

\* What a run keeps from its sending on.
SameSending(x, y) == y.conversation = x.conversation /\ y.text = x.text /\ y.title = x.title

\* Run r goes on to y while what is stored stays as it is.
LEMMA RunGoesOn ==
    ASSUME Inv, NEW r \in Runs, NEW y \in RunRecords,
           run[r].pc # "none", y.pc # "none", SameSending(run[r], y),
           run' = [run EXCEPT ![r] = y],
           UNCHANGED <<conversation, message, sent>>,
           next_id' \in Nat, next_id' >= next_id,
           tab' \in [Tabs -> TabRecords], written' \in Nat,
           HoldsRows(y, r, next_id'),
           y.pc \in {"assistant", "commit"} => Exists(run[r].conversation),
           Stored(r) # {} => y.pc \in {"refresh", "ended"},
           y.told = "complete" => run[r].told = "complete" \/ Stored(r) # {},
           Whole(y.history)
    PROVE  Inv'
<1>1. Types /\ RunsAreSound /\ MessagesAreSound /\ ConversationsAreSound
  BY DEF Inv
<1>2. /\ run'[r] = y
      /\ \A s \in Runs : s # r => run'[s] = run[s]
  BY <1>1 DEF Types
<1>3. \A s \in Runs : SameSending(run[s], run'[s])
  BY <1>2 DEF SameSending
<1>4. Types'
  BY <1>1 DEF Types
<1>5. RunsAreSound'
  <2> SUFFICES ASSUME NEW s \in Runs PROVE RunIsSound(s)'
    BY DEF RunsAreSound
  <2>1. RunIsSound(s) /\ RunIsSound(r)
    BY <1>1 DEF RunsAreSound
  <2>2. CASE s = r
    BY <2>1, <2>2, <1>2, <1>3 DEF RunIsSound, Exists, SameSending
  <2>3. CASE s # r
    <3>1. run'[s] = run[s]
      BY <2>3, <1>2
    <3>2. HoldsRows(run[s], s, next_id) /\ next_id \in Nat
      BY <2>1, <1>1 DEF RunIsSound, Types
    <3>3. HoldsRows(run[s], s, next_id')
      BY <3>2, HoldsRowsLater
    <3> QED BY <3>1, <3>3, <2>1 DEF RunIsSound, Exists
  <2> QED BY <2>2, <2>3
<1>6. MessagesAreSound'
  <2> SUFFICES ASSUME NEW m \in message
               PROVE  /\ m.conversation = run'[m.run].conversation
                      /\ run'[m.run].pc \in {"refresh", "ended"}
    BY DEF MessagesAreSound
  <2>1. m.run \in Runs
    BY <1>1 DEF Types, Rows
  <2>2. CASE m.run = r
    BY <2>1, <2>2, <1>1, <1>2 DEF MessagesAreSound, Stored, SameSending
  <2>3. CASE m.run # r
    BY <2>1, <2>3, <1>1, <1>2 DEF MessagesAreSound
  <2> QED BY <2>2, <2>3
<1>7. TurnsAreWhole'
  <2>1. \A s \in Runs : Whole(run'[s].history)
    BY <1>1, <1>2 DEF ConversationsAreSound, TurnsAreWhole
  <2>2. Whole(message)' /\ \A m \in message' : Exists(m.conversation)'
    BY <1>1 DEF ConversationsAreSound, TurnsAreWhole, Whole, Exists
  <2> QED BY <2>1, <2>2 DEF TurnsAreWhole, Whole
<1>8. CompleteIsStored'
  BY <1>1, <1>2, <1>3 DEF ConversationsAreSound, CompleteIsStored, Exists, Stored, SameSending
<1>9. TitleOpens'
  <2>1. \A m \in message : m.run \in Runs
    BY <1>1 DEF Types, Rows
  <2> QED BY <2>1, <1>1, <1>3 DEF ConversationsAreSound, TitleOpens, Exists, Of, SameSending
<1> QED BY <1>4, <1>5, <1>6, <1>7, <1>8, <1>9 DEF Inv, ConversationsAreSound

-----------------------------------------------------------------------------
(* The steps of a run. *)

\* What the lemmas below take from the invariant about one run.
LEMMA RunFacts ==
    ASSUME Inv, NEW r \in Runs
    PROVE  /\ run[r] \in RunRecords /\ RunIsSound(r) /\ Whole(run[r].history)
           /\ Stored(r) # {} => run[r].pc \in {"refresh", "ended"}
           /\ next_id \in Nat /\ tab \in [Tabs -> TabRecords] /\ written \in Nat
           /\ run \in [Runs -> RunRecords]
<1>1. Whole(run[r].history)
  BY DEF Inv, ConversationsAreSound, TurnsAreWhole
<1> QED BY <1>1 DEF Inv, Types, RunsAreSound, MessagesAreSound, Stored

\* The session ends, a call fails, the connection ends or the turn is complete.
LEMMA TellKeeps ==
    ASSUME Inv, NEW r \in Runs, NEW event \in {"nothing", "complete", "error"},
           run[r].pc # "none", Tell(r, event),
           event = "complete" => Stored(r) # {},
           UNCHANGED <<conversation, message, next_id, sent, tab, written>>
    PROVE  Inv'
<1> DEFINE y == [run[r] EXCEPT !.pc = "ended", !.told = event, !.rows = {}]
<1>1. run' = [run EXCEPT ![r] = y]
  BY RunFacts DEF Tell, RunRecords
<1>2. /\ y \in RunRecords /\ y.pc = "ended" /\ y.told = event /\ y.rows = {}
      /\ y.history = run[r].history /\ SameSending(run[r], y)
  BY RunFacts DEF RunRecords, Pcs, SameSending
<1>3. HoldsRows(y, r, next_id') /\ next_id' \in Nat /\ next_id' >= next_id
  BY <1>2, RunFacts DEF HoldsRows
<1>4. /\ tab' \in [Tabs -> TabRecords] /\ written' \in Nat
      /\ y.pc # "none" /\ y.pc \notin {"assistant", "commit"} /\ Whole(y.history)
  BY <1>2, RunFacts
<1> HIDE DEF y
<1> QED BY <1>1, <1>2, <1>3, <1>4, RunGoesOn

\* The connection ends on the side of the browser.
LEMMA DisconnectedKeeps ==
    ASSUME Inv, NEW r \in Runs, run[r].pc # "none",
           run' = [run EXCEPT ![r].connected = FALSE],
           tab' \in [Tabs -> TabRecords],
           UNCHANGED <<conversation, message, next_id, sent, written>>
    PROVE  Inv'
<1> DEFINE y == [run[r] EXCEPT !.connected = FALSE]
<1>1. run' = [run EXCEPT ![r] = y]
  BY RunFacts DEF RunRecords
<1>2. /\ y \in RunRecords /\ y.pc = run[r].pc /\ y.told = run[r].told /\ y.rows = run[r].rows
      /\ y.history = run[r].history
      /\ SameSending(run[r], y)
  BY RunFacts DEF RunRecords, Pcs, SameSending
<1>3. RunIsSound(r)
  BY RunFacts
<1>4. HoldsRows(y, r, next_id) /\ (y.pc \in {"assistant", "commit"} => Exists(run[r].conversation))
  BY <1>2, <1>3 DEF HoldsRows, RunIsSound, SameSending
<1>5. HoldsRows(y, r, next_id') /\ next_id' \in Nat /\ next_id' >= next_id /\ written' \in Nat
  BY <1>4, RunFacts
<1>6. /\ y.pc # "none" /\ (Stored(r) # {} => y.pc \in {"refresh", "ended"})
      /\ (y.told = "complete" => run[r].told = "complete" \/ Stored(r) # {}) /\ Whole(y.history)
  BY <1>2, RunFacts
<1> HIDE DEF y
<1> QED BY <1>1, <1>2, <1>4, <1>5, <1>6, RunGoesOn

\* A part of the stored turns that takes no turn apart is whole.
LEMMA PartOfWhole ==
    ASSUME Inv, NEW c
    PROVE  Whole(Of(c))
<1>1. Whole(message) /\ \A m \in message : m.conversation = run[m.run].conversation
  BY DEF Inv, ConversationsAreSound, TurnsAreWhole, MessagesAreSound
<1> QED BY <1>1 DEF Whole, Of

\* The stored messages are read, whatever was committed since the title was.
LEMMA ReadKeeps ==
    ASSUME Inv, NEW r \in Runs, read_messages(r)
    PROVE  Inv'
<1>1. CASE run' = [run EXCEPT ![r].pc = "agent", ![r].history = Of(run[r].conversation)]
  <2> DEFINE y == [run[r] EXCEPT !.pc = "agent", !.history = Of(run[r].conversation)]
  <2>1. run' = [run EXCEPT ![r] = y]
    BY <1>1, RunFacts DEF RunRecords
  <2>2. Of(run[r].conversation) \in SUBSET Rows
    BY DEF Of, Inv, Types
  <2>3. /\ y \in RunRecords /\ y.pc = "agent" /\ y.told = run[r].told /\ y.rows = run[r].rows
        /\ y.history = Of(run[r].conversation) /\ SameSending(run[r], y)
    BY <2>2, RunFacts DEF RunRecords, Pcs, SameSending
  <2>4. HoldsRows(y, r, next_id) /\ Stored(r) = {}
    BY <2>3, RunFacts DEF HoldsRows, RunIsSound, read_messages
  <2>5. /\ UNCHANGED <<conversation, message, next_id, sent, tab, written>>
        /\ run[r].pc # "none" /\ y.pc # "none" /\ y.pc \notin {"assistant", "commit"}
        /\ (y.told = "complete" => run[r].told = "complete") /\ Whole(y.history)
    BY <2>3, PartOfWhole DEF read_messages
  <2>6. HoldsRows(y, r, next_id') /\ next_id' \in Nat /\ next_id' >= next_id
    BY <2>4, <2>5, RunFacts
  <2> HIDE DEF y
  <2> QED BY <2>1, <2>3, <2>4, <2>5, <2>6, RunFacts, RunGoesOn
<1>2. CASE Tell(r, "error")
  BY <1>2, TellKeeps DEF read_messages
<1> QED BY <1>1, <1>2 DEF read_messages

\* The session answers or fails.
LEMMA AgentKeeps ==
    ASSUME Inv, NEW r \in Runs, run_chat_agent(r)
    PROVE  Inv'
<1>1. CASE Step(r, "user")
  <2> DEFINE y == [run[r] EXCEPT !.pc = "user"]
  <2>1. run' = [run EXCEPT ![r] = y]
    BY <1>1, RunFacts DEF Step, RunRecords
  <2>2. /\ y \in RunRecords /\ y.pc = "user" /\ y.told = run[r].told /\ y.rows = run[r].rows
        /\ y.history = run[r].history /\ SameSending(run[r], y)
    BY RunFacts DEF RunRecords, Pcs, SameSending
  <2>3. HoldsRows(y, r, next_id) /\ Stored(r) = {}
    BY <2>2, RunFacts DEF HoldsRows, RunIsSound, run_chat_agent
  <2>4. /\ UNCHANGED <<conversation, message, next_id, sent, tab, written>>
        /\ run[r].pc # "none" /\ y.pc # "none" /\ y.pc \notin {"assistant", "commit"}
        /\ (y.told = "complete" => run[r].told = "complete") /\ Whole(y.history)
    BY <2>2, RunFacts DEF run_chat_agent
  <2>5. HoldsRows(y, r, next_id') /\ next_id' \in Nat /\ next_id' >= next_id
    BY <2>3, <2>4, RunFacts
  <2> HIDE DEF y
  <2> QED BY <2>1, <2>2, <2>3, <2>4, <2>5, RunFacts, RunGoesOn
<1>2. CASE Tell(r, "error")
  BY <1>2, TellKeeps DEF run_chat_agent
<1> QED BY <1>1, <1>2 DEF run_chat_agent

\* A row is inserted: the first of a run, or the second behind it.
LEMMA InsertKeeps ==
    ASSUME Inv, NEW r \in Runs, insert_user(r) \/ insert_assistant(r)
    PROVE  Inv'
<1>1. PICK role \in {"user", "assistant"}, next \in {"assistant", "commit"} :
         /\ insert(r, role, role, next)
         /\ role = "user" <=> next = "assistant"
  BY DEF insert_user, insert_assistant
<1>2. CASE ~Exists(run[r].conversation)
  BY <1>1, <1>2, TellKeeps DEF insert
<1>3. CASE Exists(run[r].conversation)
  <2> DEFINE y == [run[r] EXCEPT !.pc = next,
                     !.rows = @ \cup {Message(next_id, run[r].conversation, role, r)}]
  <2>1. run' = [run EXCEPT ![r] = y] /\ next_id' = next_id + 1
    BY <1>1, <1>3, RunFacts DEF insert, RunRecords
  <2>2. Message(next_id, run[r].conversation, role, r) \in Rows
    BY <1>3, RunFacts DEF Message, Rows, Exists
  <2>3. /\ y \in RunRecords /\ y.pc = next /\ y.told = run[r].told
        /\ y.rows = run[r].rows \cup {Message(next_id, run[r].conversation, role, r)}
        /\ y.history = run[r].history /\ SameSending(run[r], y)
    BY <2>2, RunFacts DEF RunRecords, Pcs, SameSending
  <2>4. HoldsRows(y, r, next_id')
    <3>1. HoldsRows(run[r], r, next_id) /\ run[r].pc = role /\ next_id \in Nat
      BY <1>1, RunFacts DEF RunIsSound, insert
    <3>2. CASE role = "user"
      BY <3>1, <3>2, <1>1, <2>1, <2>3 DEF HoldsRows, SameSending
    <3>3. CASE role = "assistant"
      BY <3>1, <3>3, <1>1, <2>1, <2>3 DEF HoldsRows, SameSending
    <3> QED BY <3>2, <3>3
  <2>5. Stored(r) = {}
    BY <1>1, RunFacts DEF insert
  <2>6. run[r].pc # "none" /\ y.pc # "none" /\ Whole(y.history)
    BY <1>1, <2>3, RunFacts DEF insert
  <2>7. next_id' \in Nat /\ next_id' >= next_id
    BY <2>1, RunFacts
  <2>8. UNCHANGED <<conversation, message, sent, tab, written>>
    BY <1>1 DEF insert
  <2> HIDE DEF y
  <2> QED BY <2>1, <2>3, <2>4, <2>5, <2>6, <2>7, <2>8, <1>3, RunFacts, RunGoesOn
<1> QED BY <1>2, <1>3

\* A run ends: read back, failed or cut off.
LEMMA EndKeeps ==
    ASSUME Inv, NEW r \in Runs, refresh(r) \/ save_fails(r) \/ disconnect(r)
    PROVE  Inv'
BY TellKeeps DEF refresh, save_fails, disconnect

\* A turn is stored: both rows at once, in a conversation that exists, whose
\* title is set by a turn that found it without one.
LEMMA CommitKeeps ==
    ASSUME Inv, NEW r \in Runs, commit(r)
    PROVE  Inv'
<1> DEFINE y == [run[r] EXCEPT !.pc = "refresh", !.rows = {}]
<1>0. PICK c \in Conversations : c = run[r].conversation
  BY RunFacts DEF commit, RunIsSound
<1>1. Types /\ RunsAreSound /\ MessagesAreSound /\ ConversationsAreSound
  BY DEF Inv
<1>2. run' = [run EXCEPT ![r] = y]
  BY RunFacts DEF commit, RunRecords
<1>3. /\ y \in RunRecords /\ y.pc = "refresh" /\ y.told = run[r].told /\ y.rows = {}
      /\ y.connected = run[r].connected /\ y.history = run[r].history /\ SameSending(run[r], y)
  BY RunFacts DEF RunRecords, Pcs, SameSending
<1>4. /\ run[r].pc = "commit" /\ c = run[r].conversation /\ Exists(c)
      /\ run[r].rows \in SUBSET Rows /\ run[r].text > 0
  BY <1>0, RunFacts DEF commit, RunIsSound, RunRecords, Exists
<1>5. PICK i, j \in 0 .. next_id - 1 :
         i < j /\ run[r].rows = {Message(i, c, "user", r), Message(j, c, "assistant", r)}
  BY <1>4, RunFacts DEF RunIsSound, HoldsRows
<1> HIDE DEF y
<1>6. /\ run'[r] = y
      /\ \A s \in Runs : s # r => run'[s] = run[s]
  BY <1>1, <1>2, <1>3 DEF Types
<1>7. \A s \in Runs : /\ SameSending(run[s], run'[s]) /\ run'[s].told = run[s].told
                       /\ run'[s].connected = run[s].connected /\ run'[s].history = run[s].history
  BY <1>3, <1>6 DEF SameSending
<1>8. /\ conversation' = [conversation EXCEPT ![c] = Titled(r)]
      /\ message' = message \cup run[r].rows
      /\ UNCHANGED <<next_id, sent, tab, written>>
  BY <1>0 DEF commit
<1>9. Titled(r) \in Int /\ Titled(r) # Absent /\ Titled(r) # DefaultTitle
  BY <1>1, <1>4, RunFacts DEF Titled, Types, RunIsSound, RunRecords, Exists, Absent, DefaultTitle
<1>10. /\ \A d \in Conversations : d # c => conversation'[d] = conversation[d]
       /\ conversation'[c] = Titled(r)
       /\ \A d : Exists(d)' <=> Exists(d)
  BY <1>1, <1>4, <1>8, <1>9 DEF Types, Exists
<1>11. Types'
  BY <1>1, <1>2, <1>3, <1>4, <1>8, <1>9 DEF Types
<1>12. RunsAreSound'
  <2> SUFFICES ASSUME NEW s \in Runs PROVE RunIsSound(s)'
    BY DEF RunsAreSound
  <2>1. RunIsSound(s) /\ RunIsSound(r)
    BY <1>1 DEF RunsAreSound
  <2>2. HoldsRows(run'[s], s, next_id')
    <3>1. CASE s = r
      BY <3>1, <1>3, <1>6 DEF HoldsRows
    <3>2. CASE s # r
      BY <3>2, <2>1, <1>6, <1>8 DEF RunIsSound
    <3> QED BY <3>1, <3>2
  <2>3. run'[s].pc # "none" <=> run[s].pc # "none"
    BY <1>3, <1>4, <1>6
  <2>4. run'[s].pc \in {"assistant", "commit"} => run[s].pc \in {"assistant", "commit"}
    BY <1>3, <1>6
  <2>5. Exists(run[s].conversation) /\ conversation[run[s].conversation] # DefaultTitle
        => conversation'[run[s].conversation] # DefaultTitle
    BY <1>9, <1>10 DEF Exists
  <2> QED BY <2>1, <2>2, <2>3, <2>4, <2>5, <1>7, <1>8, <1>10 DEF RunIsSound, SameSending
<1>13. MessagesAreSound'
  <2> SUFFICES ASSUME NEW m \in message'
               PROVE  /\ m.conversation = run'[m.run].conversation
                      /\ run'[m.run].pc \in {"refresh", "ended"}
    BY DEF MessagesAreSound
  <2>1. CASE m \in message
    <3>1. m.run \in Runs
      BY <2>1, <1>1 DEF Types, Rows
    <3> QED BY <2>1, <3>1, <1>1, <1>3, <1>6, <1>7 DEF MessagesAreSound, SameSending
  <2>2. CASE m \in run[r].rows
    BY <2>2, <1>3, <1>4, <1>5, <1>6 DEF Message, SameSending
  <2> QED BY <2>1, <2>2, <1>8
<1>14. TurnsAreWhole'
  <2>1. Whole(message)'
    <3>1. Whole(run[r].rows)
      BY <1>5 DEF Whole, Message
    <3> QED BY <3>1, <1>1, <1>8 DEF ConversationsAreSound, TurnsAreWhole, Whole
  <2>2. \A m \in message' : Exists(m.conversation)'
    BY <1>1, <1>4, <1>5, <1>8, <1>10 DEF ConversationsAreSound, TurnsAreWhole, Message
  <2>3. \A s \in Runs : Whole(run'[s].history)
    BY <1>1, <1>7 DEF ConversationsAreSound, TurnsAreWhole, SameSending
  <2> QED BY <2>1, <2>2, <2>3 DEF TurnsAreWhole, Whole
<1>15. CompleteIsStored'
  BY <1>1, <1>7, <1>8, <1>10 DEF ConversationsAreSound, CompleteIsStored, Stored, SameSending
<1>16. TitleOpens'
  <2> SUFFICES ASSUME NEW d \in Conversations, Exists(d)
               PROVE  IF Of(d)' = {} THEN conversation'[d] = DefaultTitle
                      ELSE \E m \in Of(d)' : /\ conversation'[d] = run'[m.run].text
                                             /\ run'[m.run].title = DefaultTitle
    BY <1>10 DEF TitleOpens
  <2>1. \A m \in message : m.run \in Runs
    BY <1>1 DEF Types, Rows
  <2>2. CASE d # c
    <3>1. Of(d)' = Of(d)
      BY <2>2, <1>5, <1>8 DEF Of, Message
    <3> QED BY <2>1, <2>2, <3>1, <1>1, <1>7, <1>10 DEF ConversationsAreSound, TitleOpens, Of, SameSending
  <2>3. CASE d = c
    <3>1. Of(c) \subseteq Of(c)' /\ Message(i, c, "user", r) \in Of(c)' /\ Message(i, c, "user", r).run = r
      BY <1>5, <1>8 DEF Of, Message
    <3>2. CASE run[r].title = DefaultTitle
      BY <2>3, <3>1, <3>2, <1>7, <1>10 DEF Titled, SameSending
    <3>3. CASE run[r].title # DefaultTitle
      <4>1. conversation[c] # DefaultTitle
        BY <3>3, <1>4, RunFacts DEF RunIsSound
      <4>2. PICK m \in Of(c) : conversation[c] = run[m.run].text /\ run[m.run].title = DefaultTitle
        BY <4>1, <1>1, <1>4 DEF ConversationsAreSound, TitleOpens
      <4>3. m.run \in Runs
        BY <2>1 DEF Of
      <4> QED BY <2>3, <3>1, <3>3, <4>2, <4>3, <1>4, <1>7, <1>10 DEF Titled, SameSending
    <3> QED BY <3>2, <3>3
  <2> QED BY <2>2, <2>3
<1> QED BY <1>11, <1>12, <1>13, <1>14, <1>15, <1>16 DEF Inv, ConversationsAreSound

-----------------------------------------------------------------------------
(* The steps of the browser and of its user. *)

\* A conversation that exists is opened in a tab.
LEMMA OpenKeeps ==
    ASSUME Inv, NEW t \in Tabs, open_conversation(t)
    PROVE  Inv'
<1>1. tab' \in [Tabs -> TabRecords]
  BY DEF Inv, Types, TabRecords, open_conversation, Exists
<1>2. UNCHANGED <<conversation, message, next_id, run, sent, written>>
  BY DEF open_conversation
<1>3. Types'
  BY <1>1, <1>2 DEF Inv, Types
<1>4. RunsAreSound'
  BY <1>2 DEF Inv, RunsAreSound, RunIsSound, HoldsRows, Exists
<1>5. MessagesAreSound'
  BY <1>2 DEF Inv, MessagesAreSound
<1>6. ConversationsAreSound'
  BY <1>2, ZenonT(40) DEF Inv, ConversationsAreSound, TurnsAreWhole, TitleOpens,
                         CompleteIsStored, Whole, Exists, Of, Stored
<1> QED BY <1>3, <1>4, <1>5, <1>6 DEF Inv

\* A tab reads the end of a stream, or loses it.
LEMMA EndOfStreamKeeps ==
    ASSUME Inv, NEW t \in Tabs, receive(t) \/ connection_lost(t)
    PROVE  Inv'
<1>1. PICK r \in Runs : r = tab[t].run
  BY DEF Inv, Types, TabRecords, receive, connection_lost
<1>2. run[r].connected /\ run[r].pc # "none"
  BY <1>1, RunFacts DEF receive, connection_lost, RunIsSound
<1>3. PICK complete \in BOOLEAN : Shown(t, complete)
  BY DEF receive, connection_lost
<1>4. tab' \in [Tabs -> TabRecords]
  BY <1>1, <1>3, RunFacts DEF TabRecords, RunRecords, Shown
<1>5. /\ run' = [run EXCEPT ![r].connected = FALSE]
      /\ UNCHANGED <<conversation, message, next_id, sent, written>>
  BY <1>1 DEF receive, connection_lost
<1> QED BY <1>2, <1>4, <1>5, DisconnectedKeeps

\* A conversation is created where nothing of an earlier one is left.
LEMMA CreateKeeps ==
    ASSUME Inv, NEW t \in Tabs, create_conversation(t)
    PROVE  Inv'
<1>1. Types /\ RunsAreSound /\ MessagesAreSound /\ ConversationsAreSound
  BY DEF Inv
<1>2. PICK c \in Conversations :
         /\ conversation[c] = Absent /\ Of(c) = {}
         /\ \A r \in Runs : run[r].conversation # c
         /\ conversation' = [conversation EXCEPT ![c] = DefaultTitle]
         /\ tab' = [tab EXCEPT ![t].conversation = c]
  BY DEF create_conversation
<1>3. UNCHANGED <<message, next_id, run, sent, written>>
  BY DEF create_conversation
<1>4. /\ conversation'[c] = DefaultTitle
      /\ \A d \in Conversations : d # c => conversation'[d] = conversation[d]
  BY <1>1, <1>2 DEF Types
<1>5. Exists(c)' /\ \A d \in Conversations : d # c => (Exists(d)' <=> Exists(d))
  BY <1>4 DEF Exists, DefaultTitle, Absent
<1>6. Types'
  BY <1>1, <1>2, <1>3 DEF Types, TabRecords, DefaultTitle
<1>7. RunsAreSound'
  <2> SUFFICES ASSUME NEW r \in Runs PROVE RunIsSound(r)'
    BY DEF RunsAreSound
  <2>1. RunIsSound(r) /\ run[r].conversation # c
    BY <1>1, <1>2 DEF RunsAreSound
  <2>2. HoldsRows(run'[r], r, next_id')
    BY <2>1, <1>3 DEF RunIsSound
  <2> QED BY <2>1, <2>2, <1>3, <1>4, <1>5 DEF RunIsSound, Exists
<1>8. MessagesAreSound'
  BY <1>1, <1>3 DEF MessagesAreSound
<1>9. TurnsAreWhole'
  <2>1. \A m \in message : m.conversation \in Conversations /\ Exists(m.conversation)
    BY <1>1 DEF ConversationsAreSound, TurnsAreWhole, Exists
  <2> QED BY <2>1, <1>1, <1>3, <1>5 DEF ConversationsAreSound, TurnsAreWhole, Whole
<1>10. CompleteIsStored'
  BY <1>1, <1>2, <1>3, <1>5 DEF ConversationsAreSound, CompleteIsStored, Stored, Exists
<1>11. TitleOpens'
  BY <1>1, <1>2, <1>3, <1>4, <1>5 DEF ConversationsAreSound, TitleOpens, Of
<1> QED BY <1>6, <1>7, <1>8, <1>9, <1>10, <1>11 DEF Inv, ConversationsAreSound

\* What is sent begins a run that is new.
LEMMA SendKeeps ==
    ASSUME Inv, NEW t \in Tabs, handleSend(t)
    PROVE  Inv'
<1>1. Types /\ RunsAreSound /\ MessagesAreSound /\ ConversationsAreSound
  BY DEF Inv
<1>2. PICK c \in Conversations : c = tab[t].conversation /\ Exists(c)
  BY DEF handleSend, Exists
<1> DEFINE new == sent + 1
           y == [NoRun EXCEPT !.pc = "prepare", !.conversation = c, !.text = Text(t),
                              !.title = conversation[c], !.connected = TRUE]
<1>3. /\ run' = [run EXCEPT ![new] = y] /\ sent' = new
      /\ tab' = [tab EXCEPT ![t].draft = 0, ![t].run = new]
      /\ written' = IF tab[t].draft = 0 THEN written + 1 ELSE written
      /\ UNCHANGED <<conversation, message, next_id>>
  BY <1>2 DEF handleSend
<1>4. new \in Runs /\ run[new].pc = "none"
  <2>1. new \in Runs
    BY <1>1, ConstantsAssumption DEF handleSend, Types, Runs
  <2> QED BY <2>1, <1>1 DEF RunsAreSound, RunIsSound, Types
<1>5. Text(t) \in Nat /\ Text(t) > 0
  BY ConstantsAssumption DEF handleSend, Texts
<1>6. /\ y \in RunRecords /\ y.pc = "prepare" /\ y.conversation = c /\ y.text = Text(t) /\ y.rows = {}
      /\ y.title = conversation[c] /\ y.history = {} /\ y.connected = TRUE /\ y.told = "nothing"
  BY <1>1, <1>5 DEF NoRun, RunRecords, Pcs, Types
<1> HIDE DEF y
<1>7. run'[new] = y /\ \A s \in Runs : s # new => run'[s] = run[s]
  BY <1>1, <1>3, <1>4 DEF Types
<1>8. Types'
  <2>1. run' \in [Runs -> RunRecords] /\ sent' \in 0 .. MaxRuns /\ written' \in Nat
    BY <1>1, <1>3, <1>4, <1>6 DEF Types, Runs
  <2>2. tab' \in [Tabs -> TabRecords]
    BY <1>1, <1>3, <1>4 DEF Types, TabRecords
  <2> QED BY <2>1, <2>2, <1>1, <1>3 DEF Types
<1>9. RunsAreSound'
  <2> SUFFICES ASSUME NEW s \in Runs PROVE RunIsSound(s)'
    BY DEF RunsAreSound
  <2>1. RunIsSound(s)
    BY <1>1 DEF RunsAreSound
  <2>2. CASE s = new
    <3>1. HoldsRows(run'[s], s, next_id')
      BY <2>2, <1>6, <1>7 DEF HoldsRows
    <3>2. run'[s] = y /\ s <= sent' /\ Exists(c)'
      BY <2>2, <1>2, <1>3, <1>4, <1>7 DEF Exists, Runs
    <3>3. conversation' = conversation
      BY <1>3
    <3> QED BY <3>1, <3>2, <3>3, <1>5, <1>6 DEF RunIsSound
  <2>3. CASE s # new
    <3>1. HoldsRows(run'[s], s, next_id')
      BY <2>1, <2>3, <1>3, <1>7 DEF RunIsSound
    <3>2. s <= new <=> s <= sent
      BY <2>3, <1>1 DEF Types, Runs
    <3> QED BY <2>1, <2>3, <3>1, <3>2, <1>3, <1>7 DEF RunIsSound, Exists
  <2> QED BY <2>2, <2>3
<1>10. \A m \in message : m.run \in Runs /\ m.run # new
  BY <1>1, <1>4 DEF Types, Rows, MessagesAreSound
<1>11. MessagesAreSound'
  BY <1>1, <1>3, <1>7, <1>10 DEF MessagesAreSound
<1>12. TurnsAreWhole'
  <2>1. Whole({})
    BY DEF Whole
  <2>2. \A s \in Runs : Whole(run'[s].history)
    BY <2>1, <1>1, <1>6, <1>7 DEF ConversationsAreSound, TurnsAreWhole
  <2>3. Whole(message)' /\ \A m \in message' : Exists(m.conversation)'
    BY <1>1, <1>3 DEF ConversationsAreSound, TurnsAreWhole, Whole, Exists
  <2> QED BY <2>2, <2>3 DEF TurnsAreWhole, Whole
<1>13. CompleteIsStored'
  BY <1>1, <1>3, <1>6, <1>7 DEF ConversationsAreSound, CompleteIsStored, Stored, Exists
<1>14. TitleOpens'
  BY <1>1, <1>3, <1>7, <1>10 DEF ConversationsAreSound, TitleOpens, Of, Exists
<1> QED BY <1>8, <1>9, <1>11, <1>12, <1>13, <1>14 DEF Inv, ConversationsAreSound

\* A deletion takes whole turns, because no turn is spread over conversations.
LEMMA DeleteKeeps ==
    ASSUME Inv, NEW c \in Conversations, delete_conversation(c)
    PROVE  Inv'
<1>1. Types /\ RunsAreSound /\ MessagesAreSound /\ ConversationsAreSound
  BY DEF Inv
<1>2. /\ conversation' = [conversation EXCEPT ![c] = Absent]
      /\ message' = message \ Of(c)
      /\ UNCHANGED <<next_id, run, sent, tab, written>>
  BY DEF delete_conversation
<1>3. \A d \in Conversations : d # c => conversation'[d] = conversation[d]
  BY <1>1, <1>2 DEF Types
<1>4. ~Exists(c)' /\ \A d \in Conversations : d # c => (Exists(d)' <=> Exists(d))
  BY <1>1, <1>2 DEF Exists, Types
<1>5. Types'
  BY <1>1, <1>2 DEF Types, Absent
<1>6. RunsAreSound'
  <2> SUFFICES ASSUME NEW r \in Runs PROVE RunIsSound(r)'
    BY DEF RunsAreSound
  <2>1. RunIsSound(r)
    BY <1>1 DEF RunsAreSound
  <2>2. HoldsRows(run'[r], r, next_id')
    BY <2>1, <1>2 DEF RunIsSound
  <2>3. run[r].pc \in {"assistant", "commit"} => run[r].conversation # c
    <3> SUFFICES ASSUME run[r].pc \in {"assistant", "commit"}
                 PROVE  run[r].conversation # c
      OBVIOUS
    <3>1. PICK i \in Nat : Message(i, run[r].conversation, "user", r) \in run[r].rows
      BY <2>1, <1>1 DEF RunIsSound, HoldsRows, Types
    <3> QED BY <3>1 DEF delete_conversation, Message
  <2> QED BY <2>1, <2>2, <2>3, <1>2, <1>3, <1>4 DEF RunIsSound, Exists
<1>7. MessagesAreSound'
  BY <1>1, <1>2 DEF MessagesAreSound
<1>8. TurnsAreWhole'
  <2>1. Whole(message)'
    BY <1>1, <1>2 DEF ConversationsAreSound, TurnsAreWhole, MessagesAreSound, Whole, Of
  <2>2. \A m \in message' : Exists(m.conversation)'
    BY <1>1, <1>2, <1>4 DEF ConversationsAreSound, TurnsAreWhole, Of, Exists
  <2> QED BY <2>1, <2>2, <1>1, <1>2 DEF ConversationsAreSound, TurnsAreWhole, Whole
<1>9. CompleteIsStored'
  <2> SUFFICES ASSUME NEW r \in Runs, run[r].told = "complete", Exists(run[r].conversation)'
               PROVE  Stored(r)' # {}
    BY <1>2 DEF CompleteIsStored
  <2>1. run[r].conversation # c /\ Exists(run[r].conversation)
    BY <1>2, <1>4 DEF Exists
  <2>2. PICK m \in message : m.run = r
    BY <2>1, <1>1 DEF ConversationsAreSound, CompleteIsStored, Stored
  <2>3. m \in message'
    BY <2>1, <2>2, <1>1, <1>2 DEF MessagesAreSound, Of
  <2> QED BY <2>2, <2>3 DEF Stored
<1>10. TitleOpens'
  <2>1. \A d \in Conversations : d # c => Of(d)' = Of(d)
    BY <1>2 DEF Of
  <2> QED BY <2>1, <1>1, <1>2, <1>3, <1>4 DEF ConversationsAreSound, TitleOpens
<1> QED BY <1>5, <1>6, <1>7, <1>8, <1>9, <1>10 DEF Inv, ConversationsAreSound

-----------------------------------------------------------------------------
\* The invariant holds at first, ...
LEMMA InvHoldsAtFirst == Init => Inv
<1> SUFFICES ASSUME Init PROVE Inv
  OBVIOUS
<1>1. Types
  BY ConstantsAssumption DEF Init, Types, NoRun, RunRecords, Pcs, EmptyTab, TabRecords, Absent, DefaultTitle
<1>2. RunsAreSound
  BY ConstantsAssumption DEF Init, RunsAreSound, RunIsSound, HoldsRows, NoRun, Runs
<1>3. MessagesAreSound /\ ConversationsAreSound
  BY DEF Init, MessagesAreSound, ConversationsAreSound, TurnsAreWhole, TitleOpens, CompleteIsStored,
         Whole, NoRun, Exists
<1> QED BY <1>1, <1>2, <1>3 DEF Inv

\* ... and every step keeps it.
LEMMA InvIsKept == Inv /\ [Next]_vars => Inv'
<1> SUFFICES ASSUME Inv, [Next]_vars PROVE Inv'
  OBVIOUS
<1>1. ASSUME NEW t \in Tabs,
             \/ open_conversation(t) \/ create_conversation(t) \/ handleSend(t)
             \/ receive(t) \/ connection_lost(t)
      PROVE  Inv'
  BY <1>1, OpenKeeps, CreateKeeps, SendKeeps, EndOfStreamKeeps
<1>2. ASSUME NEW r \in Runs, Serve(r) \/ save_fails(r) \/ disconnect(r)
      PROVE  Inv'
  BY <1>2, ReadKeeps, AgentKeeps, InsertKeeps, CommitKeeps, EndKeeps DEF Serve
<1>3. ASSUME NEW c \in Conversations, delete_conversation(c)
      PROVE  Inv'
  BY <1>3, DeleteKeeps
<1>4. CASE UNCHANGED vars
  <2>1. Types' /\ RunsAreSound'
    BY <1>4 DEF vars, Inv, Types, RunsAreSound, RunIsSound, HoldsRows, Exists
  <2>2. message' = message /\ run' = run /\ conversation' = conversation
    BY <1>4 DEF vars
  <2>3. MessagesAreSound'
    BY <2>2 DEF Inv, MessagesAreSound
  <2>4. /\ \A c \in Conversations : Of(c)' = Of(c) /\ Exists(c)' = Exists(c)
        /\ \A r \in Runs : Stored(r)' = Stored(r)
    BY <2>2 DEF Of, Exists, Stored
  <2>5. TurnsAreWhole'
    BY <2>2 DEF Inv, ConversationsAreSound, TurnsAreWhole, Whole, Exists
  <2>6. TitleOpens' /\ CompleteIsStored'
    BY <2>2, <2>4 DEF Inv, ConversationsAreSound, TitleOpens, CompleteIsStored, Exists
  <2> QED BY <2>1, <2>3, <2>5, <2>6 DEF Inv, ConversationsAreSound
<1> QED BY <1>1, <1>2, <1>3, <1>4 DEF Next

\* Whatever is cut off, deleted or sent at the same time (run_and_persist and
\* add_turn beside the other routes), a conversation is whole turns, is named
\* after one that found it without a title, and has every turn that a browser was
\* told of.
THEOREM ConversationsStaySound == Spec => []ConversationsAreSound
<1>1. Inv => ConversationsAreSound
  BY DEF Inv
<1> QED BY <1>1, InvHoldsAtFirst, InvIsKept, PTL DEF Spec

-----------------------------------------------------------------------------
(* A message that is sent again after an error is stored once, unless an *)
(* earlier sending was stored though its tab took it for failed.         *)

\* The text that a tab has in its composer or waits for.
TextOf(t) == IF tab[t].run # 0 THEN run[tab[t].run].text ELSE tab[t].draft

\* A tab waits for a run that is connected to it, and every connected run has
\* its tab; no tab has a text that was not written or that another one has, and a
\* run that is connected is the last one that its text was sent in.
TabsAreSound ==
    /\ \A t \in Tabs : tab[t].run # 0 => run[tab[t].run].connected
    /\ \A r \in Runs : run[r].connected => \E t \in Tabs : tab[t].run = r
    /\ \A r \in Runs : run[r].text <= written /\ (run[r].text # 0 => r <= sent)
    /\ \A r, s \in Runs : run[r].connected /\ run[s].text = run[r].text => s <= r
    /\ \A t \in Tabs : TextOf(t) <= written
    /\ \A t, u \in Tabs : TextOf(t) # 0 /\ TextOf(t) = TextOf(u) => t = u

\* What a run has stored that was not cut is with no tab but the one that waits
\* for this run, was not sent again, and when the run has ended, its tab is told
\* that it is complete.
StoredTextsRest ==
    /\ \A m \in message, t \in Tabs :
          TextOf(t) = run[m.run].text => tab[t].run = m.run \/ m.run \in cut
    /\ \A m \in message, s \in Runs :
          run[s].text = run[m.run].text => s <= m.run \/ m.run \in cut
    /\ \A m, n \in message : m.run = n.run /\ m.role = n.role => m = n
    /\ \A m \in message : run[m.run].pc = "ended" /\ run[m.run].connected
                          => run[m.run].told = "complete" \/ m.run \in cut

OnceInv == TabsAreSound /\ StoredTextsRest

-----------------------------------------------------------------------------
\* What the lemmas below take from Inv.
LEMMA Facts ==
    ASSUME Inv
    PROVE  /\ \A r \in Runs : /\ run[r] \in RunRecords /\ run[r].text \in Nat
                              /\ run[r].connected => run[r].pc # "none"
                              /\ run[r].pc # "none" => run[r].text > 0
           /\ \A m \in message : /\ m.run \in Runs /\ run[m.run].pc \in {"refresh", "ended"}
                                 /\ run[m.run].text > 0
           /\ \A t \in Tabs : tab[t] \in TabRecords /\ tab[t].run \in {0} \cup Runs /\ TextOf(t) \in Nat
           /\ 0 \notin Runs /\ written \in Nat
<1>1. Types /\ RunsAreSound /\ MessagesAreSound
  BY DEF Inv
<1>2. \A r \in Runs : /\ run[r] \in RunRecords /\ run[r].text \in Nat
                      /\ run[r].connected => run[r].pc # "none"
                      /\ run[r].pc # "none" => run[r].text > 0
  BY <1>1 DEF Types, RunRecords, RunsAreSound, RunIsSound
<1>3. \A m \in message : m.run \in Runs /\ run[m.run].pc \in {"refresh", "ended"}
  BY <1>1 DEF Types, Rows, MessagesAreSound
<1>4. \A t \in Tabs : tab[t] \in TabRecords /\ tab[t].run \in {0} \cup Runs /\ tab[t].draft \in Nat
  BY <1>1 DEF Types, TabRecords
<1>5. \A t \in Tabs : TextOf(t) \in Nat
  BY <1>2, <1>4 DEF TextOf
<1> QED BY <1>1, <1>2, <1>3, <1>4, <1>5 DEF Types, Runs

\* A step that stores nothing and leaves the texts where they are.
LEMMA TextsRest ==
    ASSUME Inv, OnceInv,
           \A r \in Runs : run'[r].text = run[r].text /\ run'[r].connected = run[r].connected,
           \A t \in Tabs : tab'[t].run = tab[t].run /\ tab'[t].draft = tab[t].draft,
           written' = written, sent' = sent, message' \subseteq message, cut \subseteq cut',
           \A m \in message' : run'[m.run].pc = "ended" /\ run'[m.run].connected
                               => run'[m.run].told = "complete" \/ m.run \in cut'
    PROVE  OnceInv'
<1>1. TabsAreSound /\ StoredTextsRest
  BY DEF OnceInv
<1>2. \A t \in Tabs : TextOf(t)' = TextOf(t) /\ tab[t].run \in {0} \cup Runs
  BY Facts DEF TextOf
<1>3. TabsAreSound'
  BY <1>1, <1>2 DEF TabsAreSound
<1>4. \A m \in message' : m \in message /\ m.run \in Runs /\ run'[m.run].text = run[m.run].text
  BY Facts
<1>5. StoredTextsRest'
  BY <1>1, <1>2, <1>4 DEF StoredTextsRest
<1> QED BY <1>3, <1>5 DEF OnceInv

\* A run ends: what it has stored is told as complete, has no tab, or was cut.
LEMMA TellRests ==
    ASSUME Inv, OnceInv, NEW r \in Runs, NEW event \in {"nothing", "complete", "error"},
           Tell(r, event), UNCHANGED <<message, sent, tab, written>>, cut \subseteq cut',
           Stored(r) # {} => event = "complete" \/ ~run[r].connected \/ r \in cut'
    PROVE  OnceInv'
<1>1. /\ run'[r].pc = "ended" /\ run'[r].told = event
      /\ run'[r].text = run[r].text /\ run'[r].connected = run[r].connected
      /\ \A s \in Runs : s # r => run'[s] = run[s]
  BY RunFacts DEF Tell, RunRecords
<1>2. ASSUME NEW m \in message, run'[m.run].pc = "ended", run'[m.run].connected
      PROVE  run'[m.run].told = "complete" \/ m.run \in cut'
  <2>1. CASE m.run = r
    BY <1>1, <1>2, <2>1 DEF Stored
  <2>2. CASE m.run # r
    BY <1>1, <1>2, <2>2, Facts DEF OnceInv, StoredTextsRest
  <2> QED BY <2>1, <2>2
<1> QED BY <1>1, <1>2, TextsRest

\* The steps of a run but for its commit.
LEMMA ServeRests ==
    ASSUME Inv, OnceInv, NEW r \in Runs,
           \/ read_messages(r) \/ run_chat_agent(r) \/ insert_user(r) \/ insert_assistant(r)
           \/ refresh(r) \/ save_fails(r) \/ disconnect(r)
    PROVE  OnceInv'
<1>1. run[r].pc \notin {"refresh", "ended"} => Stored(r) = {}
  BY RunFacts
<1>2. ASSUME read_messages(r) \/ run_chat_agent(r) \/ insert_user(r) \/ insert_assistant(r)
      PROVE  OnceInv'
  <2>1. UNCHANGED <<message, sent, tab, written, cut>> /\ Stored(r) = {}
    BY <1>1, <1>2 DEF read_messages, run_chat_agent, insert_user, insert_assistant, insert
  <2>2. CASE Tell(r, "error")
    BY <2>1, <2>2, TellRests
  <2>3. CASE ~Tell(r, "error")
    <3>1. /\ run'[r].text = run[r].text /\ run'[r].connected = run[r].connected
          /\ \A s \in Runs : s # r => run'[s] = run[s]
      BY <1>2, <2>3, RunFacts DEF read_messages, run_chat_agent, insert_user, insert_assistant, insert, Step, RunRecords
    <3>2. \A m \in message : m.run \in Runs /\ m.run # r
      BY <2>1, Facts DEF Stored
    <3> QED BY <2>1, <3>1, <3>2, TextsRest DEF OnceInv, StoredTextsRest
  <2> QED BY <2>2, <2>3
<1>3. CASE refresh(r)
  BY <1>3, TellRests DEF refresh
<1>4. CASE save_fails(r)
  BY <1>4, TellRests DEF save_fails, Broken
<1>5. CASE disconnect(r)
  BY <1>5, TellRests DEF disconnect
<1> QED BY <1>2, <1>3, <1>4, <1>5

\* A turn is stored: if its tab still waits for it, its text was not sent again;
\* else it was cut.
LEMMA CommitRests ==
    ASSUME Inv, OnceInv, NEW r \in Runs, commit(r)
    PROVE  OnceInv'
<1>1. TabsAreSound /\ StoredTextsRest
  BY DEF OnceInv
<1>2. /\ \A s \in Runs : run'[s].text = run[s].text /\ run'[s].connected = run[s].connected
      /\ run'[r].pc = "refresh" /\ \A s \in Runs : s # r => run'[s] = run[s]
  BY RunFacts DEF commit, RunRecords
<1>3. /\ tab' = tab /\ written' = written /\ sent' = sent /\ message' = message \cup run[r].rows
      /\ cut \subseteq cut' /\ (run[r].connected \/ r \in cut')
  BY DEF commit
<1>4. \A t \in Tabs : TextOf(t)' = TextOf(t)
  BY <1>2, <1>3, Facts DEF TextOf
<1>5. TabsAreSound'
  BY <1>1, <1>2, <1>3, <1>4, Facts DEF TabsAreSound
<1>6. /\ \A m \in run[r].rows : m.run = r
      /\ \A m, n \in run[r].rows : m.role = n.role => m = n
  BY RunFacts DEF commit, RunIsSound, HoldsRows, Message
<1>7. \A m \in message : m.run \in Runs /\ m.run # r
  BY Facts DEF commit
<1>8. ASSUME r \notin cut'
      PROVE  \E t \in Tabs : tab[t].run = r /\ TextOf(t) = run[r].text
  BY <1>8, <1>1, <1>3, Facts DEF TabsAreSound, TextOf
<1>9. ASSUME NEW m \in message', NEW s \in Runs, run[s].text = run[m.run].text
      PROVE  s <= m.run \/ m.run \in cut'
  <2>1. CASE m \in message
    BY <2>1, <1>1, <1>3, <1>9 DEF StoredTextsRest
  <2>2. CASE m \in run[r].rows
    BY <2>2, <1>1, <1>3, <1>6, <1>9 DEF TabsAreSound
  <2> QED BY <2>1, <2>2, <1>3
<1>10. ASSUME NEW m \in message', NEW t \in Tabs, TextOf(t) = run[m.run].text
       PROVE  tab[t].run = m.run \/ m.run \in cut'
  <2>1. CASE m \in message
    BY <2>1, <1>1, <1>3, <1>10 DEF StoredTextsRest
  <2>2. CASE m \in run[r].rows
    <3>1. m.run = r /\ run[r].text > 0
      BY <2>2, <1>6, RunFacts, Facts DEF commit
    <3> QED BY <3>1, <1>1, <1>8, <1>10, Facts DEF TabsAreSound
  <2> QED BY <2>1, <2>2, <1>3
<1>11. \A m \in message' : m.run \in Runs /\ run'[m.run].text = run[m.run].text
  BY <1>2, <1>3, <1>6, <1>7
<1>12. ASSUME NEW m \in message', NEW n \in message', m.run = n.run, m.role = n.role
       PROVE  m = n
  BY <1>1, <1>3, <1>6, <1>7, <1>12 DEF StoredTextsRest
<1>13. ASSUME NEW m \in message', run'[m.run].pc = "ended", run'[m.run].connected
       PROVE  run'[m.run].told = "complete" \/ m.run \in cut'
  BY <1>1, <1>2, <1>3, <1>6, <1>7, <1>13 DEF StoredTextsRest
<1>14. StoredTextsRest'
  BY <1>2, <1>3, <1>4, <1>9, <1>10, <1>11, <1>12, <1>13 DEF StoredTextsRest
<1> QED BY <1>5, <1>14 DEF OnceInv

\* The stream ends: its text goes back to the composer, unless the turn is
\* complete, and when it is stored it was cut or is complete.
LEMMA EndOfStreamRests ==
    ASSUME Inv, OnceInv, NEW t \in Tabs, receive(t) \/ connection_lost(t)
    PROVE  OnceInv'
<1>1. TabsAreSound /\ StoredTextsRest
  BY DEF OnceInv
<1>2. PICK r \in Runs : r = tab[t].run
  BY Facts DEF receive, connection_lost
<1>3. PICK x \in Nat : x = run[r].text /\ x = TextOf(t) /\ x > 0 /\ run[r].connected
  BY <1>2, Facts DEF TextOf, receive, connection_lost
<1>4. PICK complete \in BOOLEAN :
         /\ Shown(t, complete)
         /\ \/ complete \/ (Stored(r) # {} => r \in cut')
            \/ run[r].pc = "ended" /\ run[r].told # "complete"
  <2>1. CASE receive(t)
    BY <2>1, <1>2 DEF receive
  <2>2. CASE connection_lost(t)
    <3>1. Shown(t, FALSE) /\ (Stored(r) # {} => r \in cut')
      BY <2>2, <1>2, <1>3 DEF connection_lost, Broken
    <3> QED BY <3>1
  <2> QED BY <2>1, <2>2
<1>5. /\ run' = [run EXCEPT ![r].connected = FALSE]
      /\ message' = message /\ written' = written /\ sent' = sent /\ cut \subseteq cut'
  BY <1>2 DEF receive, connection_lost, Broken
<1>6. /\ ~run'[r].connected
      /\ \A s \in Runs : /\ run'[s].text = run[s].text /\ run'[s].pc = run[s].pc /\ run'[s].told = run[s].told
                         /\ s # r => run'[s].connected = run[s].connected
  BY <1>5, RunFacts DEF RunRecords
<1>7. /\ tab'[t].run = 0 /\ tab'[t].draft = IF complete THEN 0 ELSE x
      /\ \A u \in Tabs : u # t => tab'[u] = tab[u]
  BY <1>2, <1>3, <1>4, RunFacts DEF Shown, TabRecords
<1>8. /\ TextOf(t)' = IF complete THEN 0 ELSE x
      /\ \A u \in Tabs : u # t => TextOf(u)' = TextOf(u)
  BY <1>6, <1>7, Facts DEF TextOf
<1>9. \A u \in Tabs : u # t => tab[u].run # r
  BY <1>1, <1>2, <1>3, Facts DEF TabsAreSound, TextOf
<1>10. TabsAreSound'
  <2>1. \A u \in Tabs : tab'[u].run # 0 => run'[tab'[u].run].connected
    BY <1>1, <1>6, <1>7, <1>9, Facts DEF TabsAreSound
  <2>2. \A s \in Runs : run'[s].connected => \E u \in Tabs : tab'[u].run = s
    BY <1>1, <1>2, <1>6, <1>7 DEF TabsAreSound
  <2>3. /\ \A s \in Runs : run'[s].text <= written' /\ (run'[s].text # 0 => s <= sent')
        /\ \A u \in Tabs : TextOf(u)' <= written'
    BY <1>1, <1>3, <1>5, <1>6, <1>8, Facts DEF TabsAreSound
  <2>4. ASSUME NEW u \in Tabs, NEW v \in Tabs, TextOf(u)' # 0, TextOf(u)' = TextOf(v)'
        PROVE  u = v
    BY <1>1, <1>3, <1>8, <2>4 DEF TabsAreSound
  <2>5. \A s, q \in Runs : run'[s].connected /\ run'[q].text = run'[s].text => q <= s
    BY <1>1, <1>6 DEF TabsAreSound
  <2> QED BY <2>1, <2>2, <2>3, <2>4, <2>5 DEF TabsAreSound
<1>11. ASSUME NEW m \in message, NEW u \in Tabs, TextOf(u)' = run[m.run].text
       PROVE  tab'[u].run = m.run \/ m.run \in cut'
  <2>1. CASE u # t
    BY <1>1, <1>5, <1>7, <1>8, <1>11, <2>1 DEF StoredTextsRest
  <2>2. CASE u = t
    <3>1. ~complete /\ TextOf(t) = run[m.run].text
      BY <1>3, <1>8, <1>11, <2>2, Facts
    <3>2. m.run = r \/ m.run \in cut
      BY <3>1, <1>1, <1>2 DEF StoredTextsRest
    <3>3. CASE m.run = r
      BY <3>1, <3>3, <1>1, <1>3, <1>4, <1>5 DEF StoredTextsRest, Stored
    <3> QED BY <3>1, <3>2, <3>3, <1>5
  <2> QED BY <2>1, <2>2
<1>12. \A m \in message : m.run \in Runs
  BY Facts
<1>13. StoredTextsRest'
  BY <1>1, <1>5, <1>6, <1>11, <1>12 DEF StoredTextsRest
<1> QED BY <1>10, <1>13 DEF OnceInv

\* What is sent again is not stored, or was cut.
LEMMA SendRests ==
    ASSUME Inv, OnceInv, NEW t \in Tabs, handleSend(t)
    PROVE  OnceInv'
<1>1. TabsAreSound /\ StoredTextsRest
  BY DEF OnceInv
<1>2. PICK new \in Runs : new = sent + 1 /\ run[new].pc = "none"
  <2>1. sent \in Nat /\ sent < MaxRuns
    BY DEF Inv, Types, handleSend
  <2>2. sent + 1 \in Runs
    BY <2>1, ConstantsAssumption DEF Runs
  <2>3. RunIsSound(sent + 1)
    BY <2>2, RunFacts
  <2> QED BY <2>1, <2>2, <2>3 DEF RunIsSound
<1>3. PICK x \in Nat : x = Text(t) /\ x > 0
  BY ConstantsAssumption DEF handleSend, Texts
<1>4. /\ run'[new].text = x /\ run'[new].connected /\ run'[new].pc = "prepare"
      /\ \A s \in Runs : s # new => run'[s] = run[s]
  BY <1>2, <1>3, RunFacts DEF handleSend, NoRun, RunRecords
<1>5. /\ tab[t].run = 0 /\ tab'[t].run = new
      /\ \A u \in Tabs : u # t => tab'[u] = tab[u]
  BY <1>2, RunFacts DEF handleSend, TabRecords
<1>6. /\ message' = message /\ cut' = cut /\ written' \in Nat /\ written <= written' /\ x <= written'
      /\ sent \in Nat /\ sent' = new
      /\ TextOf(t) = x \/ (x > written /\ TextOf(t) = 0)
  <2>1. /\ message' = message /\ cut' = cut /\ sent' = new /\ sent \in Nat
    BY <1>2 DEF handleSend, Inv, Types
  <2>2. /\ written' \in Nat /\ written <= written' /\ x <= written'
        /\ TextOf(t) = x \/ (x > written /\ TextOf(t) = 0)
    BY <1>1, <1>3, <1>5, Facts DEF handleSend, Text, TextOf, TabsAreSound
  <2> QED BY <2>1, <2>2
<1>7. ~run[new].connected /\ \A u \in Tabs : tab[u].run # new
  BY <1>1, <1>2, Facts DEF TabsAreSound
<1>8. /\ TextOf(t)' = x
      /\ \A u \in Tabs : u # t => TextOf(u)' = TextOf(u)
  BY <1>2, <1>4, <1>5, <1>7, Facts, ZenonT(40) DEF TextOf
<1>9. TabsAreSound'
  <2>1. \A u \in Tabs : tab'[u].run # 0 => run'[tab'[u].run].connected
    BY <1>1, <1>4, <1>5, <1>7, Facts DEF TabsAreSound
  <2>2. \A s \in Runs : run'[s].connected => \E u \in Tabs : tab'[u].run = s
    BY <1>1, <1>4, <1>5, Facts DEF TabsAreSound
  <2>3. /\ \A s \in Runs : run'[s].text <= written' /\ (run'[s].text # 0 => s <= sent')
        /\ \A u \in Tabs : TextOf(u)' <= written'
    BY <1>1, <1>2, <1>4, <1>6, <1>8, Facts DEF TabsAreSound, Runs
  <2>4. \A u \in Tabs : u # t => TextOf(u) # x
    BY <1>1, <1>3, <1>6, Facts DEF TabsAreSound
  <2>5. ASSUME NEW u \in Tabs, NEW v \in Tabs, TextOf(u)' # 0, TextOf(u)' = TextOf(v)'
        PROVE  u = v
    BY <1>1, <1>8, <2>4, <2>5 DEF TabsAreSound
  <2>6. ASSUME NEW r \in Runs, NEW s \in Runs, run'[r].connected, run'[s].text = run'[r].text
        PROVE  s <= r
    <3>1. CASE r = new
      BY <2>3, <2>6, <3>1, <1>3, <1>4, <1>6
    <3>2. CASE r # new
      <4>1. PICK u \in Tabs : tab[u].run = r /\ TextOf(u) = run[r].text
        BY <2>6, <3>2, <1>1, <1>4, Facts DEF TabsAreSound, TextOf
      <4>2. u # t
        BY <4>1, <1>5, Facts
      <4>3. s # new
        BY <2>4, <2>6, <3>2, <4>1, <4>2, <1>4
      <4> QED BY <2>6, <3>2, <4>3, <1>1, <1>4 DEF TabsAreSound
    <3> QED BY <3>1, <3>2
  <2> QED BY <2>1, <2>2, <2>3, <2>5, <2>6 DEF TabsAreSound
<1>10. \A m \in message : m.run \in Runs /\ m.run # 0 /\ run'[m.run] = run[m.run]
  BY <1>2, <1>4, Facts
<1>11. ASSUME NEW m \in message, NEW u \in Tabs, TextOf(u)' = run[m.run].text
       PROVE  tab'[u].run = m.run \/ m.run \in cut
  <2>1. CASE u # t
    BY <1>1, <1>5, <1>8, <1>11, <2>1 DEF StoredTextsRest
  <2>2. CASE u = t
    <3>1. run[m.run].text = x /\ x <= written
      BY <1>1, <1>8, <1>10, <1>11, <2>2 DEF TabsAreSound
    <3>2. TextOf(t) = x
      BY <3>1, <1>6, Facts
    <3> QED BY <3>1, <3>2, <1>1, <1>5, <1>10 DEF StoredTextsRest
  <2> QED BY <2>1, <2>2
<1>12. ASSUME NEW m \in message, run[m.run].text = x
       PROVE  m.run \in cut
  <2>1. x <= written
    BY <1>1, <1>10, <1>12 DEF TabsAreSound
  <2>2. TextOf(t) = x
    BY <2>1, <1>6, Facts
  <2> QED BY <2>2, <1>1, <1>5, <1>10, <1>12 DEF StoredTextsRest
<1>13. StoredTextsRest'
  BY <1>1, <1>4, <1>6, <1>10, <1>11, <1>12 DEF StoredTextsRest
<1> QED BY <1>9, <1>13 DEF OnceInv

\* Conversations are opened, created and deleted.
LEMMA OthersRest ==
    ASSUME Inv, OnceInv,
           \/ \E t \in Tabs : open_conversation(t) \/ create_conversation(t)
           \/ \E c \in Conversations : delete_conversation(c)
           \/ UNCHANGED vars
    PROVE  OnceInv'
<1>1. run' = run /\ cut' = cut /\ written' = written /\ sent' = sent /\ message' \subseteq message
  BY DEF open_conversation, create_conversation, delete_conversation, vars
<1>2. \A u \in Tabs : tab'[u].run = tab[u].run /\ tab'[u].draft = tab[u].draft
  BY RunFacts, Facts DEF open_conversation, create_conversation, delete_conversation, vars, TabRecords, Inv, Types
<1> QED BY <1>1, <1>2, TextsRest DEF OnceInv, StoredTextsRest

-----------------------------------------------------------------------------
\* The invariant holds at first, ...
LEMMA OnceHoldsAtFirst == Init => OnceInv
BY DEF Init, OnceInv, TabsAreSound, StoredTextsRest, TextOf, NoRun, EmptyTab

\* ... and every step keeps it.
LEMMA OnceIsKept == Inv /\ OnceInv /\ [Next]_vars => OnceInv'
<1> SUFFICES ASSUME Inv, OnceInv, [Next]_vars PROVE OnceInv'
  OBVIOUS
<1>1. ASSUME NEW t \in Tabs,
             \/ open_conversation(t) \/ create_conversation(t) \/ handleSend(t)
             \/ receive(t) \/ connection_lost(t)
      PROVE  OnceInv'
  BY <1>1, OthersRest, SendRests, EndOfStreamRests
<1>2. ASSUME NEW r \in Runs, Serve(r) \/ save_fails(r) \/ disconnect(r)
      PROVE  OnceInv'
  BY <1>2, ServeRests, CommitRests DEF Serve
<1>3. ASSUME NEW c \in Conversations, delete_conversation(c)
      PROVE  OnceInv'
  BY <1>3, OthersRest
<1>4. CASE UNCHANGED vars
  BY <1>4, OthersRest
<1> QED BY <1>1, <1>2, <1>3, <1>4 DEF Next

\* However often a message is sent again after an error (handleSend with the
\* text that Shown has put back), it is stored once, unless an earlier sending is
\* stored whose connection broke before the server had stopped it or whose refresh
\* failed when add_turn had committed.
THEOREM MessagesAreStoredOnce == Spec => []StoredOnce
<1>1. Inv /\ OnceInv => StoredOnce
  <2> SUFFICES ASSUME Inv, OnceInv, NEW m \in message, NEW n \in message,
                      run[m.run].text = run[n.run].text, m.role = n.role, m.run <= n.run
               PROVE  m = n \/ (m.run < n.run /\ m.run \in cut)
    BY DEF StoredOnce
  <2>1. m.run \in Runs /\ n.run \in Runs
    BY Facts
  <2> QED BY <2>1 DEF OnceInv, StoredTextsRest, Runs
<1>2. Init => Inv /\ OnceInv
  BY InvHoldsAtFirst, OnceHoldsAtFirst
<1>3. Inv /\ OnceInv /\ [Next]_vars => (Inv /\ OnceInv)'
  BY InvIsKept, OnceIsKept
<1> QED BY <1>1, <1>2, <1>3, PTL DEF Spec

-----------------------------------------------------------------------------
(* The type invariant: titles are of texts that were written, and no run    *)
(* takes more than two ids, however the runs insert in between each other.  *)

Known ==
    /\ \A c \in Conversations : conversation[c] \in Titles \cup {Absent}
    /\ \A r \in Runs : run[r].text \in {0} \cup Texts /\ run[r].title \in Titles
    /\ \A t \in Tabs : tab[t].draft \in {0} \cup Texts
    /\ written \in 0 .. MaxTexts /\ cut \subseteq Runs

\* How many rows a run has at most inserted, and these as a set for all runs.
Inserts(pc) == IF pc \in {"none", "prepare", "agent", "user"} THEN 0 ELSE IF pc = "assistant" THEN 1 ELSE 2
Taken == {x \in Runs \X (1 .. 2) : x[2] <= Inserts(run[x[1]].pc)}

Numbered ==
    /\ message \subseteq Messages
    /\ \A r \in Runs : run[r].rows \subseteq Messages /\ run[r].history \subseteq Messages
    /\ next_id \in 1 .. Cardinality(Taken) + 1

Bounds == Known /\ Numbered

-----------------------------------------------------------------------------
\* Steps of a run change neither what it was sent with nor other runs; its history
\* is read from what is stored, and a step that takes an id inserts a further row.
LEMMA StepsOfRuns ==
    ASSUME Inv, NEW r \in Runs, Serve(r) \/ save_fails(r) \/ disconnect(r)
    PROVE  /\ \A s \in Runs : s # r => run'[s] = run[s]
           /\ SameSending(run[r], run'[r])
           /\ run'[r].history = run[r].history \/ run'[r].history \subseteq message
           /\ Inserts(run[r].pc) <= Inserts(run'[r].pc)
           /\ message' \subseteq message \cup run[r].rows
           /\ \/ next_id' = next_id /\ run'[r].rows \subseteq run[r].rows
              \/ /\ next_id' = next_id + 1 /\ Inserts(run[r].pc) < Inserts(run'[r].pc)
                 /\ \A m \in run'[r].rows : m \in run[r].rows \/ m.id = next_id
<1>1. run[r] \in RunRecords /\ run \in [Runs -> RunRecords] /\ run[r].pc \in Pcs
  BY RunFacts DEF RunRecords
<1>2. ASSUME NEW pc \in Pcs, Step(r, pc), Inserts(run[r].pc) <= Inserts(pc), UNCHANGED <<message, next_id>>
      PROVE  /\ \A s \in Runs : s # r => run'[s] = run[s]
             /\ SameSending(run[r], run'[r]) /\ run'[r].history = run[r].history
             /\ Inserts(run[r].pc) <= Inserts(run'[r].pc)
             /\ run'[r].rows \subseteq run[r].rows
  BY <1>1, <1>2 DEF Step, SameSending, RunRecords
<1>3. ASSUME NEW event, Tell(r, event)
      PROVE  /\ \A s \in Runs : s # r => run'[s] = run[s]
             /\ SameSending(run[r], run'[r]) /\ run'[r].history = run[r].history
             /\ Inserts(run[r].pc) <= Inserts(run'[r].pc)
             /\ run'[r].rows \subseteq run[r].rows
  <2>1. run'[r].pc = "ended"
    BY <1>1, <1>3 DEF Tell, RunRecords
  <2>2. Inserts(run[r].pc) <= Inserts(run'[r].pc)
    BY <2>1 DEF Inserts
  <2> QED BY <2>2, <1>1, <1>3 DEF Tell, SameSending, RunRecords
<1>4. CASE run_chat_agent(r)
  <2>1. CASE Step(r, "user")
    BY <1>2, <1>4, <2>1 DEF run_chat_agent, Inserts, Pcs
  <2>2. CASE Tell(r, "error")
    BY <1>3, <1>4, <2>2 DEF run_chat_agent
  <2> QED BY <2>1, <2>2, <1>4 DEF run_chat_agent
<1>5. ASSUME NEW pc, NEW next, NEW role, insert(r, pc, role, next),
             \/ pc = "user" /\ next = "assistant"
             \/ pc = "assistant" /\ next = "commit",
             Exists(run[r].conversation)
      PROVE  /\ \A s \in Runs : s # r => run'[s] = run[s]
             /\ SameSending(run[r], run'[r]) /\ run'[r].history = run[r].history
             /\ next_id' = next_id + 1 /\ Inserts(run[r].pc) < Inserts(run'[r].pc)
             /\ \A m \in run'[r].rows : m \in run[r].rows \/ m.id = next_id
  <2>1. /\ run'[r].pc = next /\ run[r].pc = pc /\ next_id' = next_id + 1
        /\ run'[r].rows = run[r].rows \cup {Message(next_id, run[r].conversation, role, r)}
        /\ SameSending(run[r], run'[r]) /\ run'[r].history = run[r].history
        /\ \A s \in Runs : s # r => run'[s] = run[s]
    BY <1>1, <1>5 DEF insert, SameSending, RunRecords
  <2>2. Inserts(run[r].pc) < Inserts(run'[r].pc)
    BY <2>1, <1>5 DEF Inserts
  <2> QED BY <2>1, <2>2 DEF Message
<1>6. CASE insert_user(r) \/ insert_assistant(r)
  <2>1. \E pc, role, next : /\ insert(r, pc, role, next)
                            /\ \/ pc = "user" /\ next = "assistant"
                               \/ pc = "assistant" /\ next = "commit"
    <3>1. CASE insert(r, "user", "user", "assistant")
      BY <3>1
    <3>2. CASE insert(r, "assistant", "assistant", "commit")
      BY <3>2
    <3> QED BY <3>1, <3>2, <1>6 DEF insert_user, insert_assistant
  <2>2. CASE Exists(run[r].conversation)
    <3>1. message' = message
      BY <2>1 DEF insert
    <3>2. Inserts(run[r].pc) <= Inserts(run'[r].pc)
      <4>1. Inserts(run[r].pc) < Inserts(run'[r].pc)
        BY <1>5, <2>1, <2>2
      <4> QED BY <4>1 DEF Inserts
    <3> QED BY <1>5, <2>1, <2>2, <3>1, <3>2
  <2>3. CASE ~Exists(run[r].conversation)
    BY <1>3, <2>1, <2>3 DEF insert
  <2> QED BY <2>2, <2>3
<1>7. CASE commit(r)
  <2>1. run'[r].pc = "refresh" /\ run'[r].rows = {} /\ SameSending(run[r], run'[r])
        /\ run'[r].history = run[r].history
        /\ \A s \in Runs : s # r => run'[s] = run[s]
    BY <1>1, <1>7 DEF commit, SameSending, RunRecords
  <2>2. Inserts(run[r].pc) <= Inserts(run'[r].pc)
    BY <2>1 DEF Inserts
  <2> QED BY <2>1, <2>2, <1>7 DEF commit
<1>8. CASE refresh(r) \/ save_fails(r) \/ disconnect(r)
  BY <1>3, <1>8 DEF refresh, save_fails, disconnect
<1>9. CASE read_messages(r)
  <2>1. CASE run' = [run EXCEPT ![r].pc = "agent", ![r].history = Of(run[r].conversation)]
    <3>1. /\ run'[r].pc = "agent" /\ run'[r].rows = run[r].rows /\ SameSending(run[r], run'[r])
          /\ run'[r].history \subseteq message /\ \A s \in Runs : s # r => run'[s] = run[s]
      BY <1>1, <2>1 DEF Of, SameSending, RunRecords
    <3>2. run[r].pc = "prepare" /\ UNCHANGED <<message, next_id>>
      BY <1>9 DEF read_messages
    <3>3. Inserts(run[r].pc) <= Inserts(run'[r].pc)
      BY <3>1, <3>2 DEF Inserts
    <3> QED BY <3>1, <3>2, <3>3
  <2>2. CASE Tell(r, "error")
    BY <1>3, <1>9, <2>2 DEF read_messages
  <2> QED BY <2>1, <2>2, <1>9 DEF read_messages
<1> QED BY <1>4, <1>6, <1>7, <1>8, <1>9 DEF Serve

\* Nor do the other steps but the one that sends a message.
LEMMA OtherSteps ==
    ASSUME Inv,
           \/ \E t \in Tabs : \/ open_conversation(t) \/ create_conversation(t)
                              \/ receive(t) \/ connection_lost(t)
           \/ \E c \in Conversations : delete_conversation(c)
           \/ UNCHANGED vars
    PROVE  /\ \A s \in Runs : /\ SameSending(run[s], run'[s]) /\ run'[s].history = run[s].history
                              /\ run'[s].pc = run[s].pc /\ run'[s].rows = run[s].rows
           /\ message' \subseteq message /\ next_id' = next_id
<1>1. CASE run' = run
  BY <1>1 DEF open_conversation, create_conversation, receive, connection_lost, delete_conversation,
              vars, SameSending
<1>2. CASE \E t \in Tabs : receive(t) \/ connection_lost(t)
  <2>1. PICK r : run' = [run EXCEPT ![r].connected = FALSE]
    BY <1>2 DEF receive, connection_lost
  <2>2. run \in [Runs -> RunRecords]
    BY DEF Inv, Types
  <2>3. \A s \in Runs : /\ SameSending(run[s], run'[s]) /\ run'[s].history = run[s].history
                         /\ run'[s].pc = run[s].pc /\ run'[s].rows = run[s].rows
    BY <2>1, <2>2 DEF SameSending, RunRecords
  <2> QED BY <2>3, <1>2 DEF receive, connection_lost
<1> QED BY <1>1, <1>2 DEF open_conversation, create_conversation, delete_conversation, vars

\* What is sent is in a run that did not begin.
LEMMA SendSteps ==
    ASSUME Inv, NEW t \in Tabs, handleSend(t)
    PROVE  /\ \E new \in Runs :
                 /\ run[new].pc = "none" /\ \A s \in Runs : s # new => run'[s] = run[s]
                 /\ run'[new].pc = "prepare" /\ run'[new].text = Text(t) /\ Text(t) \in Texts
                 /\ \E c \in Conversations : run'[new].title = conversation[c] /\ conversation[c] # Absent
                 /\ run'[new].rows = {} /\ run'[new].history = {}
           /\ UNCHANGED <<message, next_id>>
<1>1. PICK new : new = sent + 1
  OBVIOUS
<1>2. new \in Runs
  <2>1. sent \in Nat /\ sent < MaxRuns
    BY DEF Inv, Types, handleSend
  <2> QED BY <1>1, <2>1, ConstantsAssumption DEF Runs
<1>3. run[new].pc = "none"
  <2>1. RunIsSound(new) /\ sent \in 0 .. MaxRuns
    BY <1>2, RunFacts DEF Inv, Types
  <2> QED BY <1>1, <1>2, <2>1 DEF RunIsSound, Runs
<1>4. PICK c \in Conversations : c = tab[t].conversation /\ conversation[c] # Absent
  BY DEF handleSend, Exists
<1>5. /\ \A s \in Runs : s # new => run'[s] = run[s]
      /\ run'[new].pc = "prepare" /\ run'[new].text = Text(t)
      /\ run'[new].title = conversation[c] /\ run'[new].rows = {} /\ run'[new].history = {}
  BY <1>1, <1>2, <1>4, RunFacts DEF handleSend, NoRun
<1>6. Text(t) \in Texts /\ UNCHANGED <<message, next_id>>
  BY DEF handleSend
<1> QED BY <1>2, <1>3, <1>4, <1>5, <1>6

-----------------------------------------------------------------------------
\* Ids that are taken are below the next one, which only grows.
LEMMA MessagesStay ==
    ASSUME next_id \in Nat, next_id' \in Nat, next_id <= next_id'
    PROVE  Messages \subseteq Messages'
<1>1. ASSUME NEW m \in Nat, NEW n \in Nat, m <= n, NEW i \in 1 .. m - 1
      PROVE  i \in 1 .. n - 1
  BY <1>1
<1> QED BY <1>1 DEF Messages

\* At most two ids for every run.
LEMMA TakenIsFinite ==
    ASSUME NEW T \in SUBSET (Runs \X (1 .. 2))
    PROVE  IsFiniteSet(T) /\ Cardinality(T) \in 0 .. 2 * MaxRuns
<1>1. ASSUME NEW n \in Nat
      PROVE  IsFiniteSet(1 .. n) /\ Cardinality(1 .. n) = n
  <2>1. IsFiniteSet(1 .. n) /\ Cardinality(1 .. n) = IF 1 > n THEN 0 ELSE n - 1 + 1
    BY FS_Interval
  <2> QED BY <2>1
<1>2. /\ IsFiniteSet(Runs) /\ Cardinality(Runs) = MaxRuns
      /\ IsFiniteSet(1 .. 2) /\ Cardinality(1 .. 2) = 2
  BY <1>1, ConstantsAssumption DEF Runs
<1>3. IsFiniteSet(Runs \X (1 .. 2)) /\ Cardinality(Runs \X (1 .. 2)) = MaxRuns * 2
  BY <1>2, FS_Product
<1>4. IsFiniteSet(T) /\ Cardinality(T) <= MaxRuns * 2
  BY <1>3, FS_Subset
<1>5. Cardinality(T) \in Nat
  BY <1>4, FS_CardinalityType
<1> QED BY <1>4, <1>5, ConstantsAssumption

\* An id that is taken belongs to a row that no run had inserted.
LEMMA TakenGrows ==
    ASSUME next_id \in 1 .. Cardinality(Taken) + 1,
           \A s \in Runs : Inserts(run[s].pc) <= Inserts(run'[s].pc),
           \/ next_id' = next_id
           \/ /\ next_id' = next_id + 1
              /\ \E r \in Runs : Inserts(run[r].pc) < Inserts(run'[r].pc)
    PROVE  next_id' \in 1 .. Cardinality(Taken') + 1
<1>1. \A pc : Inserts(pc) \in 0 .. 2
  BY DEF Inserts
<1>2. /\ IsFiniteSet(Taken) /\ Cardinality(Taken) \in Nat
      /\ IsFiniteSet(Taken') /\ Cardinality(Taken') \in Nat
  <2>1. Taken \in SUBSET (Runs \X (1 .. 2)) /\ Taken' \in SUBSET (Runs \X (1 .. 2))
    BY DEF Taken
  <2>2. IsFiniteSet(Taken) /\ IsFiniteSet(Taken')
    BY <2>1, TakenIsFinite
  <2> QED BY <2>2, FS_CardinalityType
<1>3. Taken \subseteq Taken'
  BY <1>1 DEF Taken
<1>4. CASE next_id' = next_id
  <2>1. Cardinality(Taken) <= Cardinality(Taken')
    BY <1>2, <1>3, FS_Subset
  <2> QED BY <1>2, <1>4, <2>1
<1>5. CASE next_id' = next_id + 1 /\ \E r \in Runs : Inserts(run[r].pc) < Inserts(run'[r].pc)
  <2>1. PICK r \in Runs : Inserts(run[r].pc) < Inserts(run'[r].pc)
    BY <1>5
  <2>2. PICK x : x = <<r, Inserts(run'[r].pc)>>
    OBVIOUS
  <2>3. x \in Taken' /\ x \notin Taken
    <3>1. Inserts(run'[r].pc) \in 1 .. 2
      BY <2>1, <1>1
    <3> QED BY <2>1, <2>2, <3>1, <1>1 DEF Taken
  <2>4. Cardinality(Taken \cup {x}) = Cardinality(Taken) + 1
    BY <2>3, <1>2, FS_AddElement
  <2>5. Cardinality(Taken \cup {x}) <= Cardinality(Taken')
    BY <2>3, <1>2, <1>3, FS_Subset
  <2> QED BY <1>2, <1>5, <2>4, <2>5
<1> QED BY <1>4, <1>5

-----------------------------------------------------------------------------
\* What the run of a tab or a run that goes on has as its text.
LEMMA TextsAreKnown ==
    ASSUME Inv, Known
    PROVE  \A r \in Runs : run[r].pc # "none" => run[r].text \in Texts
BY RunFacts DEF Known, RunIsSound

\* What is shown or stored as a title is the text of a run that began.
LEMMA KnownIsKept ==
    ASSUME Inv, Known, [Next]_vars
    PROVE  Known'
<1>1. Types /\ Known /\ Inv
  BY DEF Inv
<1>2. CASE \E t \in Tabs : handleSend(t)
  <2>1. PICK t \in Tabs : handleSend(t)
    BY <1>2
  <2>2. \A r \in Runs : run'[r].text \in {0} \cup Texts /\ run'[r].title \in Titles
    BY <1>1, <2>1, SendSteps DEF Known
  <2>3. \A u \in Tabs : tab'[u].draft \in {0} \cup Texts
    BY <1>1, <2>1 DEF handleSend, Types, TabRecords, Known
  <2>4. written' \in 0 .. MaxTexts
    BY <1>1, <2>1, ConstantsAssumption DEF handleSend, Text, Known, Texts
  <2> QED BY <1>1, <2>1, <2>2, <2>3, <2>4 DEF handleSend, Known
<1>3. CASE \/ \E t \in Tabs : \/ open_conversation(t) \/ create_conversation(t)
                              \/ receive(t) \/ connection_lost(t)
           \/ \E c \in Conversations : delete_conversation(c)
           \/ UNCHANGED vars
  <2>1. \A r \in Runs : run'[r].text \in {0} \cup Texts /\ run'[r].title \in Titles
    BY <1>1, <1>3, OtherSteps DEF Known, SameSending
  <2>2. CASE \E t \in Tabs : receive(t) \/ connection_lost(t)
    <3>1. PICK t \in Tabs : receive(t) \/ connection_lost(t)
      BY <2>2
    <3>2. PICK r \in Runs : r = tab[t].run
      BY <1>1, <3>1 DEF Types, TabRecords, receive, connection_lost
    <3>3. run[r].text \in Texts
      BY <1>1, <3>1, <3>2, RunFacts, TextsAreKnown DEF receive, connection_lost, RunIsSound
    <3>4. \A u \in Tabs : tab'[u].draft \in {0} \cup Texts
      BY <1>1, <3>1, <3>2, <3>3 DEF receive, connection_lost, Shown, Types, TabRecords, Known
    <3>5. cut' \subseteq Runs
      BY <1>1, <3>1, <3>2 DEF receive, connection_lost, Broken, Known
    <3> QED BY <1>1, <2>1, <3>1, <3>4, <3>5 DEF receive, connection_lost, Known
  <2>3. CASE \/ \E t \in Tabs : open_conversation(t) \/ create_conversation(t)
             \/ \E c \in Conversations : delete_conversation(c)
             \/ UNCHANGED vars
    <3>1. \A c \in Conversations : conversation'[c] \in Titles \cup {Absent}
      BY <1>1, <2>3 DEF open_conversation, create_conversation, delete_conversation, vars, Types, Known, Titles
    <3>2. \A t \in Tabs : tab'[t].draft \in {0} \cup Texts
      BY <1>1, <2>3 DEF open_conversation, create_conversation, delete_conversation, vars, Types, TabRecords, Known
    <3>3. UNCHANGED <<written, cut>>
      BY <2>3 DEF open_conversation, create_conversation, delete_conversation, vars
    <3> QED BY <1>1, <2>1, <3>1, <3>2, <3>3 DEF Known
  <2> QED BY <1>3, <2>2, <2>3
<1>4. ASSUME NEW r \in Runs, Serve(r) \/ save_fails(r) \/ disconnect(r)
      PROVE  Known'
  <2>1. \A s \in Runs : run'[s].text \in {0} \cup Texts /\ run'[s].title \in Titles
    BY <1>1, <1>4, StepsOfRuns DEF Known, SameSending
  <2>2. UNCHANGED <<tab, written>>
    BY <1>4 DEF Serve, read_messages, run_chat_agent, insert_user, insert_assistant, insert, commit, refresh, save_fails, disconnect
  <2>3. CASE commit(r)
    <3>1. run[r].text \in Texts /\ Exists(run[r].conversation)
      BY <1>1, <2>3, RunFacts, TextsAreKnown DEF commit, RunIsSound
    <3>2. Titled(r) \in Titles
      BY <1>1, <3>1 DEF Titled, Titles, Known, Exists
    <3>3. \A c \in Conversations : conversation'[c] \in Titles \cup {Absent}
      BY <1>1, <2>3, <3>2 DEF commit, Known, Types
    <3>4. cut' \subseteq Runs
      BY <1>1, <2>3, <3>1 DEF commit, Known
    <3> QED BY <1>1, <2>1, <2>2, <3>3, <3>4 DEF Known
  <2>4. CASE save_fails(r)
    <3>1. cut' \subseteq Runs
      BY <1>1, <2>4 DEF save_fails, Broken, Known
    <3> QED BY <1>1, <2>1, <2>2, <2>4, <3>1 DEF save_fails, Known
  <2>5. CASE read_messages(r) \/ run_chat_agent(r) \/ insert_user(r) \/ insert_assistant(r) \/ refresh(r) \/ disconnect(r)
    <3>1. UNCHANGED <<conversation, cut>>
      BY <2>5 DEF read_messages, run_chat_agent, insert_user, insert_assistant, insert, refresh, disconnect
    <3> QED BY <1>1, <2>1, <2>2, <3>1 DEF Known
  <2> QED BY <1>4, <2>3, <2>4, <2>5 DEF Serve
<1> QED BY <1>2, <1>3, <1>4 DEF Next

\* Every row has an id below the next one, and the next one is bounded by what
\* the runs have inserted.
LEMMA NumberedIsKept ==
    ASSUME Inv, Numbered, [Next]_vars
    PROVE  Numbered'
<1>1. Inv /\ Inv'
  BY InvIsKept
<1>2. /\ next_id \in Nat /\ next_id >= 1 /\ next_id' \in Nat
      /\ \A m \in message' : m \in Rows
      /\ \A r \in Runs : \A m \in run'[r].rows : m \in Rows
  BY <1>1 DEF Inv, Types, RunRecords, Numbered
<1>3. CASE \E t \in Tabs : handleSend(t)
  <2>1. PICK t \in Tabs : handleSend(t)
    BY <1>3
  <2>2. Messages \subseteq Messages' /\ next_id' = next_id /\ message' = message
    BY <2>1, SendSteps DEF Messages
  <2>3. \A r \in Runs : /\ Inserts(run[r].pc) <= Inserts(run'[r].pc)
                         /\ run'[r].rows \subseteq Messages /\ run'[r].history \subseteq Messages
    BY <2>1, SendSteps DEF Inserts, Numbered
  <2>4. next_id' \in 1 .. Cardinality(Taken') + 1
    BY <2>2, <2>3, TakenGrows DEF Numbered
  <2> QED BY <2>2, <2>3, <2>4 DEF Numbered
<1>4. CASE \/ \E t \in Tabs : \/ open_conversation(t) \/ create_conversation(t)
                              \/ receive(t) \/ connection_lost(t)
           \/ \E c \in Conversations : delete_conversation(c)
           \/ UNCHANGED vars
  <2>1. Messages \subseteq Messages' /\ next_id' = next_id /\ message' \subseteq message
    BY <1>4, OtherSteps DEF Messages
  <2>2. \A r \in Runs : /\ Inserts(run[r].pc) <= Inserts(run'[r].pc)
                         /\ run'[r].rows \subseteq Messages /\ run'[r].history \subseteq Messages
    BY <1>4, OtherSteps DEF Inserts, Numbered, SameSending
  <2>3. next_id' \in 1 .. Cardinality(Taken') + 1
    BY <2>1, <2>2, TakenGrows DEF Numbered
  <2> QED BY <2>1, <2>2, <2>3 DEF Numbered
<1>5. ASSUME NEW r \in Runs, Serve(r) \/ save_fails(r) \/ disconnect(r)
      PROVE  Numbered'
  <2>1. /\ \A s \in Runs : s # r => run'[s] = run[s]
        /\ run'[r].history = run[r].history \/ run'[r].history \subseteq message
        /\ message' \subseteq message \cup run[r].rows
        /\ Inserts(run[r].pc) <= Inserts(run'[r].pc)
        /\ next_id' = next_id \/ (next_id' = next_id + 1 /\ Inserts(run[r].pc) < Inserts(run'[r].pc))
    BY <1>1, <1>5, StepsOfRuns
  <2>2. Messages \subseteq Messages' /\ next_id <= next_id'
    BY <1>2, <2>1, MessagesStay
  <2>3. run'[r].rows \subseteq Messages'
    <3>1. ASSUME NEW m \in run'[r].rows, m \notin run[r].rows
          PROVE  m \in Messages'
      <4>1. m.id = next_id /\ next_id' = next_id + 1
        BY <1>1, <1>5, <3>1, StepsOfRuns
      <4>2. m.id \in 1 .. next_id' - 1
        BY <4>1, <1>2
      <4> QED BY <4>2, <1>2 DEF Messages, Rows
    <3> QED BY <3>1, <2>2 DEF Numbered
  <2>4. \A s \in Runs : Inserts(run[s].pc) <= Inserts(run'[s].pc)
    BY <2>1 DEF Inserts
  <2>5. next_id' \in 1 .. Cardinality(Taken') + 1
    BY <2>1, <2>4, TakenGrows DEF Numbered
  <2>6. \A s \in Runs : run'[s].rows \subseteq Messages' /\ run'[s].history \subseteq Messages'
    BY <2>1, <2>2, <2>3 DEF Numbered
  <2>7. message' \subseteq Messages'
    BY <2>1, <2>2 DEF Numbered
  <2> QED BY <2>5, <2>6, <2>7 DEF Numbered
<1> QED BY <1>3, <1>4, <1>5 DEF Next

\* The types of the chat: the ids of messages never run past two for every run
\* of stream_message, also when runs insert in between each other and fail.
THEOREM TypeCorrect == Spec => []TypeOK
<1>1. Init => Bounds
  <2> SUFFICES ASSUME Init PROVE Bounds
    OBVIOUS
  <2>1. Known
    BY ConstantsAssumption DEF Init, Known, NoRun, EmptyTab, Titles
  <2>2. Cardinality(Taken) \in Nat
    <3>1. Taken \in SUBSET (Runs \X (1 .. 2))
      BY DEF Taken
    <3> QED BY <3>1, TakenIsFinite
  <2>3. Numbered
    BY <2>2 DEF Init, Numbered, NoRun
  <2> QED BY <2>1, <2>3 DEF Bounds
<1>2. Inv /\ Bounds /\ [Next]_vars => Bounds'
  BY KnownIsKept, NumberedIsKept DEF Bounds
<1>3. Inv /\ Bounds => TypeOK
  <2> SUFFICES ASSUME Inv, Bounds PROVE TypeOK
    OBVIOUS
  <2>1. next_id \in 1 .. 2 * MaxRuns + 1
    <3>1. Taken \in SUBSET (Runs \X (1 .. 2))
      BY DEF Taken
    <3>2. Cardinality(Taken) \in 0 .. 2 * MaxRuns /\ next_id \in 1 .. Cardinality(Taken) + 1
      BY <3>1, TakenIsFinite DEF Bounds, Numbered
    <3> QED BY <3>2, ConstantsAssumption
  <2>2. conversation \in [Conversations -> Titles \cup {Absent}]
    BY DEF Inv, Types, Bounds, Known
  <2>3. tab \in [Tabs -> [conversation : Conversations \cup {NoConversation},
                          draft : {0} \cup Texts, run : {0} \cup Runs]]
    BY DEF Inv, Types, TabRecords, Bounds, Known
  <2>4. \A r \in Runs :
           /\ run[r].pc \in {"none", "prepare", "agent", "user", "assistant", "commit", "refresh", "ended"}
           /\ run[r].told \in {"nothing", "complete", "error"}
    BY DEF Inv, Types, RunRecords, Pcs
  <2> QED BY <2>1, <2>2, <2>3, <2>4 DEF Inv, Types, Bounds, Known, Numbered, TypeOK
<1> QED BY <1>1, <1>2, <1>3, InvHoldsAtFirst, InvIsKept, PTL DEF Spec
=============================================================================
