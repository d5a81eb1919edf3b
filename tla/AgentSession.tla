---------------------------- MODULE AgentSession ----------------------------
(***************************************************************************)
(* One session of the shared tool-calling loop, run_tool_calling_agent:    *)
(* the model is asked, the tools it requests are dispatched one after the  *)
(* other, their outputs go back to it, until it answers, a terminal tool   *)
(* succeeds or something fails; with the text streamed to a listener and   *)
(* the compact trace that is stored of the session and rebuilt later.      *)
(*                                                                         *)
(* Model, tools and capabilities are external: any reply the protocols     *)
(* allow, any result of a tool.  Both protocols send the same list of      *)
(* inputs; a tool's output is named by the call it answers.  They differ   *)
(* in what is rebuilt of a trace: see trace_model_calls.                   *)
(* A definition named after another one and a fault is what that code      *)
(* would be with the fault; no behaviour of Spec uses it.                  *)
(***************************************************************************)
EXTENDS Integers, Sequences, FiniteSets

CONSTANTS
    Tools,          \* the registered tools
    Terminal,       \* ... that end the session when they succeed
    Returning,      \* ... whose input errors are returned to the model
    Submitting,     \* ... that write, and of which a capability demands one
    Streaming,      \* there is a stream_callback
    HasDeadline,    \* there is a timeout_seconds
    MaxModelCalls,  \* bound: requests of a session
    MaxParallel,    \* bound: tools requested in one reply
    MaxTexts        \* bound: text messages in one reply

ASSUME ConstantsAssumption ==
    /\ Terminal \subseteq Tools /\ Returning \subseteq Tools
    /\ Submitting \subseteq Tools
    /\ Streaming \in BOOLEAN /\ HasDeadline \in BOOLEAN
    /\ MaxModelCalls \in Nat \ {0} /\ MaxParallel \in Nat \ {0} /\ MaxTexts \in Nat \ {0}

VARIABLES
    pc,         \* "request", "model", "dispatch", "tool", "answer" or "done"
    history,    \* responses_input or chat_messages, after the prompt
    sent,       \* the input of every request that got a reply, or waits for one
    calls,      \* model_calls
    execs,      \* tool_executions
    ran,        \* how many tools of the last reply were dispatched
    shown,      \* what the listener shows: the text messages since the last reset
    expired,    \* the deadline is over
    submitted,  \* the capability has seen a submission succeed
    effects,    \* how often a submitting tool took effect
    outcome     \* how the session ended

vars == <<pc, history, sent, calls, execs, ran, shown, expired, submitted, effects,
          outcome>>

NotATool == "unregistered"
\* The tools a reply can ask for, in order; none for one with text only.
RequestedCalls == UNION {[1 .. n -> Tools \cup {NotATool}] : n \in 0 .. MaxParallel}

Pending == [kind |-> "pending", provider |-> FALSE, retryable |-> FALSE, fatal |-> FALSE]
run_error == [Pending EXCEPT !.kind = "error"]
timeout_error == [run_error EXCEPT !.fatal = TRUE]
provider_error(retryable, fatal) ==
    [kind |-> "error", provider |-> TRUE, retryable |-> retryable, fatal |-> fatal]

\* An entry of model_calls; a malformed one has calls that are not counted.
Call(stage, requested, count) == [stage |-> stage, requested |-> requested, count |-> count]
Last == calls[Len(calls)]

Init ==
    /\ pc = "request"
    /\ history = <<>> /\ sent = <<>> /\ calls = <<>> /\ execs = <<>>
    /\ ran = 0 /\ shown = <<>>
    /\ expired = FALSE
    /\ submitted = FALSE /\ effects = 0
    /\ outcome = Pending

-----------------------------------------------------------------------------
(* The model's side *)

End(o) == pc' = "done" /\ outcome' = o

\* The deadline passes; the code sees it at its next check or await.
Expire ==
    /\ HasDeadline /\ ~expired /\ pc # "done"
    /\ expired' = TRUE
    /\ UNCHANGED <<pc, history, sent, calls, execs, ran, shown, submitted, effects, outcome>>

\* remaining_timeout, before a request and before a tool.
remaining_timeout ==
    /\ expired
    /\ pc \in {"request", "dispatch"}
    /\ End(timeout_error)
    /\ UNCHANGED <<history, sent, calls, execs, ran, shown, expired, submitted, effects>>

send_model_request_late ==
    /\ pc = "request" /\ Len(sent) < MaxModelCalls
    /\ sent' = Append(sent, history)
    /\ pc' = "model"
    /\ UNCHANGED <<history, calls, execs, ran, shown, expired, submitted, effects, outcome>>
send_model_request ==
    /\ pc = "request" /\ ~expired /\ Len(sent) < MaxModelCalls
    /\ sent' = Append(sent, history)
    /\ pc' = "model"
    /\ UNCHANGED <<history, calls, execs, ran, shown, expired, submitted, effects, outcome>>

\* The text messages of the reply under way that were streamed so far.
StreamedNow == Cardinality({i \in DOMAIN shown : shown[i][1] = Len(sent)})

output_delta ==
    /\ pc = "model" /\ Streaming /\ StreamedNow < MaxTexts
    /\ shown' = Append(shown, <<Len(sent), StreamedNow + 1>>)
    /\ UNCHANGED <<pc, history, sent, calls, execs, ran, expired, submitted, effects, outcome>>

\* No reply: the deadline cancels the request ...
reply_timeout_first_only ==
    /\ pc = "model" /\ expired /\ Len(sent) = 1
    /\ End(timeout_error)
    /\ UNCHANGED <<history, sent, calls, execs, ran, shown, expired, submitted, effects>>
reply_timeout ==
    /\ pc = "model" /\ expired
    /\ End(timeout_error)
    /\ UNCHANGED <<history, sent, calls, execs, ran, shown, expired, submitted, effects>>

\* ... or the connection fails, or is silent for too long.
no_reply ==
    /\ pc = "model"
    /\ End(provider_error(TRUE, FALSE))
    /\ UNCHANGED <<history, sent, calls, execs, ran, shown, expired, submitted, effects>>

\* Status 401, 403, 404: fatal; 429 and 5xx, or an error in the stream: worth a
\* retry; other statuses neither.
StatusErrors == {provider_error(FALSE, TRUE), provider_error(TRUE, FALSE),
                 provider_error(FALSE, FALSE)}
error_reply ==
    /\ pc = "model"
    /\ \E e \in StatusErrors : /\ StreamedNow > 0 => e.retryable
                               /\ End(e)
    /\ calls' = Append(calls, Call("error", <<>>, 0))
    /\ UNCHANGED <<history, sent, execs, ran, shown, expired, submitted, effects>>

\* A requested call lacks its id, its name or its arguments.
malformed_reply ==
    /\ pc = "model"
    /\ \E c \in RequestedCalls \ {<<>>} :
          calls' = Append(calls, Call("action_selection", c, 0))
    /\ End(run_error)
    /\ UNCHANGED <<history, sent, execs, ran, shown, expired, submitted, effects>>

\* Tools are requested: the text streamed with them is taken back, and a terminal
\* tool must be the only one.
AllowedTogether(c) ==
    (\E k \in DOMAIN c : c[k] \in Terminal) => Len(c) = 1
AfterReset == <<>>
FirstTool_kept == ran
FirstTool == 0

action_reply ==
    /\ pc = "model"
    /\ \E c \in RequestedCalls \ {<<>>} :
          /\ calls' = Append(calls, Call("action_selection", c, Len(c)))
          /\ IF AllowedTogether(c)
             THEN pc' = "dispatch" /\ UNCHANGED outcome
             ELSE End(run_error)
    /\ ran' = FirstTool
    /\ shown' = AfterReset
    /\ UNCHANGED <<history, sent, execs, expired, submitted, effects>>

-----------------------------------------------------------------------------
(* The tools *)

\* tool_started; the tool runs until tool_done or tool_timeout.
dispatch ==
    /\ pc = "dispatch" /\ ~expired
    /\ pc' = "tool"
    /\ UNCHANGED <<history, sent, calls, execs, ran, shown, expired, submitted, effects, outcome>>

\* What the model gets back: its reply, with the reasoning that came with the
\* calls, and, in their order, the outputs.
Name(n, k, o) == [kind |-> "output", call |-> n, index |-> k, output |-> o]
Reply(n) == [kind |-> "reply", call |-> n, index |-> 0, output |-> "reasoning"]
Continuation(n, outputs) == <<Reply(n)>> \o outputs

\* The executions of the last reply, with the one that just ended.
OutputsWith(o) ==
    SubSeq(execs, Len(execs) - ran + 1, Len(execs)) \o <<Name(Len(calls), ran + 1, o)>>

\* The capabilities accept the end of the session.
finalize == Submitting # {} => submitted

\* A terminal tool that succeeded ends the session, if the capabilities agree;
\* after the last of several tools the model is asked again.
EndsSession(t, o) == t \in Terminal /\ o = "ok"
AfterTool(t, o) ==
    IF EndsSession(t, o)
    THEN /\ End(IF finalize' THEN [Pending EXCEPT !.kind = "ended"] ELSE run_error)
         /\ UNCHANGED history
    ELSE /\ UNCHANGED outcome
         /\ IF ran + 1 < Len(Last.requested)
            THEN pc' = "dispatch" /\ UNCHANGED history
            ELSE /\ pc' = "request"
                 /\ history' = history \o Continuation(Len(calls), OutputsWith(o))

\* dispatch_async: a result, or an input error that is returned like one.
tool_done ==
    LET t == Last.requested[ran + 1] IN
    /\ pc = "tool" /\ t # NotATool
    /\ \E o \in {"ok"} \cup (IF t \in Returning THEN {"input_error"} ELSE {}) :
          /\ execs' = Append(execs, Name(Len(calls), ran + 1, o))
          /\ IF t \in Submitting /\ o = "ok"
             THEN submitted' = TRUE /\ effects' = effects + 1
             ELSE UNCHANGED <<submitted, effects>>
          /\ AfterTool(t, o)
    /\ ran' = ran + 1
    /\ UNCHANGED <<sent, calls, shown, expired>>

\* A tool that fails or is cancelled may have taken effect before.
EffectOrNot ==
    effects' \in {effects} \cup (IF Last.requested[ran + 1] \in Submitting THEN {effects + 1}
                                                                         ELSE {})

\* An unregistered tool, arguments the tool rejects, or one that raises.
tool_error_returned ==
    /\ pc = "tool"
    /\ EffectOrNot
    /\ execs' = Append(execs, Name(Len(calls), ran + 1, "error"))
    /\ AfterTool(NotATool, "error")
    /\ ran' = ran + 1
    /\ UNCHANGED <<sent, calls, shown, expired, submitted>>
tool_error ==
    /\ pc = "tool"
    /\ EffectOrNot
    /\ End(run_error)
    /\ UNCHANGED <<history, sent, calls, execs, ran, shown, expired, submitted>>

\* The deadline cancels a tool that waits.
tool_timeout ==
    /\ pc = "tool" /\ expired
    /\ EffectOrNot
    /\ End(timeout_error)
    /\ UNCHANGED <<history, sent, calls, execs, ran, shown, expired, submitted>>

-----------------------------------------------------------------------------
(* The answer *)

\* A reply without tools.
final_reply ==
    /\ pc = "model"
    /\ calls' = Append(calls, Call("final_answer", <<>>, 0))
    /\ \/ pc' = "answer" /\ UNCHANGED outcome
       \/ End(run_error)   \* no usable text, or a refusal
    /\ UNCHANGED <<history, sent, execs, ran, shown, expired, submitted, effects>>

\* output_text, the first message of the reply.
Answer == <<Len(sent), 1>>

\* What is not streamed is shown now; then every capability has its say.
answer ==
    /\ pc = "answer"
    /\ shown' = IF Streaming /\ StreamedNow = 0 THEN Append(shown, Answer) ELSE shown
    /\ IF finalize THEN End([Pending EXCEPT !.kind = "answered"]) ELSE End(run_error)
    /\ UNCHANGED <<history, sent, calls, execs, ran, expired, submitted, effects>>

SessionStep ==
    \/ remaining_timeout \/ send_model_request \/ dispatch \/ answer
ModelStep ==
    \/ output_delta \/ reply_timeout \/ no_reply \/ error_reply \/ malformed_reply \/ action_reply
    \/ final_reply
ToolStep == tool_done \/ tool_error \/ tool_timeout

Next == Expire \/ SessionStep \/ ModelStep \/ ToolStep

Spec == Init /\ [][Next]_vars

\* Time passes, the event loop runs the session and asyncio.timeout cancels what
\* waits too long.  The model and the tools may stay silent for ever.
Fairness ==
    /\ WF_vars(Expire)
    /\ WF_vars(SessionStep)
    /\ WF_vars(reply_timeout)
    /\ WF_vars(tool_timeout)

FairSpec == Spec /\ Fairness
-----------------------------------------------------------------------------
(* The stored trace: the first request and the replies, with the executions *)

\* _action_tool_call_count, for a call whose calls were not counted.
CountOf(c) == IF c.stage = "action_selection" /\ c.count = 0 THEN Len(c.requested) ELSE c.count
\* How many executions the calls before the n-th took.
ToolIndex[n \in 1 .. MaxModelCalls] ==
    IF n = 1 THEN 0 ELSE ToolIndex[n - 1] + CountOf(calls[n - 1])
CallTools_unmoved(n) ==
    SubSeq(execs, 1, IF CountOf(calls[n]) < Len(execs) THEN CountOf(calls[n]) ELSE Len(execs))
CallTools(n) ==
    LET end == ToolIndex[n] + CountOf(calls[n]) IN
    SubSeq(execs, ToolIndex[n] + 1, IF end < Len(execs) THEN end ELSE Len(execs))

Protocols == {"responses", "chat_completions"}

\* _next_request_body takes a reply from the stored response: its whole output, or
\* of a chat message the content and the calls without the reasoning.
WithoutReasoning(entry) == IF entry.kind = "reply" THEN [entry EXCEPT !.output = "none"] ELSE entry
StoredReply(protocol, n) ==
    IF protocol = "responses" THEN Reply(n) ELSE WithoutReasoning(Reply(n))
\* The calls of the response, each with the execution at its place, as far as
\* both go.
StoredOutputs(n) ==
    LET tools == CallTools(n) IN
    [k \in {i \in DOMAIN calls[n].requested : i <= Len(tools)} |-> Name(n, k, tools[k].output)]

\* The input of every request, from the first and the stored replies.
trace_model_calls(protocol) ==
    LET body[n \in 1 .. MaxModelCalls] ==
            IF n = 1 THEN sent[1]
            ELSE IF calls[n - 1].stage = "action_selection"
                 THEN body[n - 1] \o <<StoredReply(protocol, n - 1)>> \o StoredOutputs(n - 1)
                 ELSE body[n - 1]
    IN  body

-----------------------------------------------------------------------------
(* Properties *)

Entries == {Reply(n) : n \in 1 .. MaxModelCalls}
           \cup {Name(n, k, o) : n \in 1 .. MaxModelCalls, k \in 1 .. MaxParallel,
                               o \in {"ok", "input_error"}}

\* The type invariant; a reply that is under way is that of the last request.
TypeOK ==
    /\ pc \in {"request", "model", "dispatch", "tool", "answer", "done"}
    /\ history \in Seq(Entries) /\ sent \in Seq(Seq(Entries)) /\ execs \in Seq(Entries)
    /\ calls \in Seq([stage : {"error", "action_selection", "final_answer"},
                      requested : RequestedCalls, count : 0 .. MaxParallel])
    /\ ran \in 0 .. MaxParallel
    /\ shown \in Seq((1 .. MaxModelCalls) \X (1 .. MaxTexts))
    /\ expired \in BOOLEAN /\ submitted \in BOOLEAN /\ effects \in Nat
    /\ outcome \in [kind : {"pending", "error", "ended", "answered"},
                    provider : BOOLEAN, retryable : BOOLEAN, fatal : BOOLEAN]
    /\ pc = "done" <=> outcome.kind # "pending"
    /\ Len(sent) = Len(calls) + (IF pc = "model" THEN 1 ELSE 0) \/ pc = "done"
    /\ pc \in {"dispatch", "tool"} => ran < Len(Last.requested)

\* In every request each requested call is followed by its outputs, one for each
\* and in their order, as both protocols demand of a client.
Answered(h) ==
    \A j \in DOMAIN h : h[j].kind = "reply" =>
        LET n == h[j].call  c == Len(calls[n].requested) IN
        /\ j + c <= Len(h)
        /\ \A k \in 1 .. c : /\ h[j + k].kind = "output"
                            /\ h[j + k].call = n /\ h[j + k].index = k
        /\ \A i \in DOMAIN h : h[i].kind = "output" /\ h[i].call = n => i \in j + 1 .. j + c
CallsAreAnswered == \A i \in DOMAIN sent : Answered(sent[i])

\* The trace stores one request and still shows what every request was, also for
\* a session that failed between two tools of one reply: under the responses
\* protocol all of it, under chat completions all but the reasoning of the replies,
\* which was sent (_CHAT_REASONING_KEYS) and is not rebuilt.
Bare(h) == [j \in DOMAIN h |-> WithoutReasoning(h[j])]
Rebuildable(protocol, h) == IF protocol = "responses" THEN h ELSE Bare(h)
TraceRebuildsRequests ==
    \A protocol \in Protocols : \A n \in 1 .. Len(calls) :
        trace_model_calls(protocol)[n] = Rebuildable(protocol, sent[n])

\* A session that succeeds has not written anything the model was not told of;
\* one that must submit has submitted.
NoHiddenWrite ==
    outcome.kind \in {"ended", "answered"} =>
        /\ Submitting # {} => effects > 0
        /\ effects = Cardinality({i \in DOMAIN execs :
                  /\ execs[i].output = "ok"
                  /\ calls[execs[i].call].requested[execs[i].index] \in Submitting})

\* The text the listener is left with begins with the answer that is stored, and
\* holds nothing of an earlier reply.
ShownIsAnswer ==
    outcome.kind = "answered" /\ Streaming =>
        shown # <<>> /\ Head(shown) = Answer /\ \A i \in DOMAIN shown : shown[i][1] = Len(sent)

\* A terminal tool that succeeded was the only one of its reply and the last one
\* of the session: nothing is asked or run after it.
TerminalEnds ==
    [][(\E i \in DOMAIN execs : execs[i].output = "ok"
            /\ calls[execs[i].call].requested[execs[i].index] \in Terminal)
       => sent' = sent /\ execs' = execs]_vars
TerminalAlone ==
    \A i \in DOMAIN execs :
        calls[execs[i].call].requested[execs[i].index] \in Terminal
        => calls[execs[i].call].count = 1

\* After the deadline no request is sent and no tool is started.
NothingStartsLate ==
    [][expired => sent' = sent /\ (pc' = "tool" => pc = "tool")]_vars

\* A session with a deadline ends, whatever the model and the tools do.
SessionEnds == HasDeadline ~> (pc = "done")

\* The conversation is one that both protocols accept, and a session that ends
\* well has told the model of everything that was written.
SessionIsSound == CallsAreAnswered /\ TerminalAlone /\ NoHiddenWrite

\* Nothing begins behind the deadline or a terminal tool that succeeded.
NothingBeginsAfter == NothingStartsLate /\ TerminalEnds

\* What is kept of a session is what happened: the trace shows every request,
\* the listener shows the answer that is stored.
StoredIsTrue == TraceRebuildsRequests /\ ShownIsAnswer
=============================================================================
