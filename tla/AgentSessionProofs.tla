------------------------- MODULE AgentSessionProofs -------------------------
(***************************************************************************)
(* Theorems about AgentSession, for all tools and any number of requests,  *)
(* of tools asked for together and of text messages: its types, the        *)
(* conversation both protocols accept, the writes the model is told of,    *)
(* the trace that rebuilds every request, the text that is shown, and that *)
(* nothing begins after the deadline or the end.                           *)
(***************************************************************************)
EXTENDS AgentSession, FiniteSetTheorems, SequenceTheorems, WellFoundedInduction, TLAPS

Going == pc \in {"request", "model", "dispatch", "tool"}

\* A reply whose tools are executed.
Whole(c) == /\ c.stage = "action_selection" /\ c.requested # <<>>
            /\ c.count = Len(c.requested) /\ AllowedTogether(c.requested)
LoopIsSound ==
    /\ pc \in {"dispatch", "tool", "answer"} => calls # <<>>
    /\ Len(calls) <= Len(sent) /\ Len(sent) <= Len(calls) + 1 /\ Len(sent) <= MaxModelCalls
    /\ \A n \in DOMAIN calls : n < Len(calls) \/ Going => Whole(calls[n])

\* How many tools of the n-th reply were executed; where they are among all.
Ran(n) == IF n < Len(calls) \/ pc \in {"request", "model"} THEN Len(calls[n].requested)
          ELSE IF pc \in {"dispatch", "tool"} THEN ran ELSE 0
ToolOf(i) == calls[execs[i].call].requested[execs[i].index]
ExecsAreSound ==
    /\ \A n \in DOMAIN calls :
          /\ ToolIndex[n] \in Nat /\ ToolIndex[n] + Ran(n) <= Len(execs)
          /\ \A k \in 1 .. Ran(n) : /\ execs[ToolIndex[n] + k].kind = "output"
                                   /\ execs[ToolIndex[n] + k].call = n
                                   /\ execs[ToolIndex[n] + k].index = k
    /\ Going => Len(execs) = IF calls = <<>> THEN 0
                             ELSE ToolIndex[Len(calls)] + Ran(Len(calls))
    /\ \A i \in DOMAIN execs :
          /\ execs[i].kind = "output" /\ execs[i].call \in DOMAIN calls
          /\ execs[i].index \in DOMAIN calls[execs[i].call].requested
          /\ Whole(calls[execs[i].call])

\* The request after the n-th reply.
OutputsOf(n) == SubSeq(execs, ToolIndex[n] + 1, ToolIndex[n] + Len(calls[n].requested))
RequestsAreSound ==
    /\ \A n \in DOMAIN sent : n < Len(sent) => sent[n + 1] = sent[n] \o Continuation(n, OutputsOf(n))
    /\ pc \in {"model", "dispatch", "tool"} => history = sent[Len(sent)]
    /\ pc = "request" =>
          history = IF calls = <<>> THEN <<>>
                    ELSE sent[Len(calls)] \o Continuation(Len(calls), OutputsOf(Len(calls)))
    /\ \A n \in DOMAIN sent : Answered(sent[n]) /\ \A j \in DOMAIN sent[n] : sent[n][j].call \in 1 .. n - 1
    /\ pc = "request" => Answered(history) /\ \A j \in DOMAIN history : history[j].call \in DOMAIN calls

Written == {i \in DOMAIN execs : execs[i].output = "ok" /\ ToolOf(i) \in Submitting}
WritesAreSound ==
    /\ pc # "done" \/ outcome.kind \in {"ended", "answered"} => effects = Cardinality(Written)
    /\ submitted => effects > 0
    /\ outcome.kind \in {"ended", "answered"} => finalize
    /\ pc # "done" => \A i \in DOMAIN execs : execs[i].output = "ok" => ToolOf(i) \notin Terminal

ShowsTheReply ==
    /\ pc \in {"request", "dispatch", "tool"} => shown = <<>>
    /\ pc \in {"model", "answer"} => \A i \in DOMAIN shown : shown[i] = <<Len(sent), i>>
    /\ pc \in {"model", "answer"} => Len(shown) <= MaxTexts

Inv == /\ TypeOK /\ LoopIsSound /\ ExecsAreSound /\ RequestsAreSound /\ WritesAreSound
       /\ ShowsTheReply /\ ShownIsAnswer
-----------------------------------------------------------------------------
(* The recursive functions of the stored trace.                              *)

\* A set of numbers has a smallest one.
LEMMA SmallestOf ==
    ASSUME NEW T \in SUBSET Nat, T # {}
    PROVE  \E n \in T : \A m \in T : n <= m
<1> DEFINE Below == {0 .. n : n \in T}
<1>1. Below \subseteq FiniteSubsetsOf(Nat) /\ Below # {}
  <2>1. \A n \in T : 0 .. n \in SUBSET Nat /\ IsFiniteSet(0 .. n)
    BY FS_Interval
  <2> QED BY <2>1 DEF FiniteSubsetsOf
<1>2. IsWellFoundedOn(StrictSubsetOrdering(Nat), FiniteSubsetsOf(Nat))
  BY FS_StrictSubsetOrderingWellFounded
<1>3. PICK B \in Below : \A C \in Below : <<C, B>> \notin StrictSubsetOrdering(Nat)
  <2> HIDE DEF Below
  <2> QED BY <1>1, <1>2, WFMin
<1>4. PICK n \in T : B = 0 .. n
  OBVIOUS
<1>5. ASSUME NEW m \in T, m < n PROVE FALSE
  <2>1. 0 .. m \in Below /\ 0 .. m \subseteq 0 .. n /\ 0 .. m # 0 .. n
    BY <1>5
  <2>2. <<0 .. m, B>> \in StrictSubsetOrdering(Nat)
    BY <1>4, <2>1 DEF StrictSubsetOrdering
  <2> QED BY <1>3, <2>1, <2>2
<1> QED BY <1>5

\* ToolIndex is a function: a smallest n without one would have a predecessor's,
\* continued by its own definition.
LEMMA IndexIs ==
    ToolIndex = [n \in 1 .. MaxModelCalls |->
                    IF n = 1 THEN 0 ELSE ToolIndex[n - 1] + CountOf(calls[n - 1])]
<1> DEFINE Is(f, m) == f = [n \in 1 .. m |-> IF n = 1 THEN 0 ELSE f[n - 1] + CountOf(calls[n - 1])]
           T == {m \in Nat : m > 0 /\ ~ \E f : Is(f, m)}
<1>1. T = {}
  <2> SUFFICES ASSUME T # {} PROVE FALSE
    OBVIOUS
  <2>1. PICK m \in T : \A k \in T : m <= k
    <3>1. T \in SUBSET Nat
      OBVIOUS
    <3> HIDE DEF T
    <3> QED BY <3>1, SmallestOf
  <2>2. CASE m = 1
    <3>1. Is([n \in 1 .. 1 |-> 0], 1)
      OBVIOUS
    <3> QED BY <2>1, <2>2, <3>1
  <2>3. CASE m # 1
    <3>1. m \in Nat /\ m - 1 \in Nat /\ m - 1 > 0 /\ m - 1 \notin T
      <4>1. m \in Nat /\ m > 0
        BY <2>1
      <4>2. ~(m <= m - 1)
        BY <4>1
      <4>3. m - 1 \notin T
        <5> HIDE DEF T
        <5> QED BY <2>1, <4>2
      <4> HIDE DEF T
      <4> QED BY <2>3, <4>1, <4>3
    <3>2. PICK f : Is(f, m - 1)
      BY <3>1
    <3> DEFINE g == [n \in 1 .. m |-> IF n = m THEN f[m - 1] + CountOf(calls[m - 1]) ELSE f[n]]
    <3>3. \A n \in 1 .. m : g[n] = IF n = 1 THEN 0 ELSE g[n - 1] + CountOf(calls[n - 1])
      <4> TAKE n \in 1 .. m
      <4>1. CASE n = m
        BY <2>3, <3>1, <4>1
      <4>2. CASE n # m
        <5>1. n \in 1 .. m - 1 /\ g[n] = f[n] /\ (n # 1 => n - 1 \in 1 .. m /\ n - 1 # m /\ g[n - 1] = f[n - 1])
          BY <3>1, <4>2
        <5>2. f[n] = IF n = 1 THEN 0 ELSE f[n - 1] + CountOf(calls[n - 1])
          BY <3>2, <5>1
        <5> QED BY <5>1, <5>2
      <4> QED BY <4>1, <4>2
    <3>4. Is(g, m)
      BY <3>3
    <3> QED BY <2>1, <3>4
  <2> QED BY <2>2, <2>3
<1>2. MaxModelCalls \in Nat /\ MaxModelCalls > 0
  BY ConstantsAssumption
<1>3. \E f : Is(f, MaxModelCalls)
  BY <1>1, <1>2
<1> QED BY <1>3 DEF ToolIndex

\* A request after a stored reply; so is what is rebuilt a function, in the same way.
NextBody(protocol, before, n) ==
    IF calls[n].stage = "action_selection"
    THEN before \o <<StoredReply(protocol, n)>> \o StoredOutputs(n) ELSE before
LEMMA RebuiltIs ==
    ASSUME NEW protocol
    PROVE  trace_model_calls(protocol) = [n \in 1 .. MaxModelCalls |->
               IF n = 1 THEN sent[1]
               ELSE NextBody(protocol, trace_model_calls(protocol)[n - 1], n - 1)]
<1> DEFINE After(f, n) == NextBody(protocol, f[n - 1], n - 1)
           Is(f, m) == f = [n \in 1 .. m |-> IF n = 1 THEN sent[1] ELSE After(f, n)]
           T == {m \in Nat : m > 0 /\ ~ \E f : Is(f, m)}
<1>1. T = {}
  <2> SUFFICES ASSUME T # {} PROVE FALSE
    OBVIOUS
  <2>1. PICK m \in T : \A k \in T : m <= k
    <3>1. T \in SUBSET Nat
      OBVIOUS
    <3> HIDE DEF T
    <3> QED BY <3>1, SmallestOf
  <2>2. CASE m = 1
    <3>1. Is([n \in 1 .. 1 |-> sent[1]], 1)
      OBVIOUS
    <3> QED BY <2>1, <2>2, <3>1
  <2>3. CASE m # 1
    <3>1. m \in Nat /\ m - 1 \in Nat /\ m - 1 > 0 /\ m - 1 \notin T
      <4>1. m \in Nat /\ m > 0
        BY <2>1
      <4>2. ~(m <= m - 1)
        BY <4>1
      <4>3. m - 1 \notin T
        <5> HIDE DEF T
        <5> QED BY <2>1, <4>2
      <4> HIDE DEF T
      <4> QED BY <2>3, <4>1, <4>3
    <3>2. PICK f : Is(f, m - 1)
      BY <3>1
    <3> DEFINE g == [n \in 1 .. m |-> IF n = m THEN After(f, m) ELSE f[n]]
    <3>3. \A n \in 1 .. m : g[n] = IF n = 1 THEN sent[1] ELSE After(g, n)
      <4> TAKE n \in 1 .. m
      <4>1. CASE n = m
        BY <2>3, <3>1, <4>1
      <4>2. CASE n # m
        <5>1. n \in 1 .. m - 1 /\ g[n] = f[n] /\ (n # 1 => n - 1 \in 1 .. m /\ n - 1 # m /\ g[n - 1] = f[n - 1])
          BY <3>1, <4>2
        <5>2. f[n] = IF n = 1 THEN sent[1] ELSE After(f, n)
          BY <3>2, <5>1
        <5> QED BY <5>1, <5>2
      <4> QED BY <4>1, <4>2
    <3>4. Is(g, m)
      BY <3>3
    <3> QED BY <2>1, <3>4
  <2> QED BY <2>2, <2>3
<1>2. MaxModelCalls \in Nat /\ MaxModelCalls > 0
  BY ConstantsAssumption
<1>3. \E f : Is(f, MaxModelCalls)
  BY <1>1, <1>2
<1> QED BY <1>3 DEF trace_model_calls, NextBody

\* Where the executions of a reply begin does not depend on later replies.
LEMMA IndexSteps ==
    ASSUME NEW n \in 1 .. MaxModelCalls
    PROVE  ToolIndex[n] = IF n = 1 THEN 0 ELSE ToolIndex[n - 1] + CountOf(calls[n - 1])
BY IndexIs

LEMMA IndexStable ==
    ASSUME NEW N \in Nat, DOMAIN calls = 1 .. N, \A n \in 1 .. N : calls'[n] = calls[n]
    PROVE  \A n \in 1 .. MaxModelCalls : n <= N + 1 => ToolIndex'[n] = ToolIndex[n]
<1> DEFINE T == {n \in Nat : n \in 1 .. MaxModelCalls /\ n <= N + 1 /\ ToolIndex'[n] # ToolIndex[n]}
<1>1. SUFFICES ASSUME T # {} PROVE FALSE
  BY ConstantsAssumption
<1>2. PICK m \in T : \A k \in T : m <= k
  <2>1. T \in SUBSET Nat
    OBVIOUS
  <2> HIDE DEF T
  <2> QED BY <1>1, <2>1, SmallestOf
<1>3. ToolIndex' = [n \in 1 .. MaxModelCalls |->
                      IF n = 1 THEN 0 ELSE ToolIndex'[n - 1] + CountOf(calls'[n - 1])]
  <2>1. (ToolIndex = [n \in 1 .. MaxModelCalls |->
                        IF n = 1 THEN 0 ELSE ToolIndex[n - 1] + CountOf(calls[n - 1])])'
    BY IndexIs, PTL
  <2> QED BY <2>1
<1>4. m \in 1 .. MaxModelCalls /\ m \in Nat /\ m <= N + 1 /\ ToolIndex'[m] # ToolIndex[m]
  BY <1>2
<1>5. CASE m = 1
  BY <1>3, <1>4, <1>5, IndexSteps
<1>6. CASE m # 1
  <2>1. m - 1 \in 1 .. MaxModelCalls /\ m - 1 \in 1 .. N /\ m - 1 \in Nat /\ m - 1 <= N + 1
        /\ ~(m <= m - 1)
    BY <1>4, <1>6, ConstantsAssumption
  <2>2. m - 1 \notin T
    <3> HIDE DEF T
    <3> QED BY <1>2, <2>1
  <2>3. ToolIndex'[m - 1] = ToolIndex[m - 1] /\ calls'[m - 1] = calls[m - 1]
    BY <2>1, <2>2
  <2> QED BY <1>3, <1>4, <1>6, <2>3, IndexSteps
<1> QED BY <1>5, <1>6

-----------------------------------------------------------------------------
(* Replies, their outputs and the requests that hold them. *)

LEMMA RequestedIs ==
    ASSUME NEW c \in RequestedCalls
    PROVE  /\ c \in Seq(Tools \cup {NotATool}) /\ Len(c) \in 0 .. MaxParallel
           /\ DOMAIN c = 1 .. Len(c) /\ (c # <<>> => Len(c) > 0)
<1>1. PICK n \in 0 .. MaxParallel : c \in [1 .. n -> Tools \cup {NotATool}]
  BY DEF RequestedCalls
<1>2. n \in Nat
  BY <1>1, ConstantsAssumption
<1>3. c \in Seq(Tools \cup {NotATool}) /\ Len(c) = n /\ DOMAIN c = 1 .. n
  BY <1>1, <1>2
<1> QED BY <1>1, <1>3, EmptySeq

LEMMA EntryFields ==
    /\ \A n : Reply(n).kind = "reply" /\ Reply(n).call = n /\ Reply(n).output = "reasoning"
    /\ \A n, k, o : /\ Name(n, k, o).kind = "output" /\ Name(n, k, o).call = n
                    /\ Name(n, k, o).index = k /\ Name(n, k, o).output = o
BY DEF Reply, Name

GoesOn(H, h, n, outs) == H = h \o Continuation(n, outs)

ReplyFollows(S, H, h, n, outs) ==
    /\ H \in Seq(S) /\ Len(H) = Len(h) + 1 + Len(outs)
    /\ \A j \in 1 .. Len(h) : H[j] = h[j]
    /\ H[Len(h) + 1] = Reply(n)
    /\ \A k \in 1 .. Len(outs) : H[Len(h) + 1 + k] = outs[k]

\* A request followed by a reply and its outputs.
LEMMA ContinuationIs ==
    ASSUME NEW S, NEW h \in Seq(S), NEW n, NEW outs \in Seq(S), Reply(n) \in S,
           NEW H, GoesOn(H, h, n, outs)
    PROVE  ReplyFollows(S, H, h, n, outs)
<1> DEFINE c == Continuation(n, outs)
<1>1. <<Reply(n)>> \in Seq(S) /\ Len(<<Reply(n)>>) = 1 /\ <<Reply(n)>>[1] = Reply(n)
  OBVIOUS
<1>2. Len(h) \in Nat /\ Len(outs) \in Nat
  OBVIOUS
<1>3. /\ c \in Seq(S) /\ Len(c) = 1 + Len(outs)
      /\ \A i \in 1 .. 1 + Len(outs) : c[i] = IF i <= 1 THEN Reply(n) ELSE outs[i - 1]
  BY <1>1, ConcatProperties DEF Continuation
<1> HIDE DEF c
<1>4. /\ h \o c \in Seq(S) /\ Len(h \o c) = Len(h) + Len(c)
      /\ \A i \in 1 .. Len(h) + Len(c) : (h \o c)[i] = IF i <= Len(h) THEN h[i] ELSE c[i - Len(h)]
  BY <1>3, ConcatProperties
<1>5. \A j \in 1 .. Len(h) : (h \o c)[j] = h[j]
  BY <1>2, <1>3, <1>4
<1>6. (h \o c)[Len(h) + 1] = Reply(n)
  <2>1. Len(h) + 1 \in 1 .. Len(h) + Len(c) /\ ~(Len(h) + 1 <= Len(h)) /\ Len(h) + 1 - Len(h) = 1
    BY <1>2, <1>3
  <2> QED BY <1>2, <1>3, <1>4, <2>1
<1>7. ASSUME NEW k \in 1 .. Len(outs) PROVE (h \o c)[Len(h) + 1 + k] = outs[k]
  <2>1. /\ Len(h) + 1 + k \in 1 .. Len(h) + Len(c) /\ ~(Len(h) + 1 + k <= Len(h))
        /\ Len(h) + 1 + k - Len(h) = 1 + k /\ 1 + k \in 1 .. 1 + Len(outs) /\ ~(1 + k <= 1)
        /\ 1 + k - 1 = k
    BY <1>2, <1>3
  <2> QED BY <1>3, <1>4, <2>1
<1>8. Len(h \o c) = Len(h) + 1 + Len(outs)
  BY <1>2, <1>3, <1>4
<1>9. H = h \o c
  BY DEF GoesOn, c
<1> QED BY ONLY <1>4, <1>5, <1>6, <1>7, <1>8, <1>9 DEF ReplyFollows

Followed(L, M, h, H, n) ==
    /\ DOMAIN h = 1 .. L /\ Len(h) = L /\ DOMAIN H = 1 .. L + 1 + M /\ Len(H) = L + 1 + M
    /\ \A j \in 1 .. L : H[j] = h[j] /\ h[j].call \in 1 .. n - 1
    /\ \A m \in 1 .. n : Len(calls[m].requested) \in Nat
    /\ Len(calls[n].requested) = M
    /\ H[L + 1].kind = "reply" /\ H[L + 1].call = n
    /\ \A k \in 1 .. M : /\ H[L + 1 + k].kind = "output" /\ H[L + 1 + k].call = n
                         /\ H[L + 1 + k].index = k

\* A sequence H that goes on from h with a reply and its M outputs, seen as a
\* function, answers every call when h did; c(m) tools were asked for in reply m.
LEMMA FollowedAnswers ==
    ASSUME NEW L \in Nat, NEW M \in Nat, NEW h, NEW H, NEW n \in Nat, n > 0,
           Answered(h), Followed(L, M, h, H, n)
    PROVE  Answered(H) /\ \A j \in DOMAIN H : H[j].call \in 1 .. n
<1> USE DEF Followed
<1>0. DOMAIN H = 1 .. L + 1 + M
  OBVIOUS
<1>1. \A j \in 1 .. L + 1 + M : j \in 1 .. L \/ j = L + 1 \/ \E k \in 1 .. M : j = L + 1 + k
  <2> TAKE j \in 1 .. L + 1 + M
  <2>1. CASE j > L + 1
    <3>1. j - (L + 1) \in 1 .. M /\ j = L + 1 + (j - (L + 1))
      BY <2>1
    <3> QED BY <3>1
  <2> QED BY <2>1
<1>2. \A j \in 1 .. L : H[j].call \in 1 .. n - 1 /\ H[j].call # n
  <2> TAKE j \in 1 .. L
  <2>1. H[j].call \in 1 .. n - 1
    OBVIOUS
  <2> QED BY <2>1
<1>3. \A j \in DOMAIN H : H[j].call \in 1 .. n
  <2> SUFFICES ASSUME NEW j \in DOMAIN H PROVE H[j].call \in 1 .. n
    OBVIOUS
  <2>1. n \in 1 .. n /\ 1 .. n - 1 \subseteq 1 .. n
    OBVIOUS
  <2>2. CASE j \in 1 .. L
    BY <1>2, <2>1, <2>2
  <2>3. CASE j = L + 1
    BY <2>1, <2>3
  <2>4. ASSUME NEW k \in 1 .. M, j = L + 1 + k PROVE H[j].call \in 1 .. n
    BY <2>1, <2>4
  <2> QED BY ONLY <1>1, <2>2, <2>3, <2>4, j \in DOMAIN H, <1>0
<1>4. ASSUME NEW j \in DOMAIN H, H[j].kind = "reply", NEW m, m = H[j].call
      PROVE  /\ j + Len(calls[m].requested) <= Len(H)
             /\ \A k \in 1 .. Len(calls[m].requested) :
                   /\ H[j + k].kind = "output" /\ H[j + k].call = m /\ H[j + k].index = k
             /\ \A i \in DOMAIN H : H[i].kind = "output" /\ H[i].call = m
                   => i \in j + 1 .. j + Len(calls[m].requested)
  <2>1. CASE j \in 1 .. L
    <3>1. j \in DOMAIN h /\ H[j] = h[j] /\ m # n /\ h[j].kind = "reply" /\ h[j].call = m
      BY <1>2, <1>4, <2>1
    <3>2. PICK c : c = Len(calls[m].requested)
      OBVIOUS
    <3>3. /\ j + c <= L
          /\ \A k \in 1 .. c : h[j + k].kind = "output" /\ h[j + k].call = m /\ h[j + k].index = k
          /\ \A i \in DOMAIN h : h[i].kind = "output" /\ h[i].call = m => i \in j + 1 .. j + c
      <4>1. LET q == h[j].call IN
            /\ j + Len(calls[q].requested) <= Len(h)
            /\ \A k \in 1 .. Len(calls[q].requested) :
                  /\ h[j + k].kind = "output" /\ h[j + k].call = q /\ h[j + k].index = k
            /\ \A i \in DOMAIN h : h[i].kind = "output" /\ h[i].call = q
                  => i \in j + 1 .. j + Len(calls[q].requested)
        BY ONLY <3>1, Answered(h) DEF Answered
      <4>2. Len(h) = L /\ h[j].call = m
        BY <3>1
      <4> QED BY ONLY <3>2, <4>1, <4>2
    <3>4. c \in Nat /\ j \in Nat
      BY <2>1, <1>4, <3>1, <3>2
    <3>5. \A k \in 1 .. c : j + k \in 1 .. L
      BY <2>1, <3>3, <3>4
    <3>6. \A i \in DOMAIN H : H[i].call = m => i \in 1 .. L
      <4> SUFFICES ASSUME NEW i \in DOMAIN H, H[i].call = m, i \notin 1 .. L PROVE FALSE
        OBVIOUS
      <4>1. CASE i = L + 1
        BY <3>1, <4>1
      <4>2. ASSUME NEW k \in 1 .. M, i = L + 1 + k PROVE FALSE
        BY <3>1, <4>2
      <4> QED BY ONLY <1>1, <4>1, <4>2, i \in DOMAIN H, i \notin 1 .. L, <1>0
    <3>7. j + c <= L + 1 + M
      BY <3>3, <3>4
    <3>8. \A k \in 1 .. c : H[j + k].kind = "output" /\ H[j + k].call = m /\ H[j + k].index = k
      BY <3>3, <3>5
    <3>9. \A i \in DOMAIN H : H[i].kind = "output" /\ H[i].call = m => i \in j + 1 .. j + c
      BY <3>3, <3>6
    <3> QED BY <3>2, <3>7, <3>8, <3>9
  <2>2. CASE j = L + 1
    <3>1. m = n /\ Len(calls[m].requested) = M
      BY <1>4, <2>2
    <3>2. ASSUME NEW i \in DOMAIN H, H[i].kind = "output", H[i].call = n
          PROVE  i \in L + 1 + 1 .. L + 1 + M
      <4>1. i \notin 1 .. L /\ i # L + 1
        BY <1>2, <3>2
      <4>2. PICK k \in 1 .. M : i = L + 1 + k
        BY ONLY <1>1, <4>1, i \in DOMAIN H, <1>0
      <4> QED BY <4>2
    <3>3. j + M <= Len(H)
      BY <2>2
    <3>4. \A k \in 1 .. M : /\ H[j + k].kind = "output" /\ H[j + k].call = m
                            /\ H[j + k].index = k
      BY <2>2, <3>1
    <3>5. \A i \in DOMAIN H : H[i].kind = "output" /\ H[i].call = m => i \in j + 1 .. j + M
      BY <2>2, <3>1, <3>2
    <3> QED BY ONLY <3>1, <3>3, <3>4, <3>5
  <2>3. ASSUME NEW k \in 1 .. M, j = L + 1 + k PROVE FALSE
    BY <1>4, <2>3
  <2> QED BY ONLY <1>1, <2>1, <2>2, <2>3, j \in DOMAIN H, <1>0
<1> QED BY <1>3, <1>4 DEF Answered

\* Such a request answers every call when the former one did.
LEMMA ContinuationAnswers ==
    ASSUME NEW S, NEW h \in Seq(S), NEW n \in Nat, NEW outs \in Seq(S), Reply(n) \in S,
           Answered(h), \A j \in DOMAIN h : h[j].call \in 1 .. n - 1,
           \A m \in 1 .. n : Len(calls[m].requested) \in Nat,
           Len(outs) = Len(calls[n].requested), n > 0,
           \A k \in DOMAIN outs : outs[k].kind = "output" /\ outs[k].call = n /\ outs[k].index = k,
           NEW H, GoesOn(H, h, n, outs)
    PROVE  Answered(H) /\ \A j \in DOMAIN H : H[j].call \in 1 .. n
<1>1. PICK L \in Nat : L = Len(h) /\ DOMAIN h = 1 .. L
  OBVIOUS
<1>2. PICK M \in Nat : M = Len(outs) /\ DOMAIN outs = 1 .. M
  OBVIOUS
<1>3. /\ H \in Seq(S) /\ Len(H) = Len(h) + 1 + Len(outs)
      /\ \A j \in 1 .. Len(h) : H[j] = h[j]
      /\ H[Len(h) + 1] = Reply(n)
      /\ \A k \in 1 .. Len(outs) : H[Len(h) + 1 + k] = outs[k]
  <2>1. ReplyFollows(S, H, h, n, outs)
    BY ONLY GoesOn(H, h, n, outs), h \in Seq(S), outs \in Seq(S), Reply(n) \in S, ContinuationIs
  <2> QED BY ONLY <2>1 DEF ReplyFollows
<1>4. Len(H) = L + 1 + M /\ DOMAIN H = 1 .. L + 1 + M
  BY <1>1, <1>2, <1>3
<1>5. Reply(n).kind = "reply" /\ Reply(n).call = n
  BY EntryFields
<1>6. H[L + 1].kind = "reply" /\ H[L + 1].call = n
  BY <1>1, <1>3, <1>5
<1>7. \A j \in 1 .. L : H[j] = h[j] /\ h[j].call \in 1 .. n - 1
  BY <1>1, <1>3
<1>8. \A k \in 1 .. M : H[L + 1 + k] = outs[k]
  BY <1>1, <1>2, <1>3
<1>9. \A k \in 1 .. M : /\ H[L + 1 + k].kind = "output" /\ H[L + 1 + k].call = n
                        /\ H[L + 1 + k].index = k
  BY ONLY <1>2, <1>8, \A k \in DOMAIN outs : outs[k].kind = "output" /\ outs[k].call = n /\ outs[k].index = k
<1>10. Len(h) = L /\ DOMAIN h = 1 .. L /\ Len(calls[n].requested) = M
  BY <1>1, <1>2
<1>11. Followed(L, M, h, H, n)
  <2>1. \A m \in 1 .. n : Len(calls[m].requested) \in Nat
    OBVIOUS
  <2> QED BY ONLY <1>4, <1>6, <1>7, <1>9, <1>10, <2>1 DEF Followed
<1> QED BY ONLY <1>1, <1>2, <1>11, n \in Nat, n > 0, Answered(h), FollowedAnswers

-----------------------------------------------------------------------------
(* The conversation: calls, executions and requests. *)

LEMMA IndexSame == ASSUME calls' = calls PROVE ToolIndex' = ToolIndex
BY DEF ToolIndex, CountOf

LEMMA CallsAre ==
    ASSUME TypeOK
    PROVE  /\ Len(calls) \in Nat /\ DOMAIN calls = 1 .. Len(calls)
           /\ Len(sent) \in Nat /\ DOMAIN sent = 1 .. Len(sent)
           /\ Len(execs) \in Nat /\ DOMAIN execs = 1 .. Len(execs)
           /\ \A n \in DOMAIN calls :
                 /\ calls[n].requested \in RequestedCalls
                 /\ Len(calls[n].requested) \in 0 .. MaxParallel
                 /\ Len(calls[n].requested) \in Nat
                 /\ DOMAIN calls[n].requested = 1 .. Len(calls[n].requested)
                 /\ Whole(calls[n]) => /\ CountOf(calls[n]) = Len(calls[n].requested)
                                       /\ Len(calls[n].requested) > 0
<1>1. /\ Len(calls) \in Nat /\ DOMAIN calls = 1 .. Len(calls)
      /\ Len(sent) \in Nat /\ DOMAIN sent = 1 .. Len(sent)
      /\ Len(execs) \in Nat /\ DOMAIN execs = 1 .. Len(execs)
  BY DEF TypeOK
<1>2. ASSUME NEW n \in DOMAIN calls
      PROVE  /\ calls[n].requested \in RequestedCalls
             /\ Len(calls[n].requested) \in 0 .. MaxParallel
             /\ Len(calls[n].requested) \in Nat
             /\ DOMAIN calls[n].requested = 1 .. Len(calls[n].requested)
             /\ Whole(calls[n]) => /\ CountOf(calls[n]) = Len(calls[n].requested)
                                   /\ Len(calls[n].requested) > 0
  <2>1. calls[n] \in [stage : {"error", "action_selection", "final_answer"},
                      requested : RequestedCalls, count : 0 .. MaxParallel]
    <3> DEFINE R == [stage : {"error", "action_selection", "final_answer"},
                     requested : RequestedCalls, count : 0 .. MaxParallel]
    <3>1. calls \in Seq(R)
      BY DEF TypeOK
    <3> HIDE DEF R
    <3>2. calls[n] \in R
      BY <1>1, <1>2, <3>1
    <3> QED BY <3>2 DEF R
  <2>2. calls[n].requested \in RequestedCalls
    BY <2>1
  <2>3. PICK c \in RequestedCalls : c = calls[n].requested
    BY <2>2
  <2>4. /\ Len(c) \in 0 .. MaxParallel /\ Len(c) \in Nat /\ DOMAIN c = 1 .. Len(c)
        /\ (c # <<>> => Len(c) > 0)
    BY RequestedIs
  <2>5. Whole(calls[n]) => CountOf(calls[n]) = Len(c) /\ Len(c) > 0
    BY <2>3, <2>4 DEF Whole, CountOf
  <2> QED BY <2>3, <2>4, <2>5
<1> QED BY <1>1, <1>2

\* Nothing but the place in the loop changes, or the session ends.
LEMMA SameConversation ==
    ASSUME TypeOK, LoopIsSound, ExecsAreSound, RequestsAreSound, UNCHANGED <<sent, calls, execs>>,
           \/ pc' = "done"
           \/ UNCHANGED <<pc, ran, history>>
           \/ pc = "dispatch" /\ pc' = "tool" /\ UNCHANGED <<ran, history>>
    PROVE  LoopIsSound' /\ ExecsAreSound' /\ RequestsAreSound'
<1>1. ToolIndex' = ToolIndex
  BY IndexSame
<1>2. LoopIsSound'
  BY DEF LoopIsSound, Going, Whole, AllowedTogether
<1>3. /\ \A n \in DOMAIN calls : Ran(n)' = Ran(n) \/ Ran(n)' = 0
      /\ pc' # "done" => \A n \in DOMAIN calls : Ran(n)' = Ran(n)
  BY DEF Ran
<1>4. ExecsAreSound'
  <2>1. ASSUME NEW n \in DOMAIN calls
        PROVE  /\ ToolIndex[n] \in Nat /\ ToolIndex[n] + Ran(n)' <= Len(execs)
               /\ \A k \in 1 .. Ran(n)' : /\ execs[ToolIndex[n] + k].kind = "output"
                                         /\ execs[ToolIndex[n] + k].call = n
                                         /\ execs[ToolIndex[n] + k].index = k
    <3>1. /\ ToolIndex[n] \in Nat /\ ToolIndex[n] + Ran(n) <= Len(execs)
          /\ \A k \in 1 .. Ran(n) : /\ execs[ToolIndex[n] + k].kind = "output"
                                    /\ execs[ToolIndex[n] + k].call = n
                                    /\ execs[ToolIndex[n] + k].index = k
      BY <2>1 DEF ExecsAreSound
    <3>2. Ran(n) \in Nat
      BY CallsAre, <2>1 DEF Ran, TypeOK
    <3>3. Ran(n)' = Ran(n) \/ Ran(n)' = 0
      BY <1>3, <2>1
    <3>4. Len(execs) \in Nat
      BY CallsAre
    <3>5. CASE Ran(n)' = Ran(n)
      BY <3>1, <3>5
    <3>6. CASE Ran(n)' = 0
      BY <3>1, <3>2, <3>4, <3>6
    <3> QED BY <3>3, <3>5, <3>6
  <2>2. Going' => Len(execs) = IF calls = <<>> THEN 0
                               ELSE ToolIndex[Len(calls)] + Ran(Len(calls))'
    <3>1. calls # <<>> => Len(calls) \in DOMAIN calls
      BY CallsAre, EmptySeq DEF TypeOK
    <3>2. Going' => Going /\ pc' # "done"
      BY DEF Going
    <3>3. Going => Len(execs) = IF calls = <<>> THEN 0
                                ELSE ToolIndex[Len(calls)] + Ran(Len(calls))
      BY DEF ExecsAreSound
    <3>4. \A n \in DOMAIN calls : pc' # "done" => Ran(n)' = Ran(n)
      BY <1>3
    <3>5. PICK N : N = Len(calls)
      OBVIOUS
    <3>6. N \in DOMAIN calls /\ pc' # "done" => Ran(Len(calls))' = Ran(N)
      <4>1. Ran(Len(calls))' = Ran(N)'
        BY <3>5 DEF Ran
      <4> QED BY <3>4, <4>1
    <3> QED BY <3>1, <3>2, <3>3, <3>5, <3>6
  <2>3. \A i \in DOMAIN execs :
          /\ execs[i].kind = "output" /\ execs[i].call \in DOMAIN calls
          /\ execs[i].index \in DOMAIN calls[execs[i].call].requested
          /\ Whole(calls[execs[i].call])
    BY DEF ExecsAreSound
  <2> QED BY <1>1, <2>1, <2>2, <2>3 DEF ExecsAreSound, Whole, AllowedTogether
<1>5. RequestsAreSound'
  <2>1. \A n : OutputsOf(n)' = OutputsOf(n)
    BY <1>1 DEF OutputsOf
  <2>2. \A h : Answered(h)' = Answered(h)
    BY DEF Answered
  <2>3. /\ \A n \in DOMAIN sent : n < Len(sent) => sent[n + 1] = sent[n] \o Continuation(n, OutputsOf(n))'
        /\ \A n \in DOMAIN sent : Answered(sent[n])' /\ \A j \in DOMAIN sent[n] : sent[n][j].call \in 1 .. n - 1
    <3>1. \A n : Continuation(n, OutputsOf(n))' = Continuation(n, OutputsOf(n))
      BY <2>1 DEF Continuation, Reply
    <3>2. \A n \in DOMAIN sent : Answered(sent[n])' = Answered(sent[n])
      BY DEF Answered
    <3> QED BY <3>1, <3>2 DEF RequestsAreSound
  <2>4. pc' \in {"model", "dispatch", "tool"} => history' = sent[Len(sent)]
    BY DEF RequestsAreSound
  <2>5. pc' = "request" =>
          /\ history' = IF calls = <<>> THEN <<>>
                        ELSE sent[Len(calls)] \o Continuation(Len(calls), OutputsOf(Len(calls)))'
          /\ Answered(history)' /\ \A j \in DOMAIN history' : history'[j].call \in DOMAIN calls
    <3> SUFFICES ASSUME pc' = "request"
                 PROVE  /\ history' = IF calls = <<>> THEN <<>>
                                      ELSE sent[Len(calls)] \o Continuation(Len(calls), OutputsOf(Len(calls)))'
                        /\ Answered(history)' /\ \A j \in DOMAIN history' : history'[j].call \in DOMAIN calls
      OBVIOUS
    <3>1. pc = "request" /\ history' = history
      OBVIOUS
    <3>2. Continuation(Len(calls), OutputsOf(Len(calls)))' = Continuation(Len(calls), OutputsOf(Len(calls)))
      BY <1>1 DEF Continuation, Reply, OutputsOf
    <3>3. Answered(history)' = Answered(history)
      BY <3>1 DEF Answered
    <3> QED BY <3>1, <3>2, <3>3 DEF RequestsAreSound
  <2> QED BY <2>3, <2>4, <2>5 DEF RequestsAreSound
<1> QED BY <1>2, <1>4, <1>5

\* What is sent is the conversation so far.
LEMMA SendsConversation ==
    ASSUME TypeOK, LoopIsSound, ExecsAreSound, RequestsAreSound, send_model_request
    PROVE  LoopIsSound' /\ ExecsAreSound' /\ RequestsAreSound'
<1>1. /\ pc = "request" /\ pc' = "model" /\ Len(sent) < MaxModelCalls
      /\ sent' = Append(sent, history)
      /\ calls' = calls /\ execs' = execs /\ history' = history /\ ran' = ran
  BY DEF send_model_request
<1>2. ToolIndex' = ToolIndex
  BY <1>1, IndexSame
<1>3. PICK N \in Nat : /\ N = Len(calls) /\ DOMAIN calls = 1 .. N
                       /\ N = Len(sent) /\ DOMAIN sent = 1 .. N /\ (N = 0 <=> calls = <<>>)
  <2>1. Len(sent) = Len(calls)
    BY <1>1, CallsAre DEF TypeOK
  <2>2. Len(calls) = 0 <=> calls = <<>>
    BY EmptySeq DEF TypeOK
  <2> QED BY <2>1, <2>2, CallsAre
<1>4. /\ sent' \in Seq(Seq(Entries)) /\ Len(sent') = N + 1 /\ DOMAIN sent' = 1 .. N + 1
      /\ \A n \in 1 .. N : sent'[n] = sent[n]
      /\ sent'[N + 1] = history
  BY <1>1, <1>3 DEF TypeOK
<1>5. LoopIsSound'
  <2>1. MaxModelCalls \in Nat
    BY ConstantsAssumption
  <2>2. Len(calls') <= Len(sent') /\ Len(sent') <= Len(calls') + 1 /\ Len(sent') <= MaxModelCalls
    BY <1>1, <1>3, <1>4, <2>1
  <2> QED BY <1>1, <2>2 DEF LoopIsSound, Going, Whole, AllowedTogether
<1>6. \A n \in DOMAIN calls : Ran(n)' = Ran(n)
  BY <1>1 DEF Ran
<1>7. ExecsAreSound'
  <2>1. ASSUME NEW n \in DOMAIN calls
        PROVE  /\ ToolIndex[n] \in Nat /\ ToolIndex[n] + Ran(n)' <= Len(execs)
               /\ \A k \in 1 .. Ran(n)' : /\ execs[ToolIndex[n] + k].kind = "output"
                                         /\ execs[ToolIndex[n] + k].call = n
                                         /\ execs[ToolIndex[n] + k].index = k
    BY <1>6, <2>1 DEF ExecsAreSound
  <2>2. Len(execs) = IF calls = <<>> THEN 0 ELSE ToolIndex[N] + Ran(N)'
    <3>1. Len(execs) = IF calls = <<>> THEN 0 ELSE ToolIndex[N] + Ran(N)
      BY <1>1, <1>3 DEF ExecsAreSound, Going
    <3>2. calls # <<>> => N \in DOMAIN calls
      BY <1>3
    <3> QED BY <1>6, <3>1, <3>2
  <2>3. Ran(N)' = Ran(Len(calls))'
    BY <1>1, <1>3 DEF Ran
  <2>4. \A i \in DOMAIN execs :
          /\ execs[i].kind = "output" /\ execs[i].call \in DOMAIN calls
          /\ execs[i].index \in DOMAIN calls[execs[i].call].requested
          /\ Whole(calls[execs[i].call])
    BY DEF ExecsAreSound
  <2> QED BY <1>1, <1>2, <1>3, <2>1, <2>2, <2>3, <2>4 DEF ExecsAreSound, Whole, AllowedTogether
<1>8. RequestsAreSound'
  <2>1. \A n : Continuation(n, OutputsOf(n))' = Continuation(n, OutputsOf(n))
    BY <1>1, <1>2 DEF Continuation, Reply, OutputsOf
  <2>2. ASSUME NEW n \in 1 .. N + 1, n < N + 1
        PROVE  sent'[n + 1] = sent'[n] \o Continuation(n, OutputsOf(n))'
    <3>1. n \in 1 .. N /\ sent'[n] = sent[n]
      BY <1>4, <2>2
    <3>2. CASE n < N
      <4>1. n + 1 \in 1 .. N
        BY <3>1, <3>2
      <4>2. sent[n + 1] = sent[n] \o Continuation(n, OutputsOf(n))
        BY <1>3, <3>1, <3>2 DEF RequestsAreSound
      <4> QED BY <1>4, <2>1, <3>1, <4>1, <4>2
    <3>3. CASE n = N
      <4>1. history = sent[N] \o Continuation(N, OutputsOf(N))
        BY <1>1, <1>3, <3>1, <3>3 DEF RequestsAreSound
      <4> QED BY <1>4, <2>1, <3>1, <3>3, <4>1
    <3> QED BY <3>1, <3>2, <3>3
  <2>3. \A h : Answered(h)' = Answered(h)
    BY <1>1 DEF Answered
  <2>4. Answered(history) /\ \A j \in DOMAIN history : history[j].call \in 1 .. N
    BY <1>1, <1>3 DEF RequestsAreSound
  <2>5. ASSUME NEW n \in 1 .. N + 1
        PROVE  Answered(sent'[n]) /\ \A j \in DOMAIN sent'[n] : sent'[n][j].call \in 1 .. n - 1
    <3>1. CASE n \in 1 .. N
      <4>1. sent'[n] = sent[n]
        BY <1>4, <3>1
      <4>2. Answered(sent[n]) /\ \A j \in DOMAIN sent[n] : sent[n][j].call \in 1 .. n - 1
        BY <1>3, <3>1 DEF RequestsAreSound
      <4> QED BY <4>1, <4>2
    <3>2. CASE n = N + 1
      <4>1. n - 1 = N
        BY <3>2
      <4> QED BY <1>4, <2>4, <3>2, <4>1
    <3> QED BY <3>1, <3>2
  <2>6. ASSUME NEW n \in 1 .. N + 1 PROVE (Answered(sent[n]))'
    <3>1. Answered(sent'[n])
      BY <2>5
    <3> QED BY <1>1, <3>1 DEF Answered
  <2>7. history' = sent'[N + 1]
    BY <1>1, <1>4
  <2> QED BY <1>1, <1>4, <2>2, <2>5, <2>6, <2>7 DEF RequestsAreSound
<1> QED BY ONLY <1>5, <1>7, <1>8, Zenon

\* A further reply does not change what the former ones asked for.
LEMMA AnsweredStays ==
    ASSUME NEW h, NEW N \in Nat, Answered(h), \A j \in DOMAIN h : h[j].call \in 1 .. N,
           \A n \in 1 .. N : calls'[n] = calls[n]
    PROVE  (Answered(h))'
BY SMTT(30) DEF Answered

\* A reply, with tools to execute or not.
LEMMA RepliesConversation ==
    ASSUME TypeOK, LoopIsSound, ExecsAreSound, RequestsAreSound, pc = "model",
           NEW c \in [stage : {"error", "action_selection", "final_answer"},
                      requested : RequestedCalls, count : 0 .. MaxParallel],
           calls' = Append(calls, c), UNCHANGED <<sent, execs, history>>,
           pc' = "dispatch" => Whole(c) /\ ran' = 0,
           pc' \in {"dispatch", "answer", "done"}
    PROVE  LoopIsSound' /\ ExecsAreSound' /\ RequestsAreSound'
<1>1. PICK N \in Nat : /\ N = Len(calls) /\ DOMAIN calls = 1 .. N
                       /\ Len(sent) = N + 1 /\ DOMAIN sent = 1 .. N + 1
                       /\ (N = 0 <=> calls = <<>>) /\ N + 1 \in 1 .. MaxModelCalls
                       /\ \A n \in 1 .. N : n \in 1 .. MaxModelCalls
  <2>1. Len(sent) = Len(calls) + 1 /\ Len(sent) <= MaxModelCalls
    BY CallsAre DEF TypeOK, LoopIsSound
  <2>2. Len(calls) = 0 <=> calls = <<>>
    BY EmptySeq DEF TypeOK
  <2>3. Len(calls) \in Nat /\ DOMAIN calls = 1 .. Len(calls) /\ DOMAIN sent = 1 .. Len(calls) + 1
    BY <2>1, CallsAre
  <2>4. /\ Len(calls) + 1 \in 1 .. MaxModelCalls
        /\ \A n \in 1 .. Len(calls) : n \in 1 .. MaxModelCalls
    BY <2>1, <2>3, ConstantsAssumption
  <2> QED BY <2>1, <2>2, <2>3, <2>4
<1>2. /\ Len(calls') = N + 1 /\ DOMAIN calls' = 1 .. N + 1 /\ calls'[N + 1] = c
      /\ \A n \in 1 .. N : calls'[n] = calls[n]
      /\ calls' # <<>>
  BY <1>1 DEF TypeOK
<1>3. \A n \in 1 .. N + 1 : ToolIndex'[n] = ToolIndex[n]
  BY <1>1, <1>2, IndexStable, ConstantsAssumption, SMTT(30)
<1>4. \A n \in 1 .. N : Whole(calls[n])
  BY <1>1 DEF LoopIsSound, Going
<1>5. LoopIsSound'
  <2>1. ASSUME NEW n \in 1 .. N + 1, n < N + 1 \/ pc' = "dispatch"
        PROVE  Whole(calls'[n])
    <3>1. CASE n \in 1 .. N
      BY <1>2, <1>4, <3>1
    <3>2. CASE n = N + 1
      <4>1. pc' = "dispatch"
        BY <2>1, <3>2
      <4>2. Whole(c) /\ calls'[n] = c
        BY <1>2, <3>2, <4>1
      <4> QED BY ONLY <4>2 DEF Whole, AllowedTogether
    <3>3. n \in 1 .. N \/ n = N + 1
      OBVIOUS
    <3> QED BY ONLY <3>1, <3>2, <3>3
  <2>2. Going' => pc' = "dispatch"
    BY DEF Going
  <2>3. \A n \in DOMAIN calls' : n < Len(calls') \/ Going' => (Whole(calls[n]))'
    BY <1>2, <2>1, <2>2 DEF Whole, AllowedTogether
  <2>4. Len(calls') <= Len(sent') /\ Len(sent') <= Len(calls') + 1 /\ Len(sent') <= MaxModelCalls
    BY <1>1, <1>2 DEF LoopIsSound
  <2> QED BY <1>2, <2>3, <2>4 DEF LoopIsSound
<1>6. /\ \A n \in 1 .. N : Ran(n) = Len(calls[n].requested) /\ Ran(n)' = Len(calls[n].requested)
      /\ Ran(N + 1)' = 0
  BY <1>1, <1>2 DEF Ran
<1>7. ToolIndex[N + 1] = Len(execs) /\ Len(execs) \in Nat
  <2>1. Len(execs) = IF N = 0 THEN 0 ELSE ToolIndex[N] + Ran(N)
    BY <1>1 DEF ExecsAreSound, Going
  <2>2. ToolIndex[N + 1] = IF N + 1 = 1 THEN 0 ELSE ToolIndex[N] + CountOf(calls[N])
    <3>1. N + 1 - 1 = N
      OBVIOUS
    <3>2. ToolIndex[N + 1] = IF N + 1 = 1 THEN 0 ELSE ToolIndex[N + 1 - 1] + CountOf(calls[N + 1 - 1])
      BY <1>1, IndexSteps
    <3> QED BY <3>1, <3>2
  <2>3. N # 0 => CountOf(calls[N]) = Ran(N)
    BY <1>1, <1>4, <1>6, CallsAre
  <2> QED BY <2>1, <2>2, <2>3, CallsAre
<1>8. ExecsAreSound'
  <2>1. ASSUME NEW n \in 1 .. N + 1
        PROVE  /\ ToolIndex'[n] \in Nat /\ ToolIndex'[n] + Ran(n)' <= Len(execs)
               /\ \A k \in 1 .. Ran(n)' : /\ execs[ToolIndex'[n] + k].kind = "output"
                                         /\ execs[ToolIndex'[n] + k].call = n
                                         /\ execs[ToolIndex'[n] + k].index = k
    <3>1. CASE n \in 1 .. N
      <4>1. /\ ToolIndex[n] \in Nat /\ ToolIndex[n] + Ran(n) <= Len(execs)
            /\ \A k \in 1 .. Ran(n) : /\ execs[ToolIndex[n] + k].kind = "output"
                                      /\ execs[ToolIndex[n] + k].call = n
                                      /\ execs[ToolIndex[n] + k].index = k
        BY <1>1, <3>1 DEF ExecsAreSound
      <4>2. ToolIndex'[n] = ToolIndex[n] /\ Ran(n)' = Ran(n)
        BY <1>3, <1>6, <3>1
      <4> QED BY ONLY <4>1, <4>2
    <3>2. CASE n = N + 1
      BY <1>3, <1>6, <1>7, <3>2
    <3> QED BY <3>1, <3>2
  <2>2. Len(execs) = ToolIndex'[N + 1] + Ran(N + 1)'
    BY <1>3, <1>6, <1>7
  <2>3. Ran(Len(calls))' = Ran(N + 1)'
    BY <1>2 DEF Ran
  <2>4. ASSUME NEW i \in DOMAIN execs
        PROVE  /\ execs[i].kind = "output" /\ execs[i].call \in DOMAIN calls'
               /\ execs[i].index \in DOMAIN calls'[execs[i].call].requested
               /\ Whole(calls'[execs[i].call])
    <3>1. /\ execs[i].kind = "output" /\ execs[i].call \in 1 .. N
          /\ execs[i].index \in DOMAIN calls[execs[i].call].requested
          /\ Whole(calls[execs[i].call])
      BY <1>1 DEF ExecsAreSound
    <3> QED BY <1>2, <3>1
  <2>5. \A i \in DOMAIN execs : (Whole(calls[execs[i].call]))'
    BY <2>4 DEF Whole, AllowedTogether
  <2>6. \A n \in DOMAIN calls' :
          /\ ToolIndex'[n] \in Nat /\ ToolIndex'[n] + Ran(n)' <= Len(execs')
          /\ \A k \in 1 .. Ran(n)' : /\ execs'[ToolIndex'[n] + k].kind = "output"
                                    /\ execs'[ToolIndex'[n] + k].call = n
                                    /\ execs'[ToolIndex'[n] + k].index = k
    BY <1>2, <2>1
  <2>7. Len(execs') = IF calls' = <<>> THEN 0 ELSE ToolIndex'[Len(calls')] + Ran(Len(calls))'
    BY <1>2, <2>2, <2>3
  <2>8. \A i \in DOMAIN execs' :
          /\ execs'[i].kind = "output" /\ execs'[i].call \in DOMAIN calls'
          /\ execs'[i].index \in DOMAIN calls'[execs'[i].call].requested
          /\ (Whole(calls[execs[i].call]))'
    BY <2>4, <2>5 DEF Whole, AllowedTogether
  <2> QED BY <2>6, <2>7, <2>8 DEF ExecsAreSound
<1>9. RequestsAreSound'
  <2>1. \A n \in 1 .. N : Continuation(n, OutputsOf(n))' = Continuation(n, OutputsOf(n))
    <3> TAKE n \in 1 .. N
    <3>1. calls'[n] = calls[n] /\ ToolIndex'[n] = ToolIndex[n] /\ execs' = execs
      BY <1>2, <1>3
    <3>2. OutputsOf(n)' = OutputsOf(n)
      BY <3>1 DEF OutputsOf
    <3> QED BY <3>2 DEF Continuation, Reply
  <2>2. \A n \in 1 .. N + 1 : n < N + 1 => sent[n + 1] = sent[n] \o Continuation(n, OutputsOf(n))'
    <3> TAKE n \in 1 .. N + 1
    <3> HAVE n < N + 1
    <3>1. n \in 1 .. N
      OBVIOUS
    <3>2. sent[n + 1] = sent[n] \o Continuation(n, OutputsOf(n))
      BY <1>1 DEF RequestsAreSound
    <3> QED BY <2>1, <3>1, <3>2
  <2>3. ASSUME NEW n \in 1 .. N + 1
        PROVE  (Answered(sent[n]))' /\ \A j \in DOMAIN sent[n] : sent[n][j].call \in 1 .. n - 1
    <3>1. Answered(sent[n]) /\ \A j \in DOMAIN sent[n] : sent[n][j].call \in 1 .. n - 1
      BY <1>1 DEF RequestsAreSound
    <3>2. 1 .. n - 1 \subseteq 1 .. N
      OBVIOUS
    <3>3. \A h : h = sent[n] => (Answered(h))'
      BY <1>2, <3>1, <3>2, AnsweredStays
    <3> QED BY <3>1, <3>3 DEF Answered
  <2>4. pc' = "dispatch" => history' = sent'[Len(sent')]
    BY DEF RequestsAreSound
  <2> QED BY <1>1, <1>2, <2>2, <2>3, <2>4 DEF RequestsAreSound
<1> QED BY ONLY <1>5, <1>8, <1>9, Zenon

-----------------------------------------------------------------------------
(* A tool that was executed. *)

\* What was executed before is found where it was ...
LEMMA EarlierOutputs ==
    ASSUME NEW S, NEW s \in Seq(S), NEW e \in S, NEW a \in Nat, NEW l \in Nat, a + l <= Len(s),
           NEW t, t = Append(s, e)
    PROVE  SubSeq(t, a + 1, a + l) = SubSeq(s, a + 1, a + l)
<1>1. /\ t \in Seq(S) /\ Len(t) = Len(s) + 1
      /\ \A i \in 1 .. Len(s) : t[i] = s[i]
  BY AppendProperties
<1>2. Len(s) \in Nat
  OBVIOUS
<1>3. /\ a + 1 \in 1 .. Len(s) + 1 /\ a + l \in a + 1 - 1 .. Len(s) /\ a + l - (a + 1) + 1 = l
      /\ a + 1 \in 1 .. Len(t) + 1 /\ a + l \in a + 1 - 1 .. Len(t)
  BY <1>1, <1>2
<1> DEFINE u == SubSeq(s, a + 1, a + l)
           v == SubSeq(t, a + 1, a + l)
<1>4. /\ u \in Seq(S) /\ Len(u) = l /\ \A i \in 1 .. l : u[i] = s[a + 1 + i - 1]
  BY <1>3, SubSeqProperties
<1>5. /\ v \in Seq(S) /\ Len(v) = l /\ \A i \in 1 .. l : v[i] = t[a + 1 + i - 1]
  BY <1>1, <1>3, SubSeqProperties
<1>6. \A i \in 1 .. l : u[i] = v[i]
  <2> HIDE DEF u, v
  <2> TAKE i \in 1 .. l
  <2>1. a + 1 + i - 1 \in 1 .. Len(s)
    BY <1>2
  <2> QED BY <1>1, <1>4, <1>5, <2>1
<1>7. u = v
  <2> HIDE DEF u, v
  <2> QED BY <1>4, <1>5, <1>6, SeqEqual
<1> QED BY <1>7

EndsWithLast(S, t, s, e, a, r) ==
    /\ SubSeq(t, a + 1, a + r + 1) = SubSeq(s, Len(s) - r + 1, Len(s)) \o <<e>>
    /\ SubSeq(t, a + 1, a + r + 1) \in Seq(S)
    /\ Len(SubSeq(t, a + 1, a + r + 1)) = r + 1
    /\ \A k \in 1 .. r + 1 : SubSeq(t, a + 1, a + r + 1)[k] = t[a + k]

\* ... and the outputs of the last reply end with the one that came now.
LEMMA LastOutputs ==
    ASSUME NEW S, NEW s \in Seq(S), NEW e \in S, NEW a \in Nat, NEW r \in Nat, Len(s) = a + r,
           NEW t, t = Append(s, e)
    PROVE  EndsWithLast(S, t, s, e, a, r)
<1>1. /\ t \in Seq(S) /\ Len(t) = a + r + 1
      /\ \A i \in 1 .. a + r : t[i] = s[i]
      /\ t[a + r + 1] = e
  BY AppendProperties
<1>2. /\ a + 1 \in 1 .. Len(s) + 1 /\ a + r \in a + 1 - 1 .. Len(s) /\ a + r - (a + 1) + 1 = r
      /\ a + 1 \in 1 .. Len(t) + 1 /\ a + r + 1 \in a + 1 - 1 .. Len(t)
      /\ a + r + 1 - (a + 1) + 1 = r + 1
      /\ Len(s) - r + 1 = a + 1
  BY <1>1
<1> DEFINE u == SubSeq(s, a + 1, a + r)
           v == SubSeq(t, a + 1, a + r + 1)
<1>3. u \in Seq(S) /\ Len(u) = r /\ \A i \in 1 .. r : u[i] = s[a + 1 + i - 1]
  BY <1>2, SubSeqProperties
<1>4. v \in Seq(S) /\ Len(v) = r + 1 /\ \A i \in 1 .. r + 1 : v[i] = t[a + 1 + i - 1]
  BY <1>1, <1>2, SubSeqProperties
<1> HIDE DEF u, v
<1>5. <<e>> \in Seq(S) /\ Len(<<e>>) = 1 /\ <<e>>[1] = e
  OBVIOUS
<1>6. /\ u \o <<e>> \in Seq(S) /\ Len(u \o <<e>>) = r + 1
      /\ \A i \in 1 .. r + 1 : (u \o <<e>>)[i] = IF i <= r THEN u[i] ELSE e
  <2>1. /\ u \o <<e>> \in Seq(S) /\ Len(u \o <<e>>) = r + 1
        /\ \A i \in 1 .. r + 1 : (u \o <<e>>)[i] = IF i <= r THEN u[i] ELSE <<e>>[i - r]
    BY <1>3, <1>5, ConcatProperties
  <2>2. \A i \in 1 .. r + 1 : ~(i <= r) => i - r = 1
    OBVIOUS
  <2> QED BY <1>5, <2>1, <2>2
<1>7. \A i \in 1 .. r + 1 : v[i] = t[a + i]
  <2> TAKE i \in 1 .. r + 1
  <2>1. a + 1 + i - 1 = a + i
    OBVIOUS
  <2> QED BY <1>4, <2>1
<1>8. \A i \in 1 .. r + 1 : v[i] = (u \o <<e>>)[i]
  <2> TAKE i \in 1 .. r + 1
  <2>1. CASE i <= r
    <3>1. i \in 1 .. r /\ a + i \in 1 .. a + r /\ a + 1 + i - 1 = a + i
      BY <2>1
    <3> QED BY <1>1, <1>3, <1>6, <1>7, <2>1, <3>1, SMTT(30)
  <2>2. CASE ~(i <= r)
    <3>1. i = r + 1 /\ a + i = a + r + 1
      BY <2>2
    <3> QED BY <1>1, <1>6, <1>7, <2>2, <3>1
  <2> QED BY <2>1, <2>2
<1>9. v = u \o <<e>>
  <2> DEFINE w == u \o <<e>>
  <2>1. w \in Seq(S) /\ Len(w) = r + 1 /\ \A i \in 1 .. r + 1 : v[i] = w[i]
    BY <1>6, <1>8
  <2> HIDE DEF w
  <2>2. v = w
    BY <1>4, <2>1, SeqEqual
  <2> QED BY <2>2 DEF w
<1>10. Len(s) - r + 1 = a + 1 /\ Len(s) = a + r
  BY <1>2
<1> QED BY ONLY <1>4, <1>7, <1>9, <1>10 DEF u, v, EndsWithLast

\* An execution that is returned to the model: the next tool, the next request
\* or the end of the session.
LEMMA ToolConversation ==
    ASSUME TypeOK, LoopIsSound, ExecsAreSound, RequestsAreSound, pc = "tool",
           NEW o \in {"ok", "input_error"},
           execs' = Append(execs, Name(Len(calls), ran + 1, o)), ran' = ran + 1,
           UNCHANGED <<sent, calls>>,
           \/ pc' = "done"
           \/ pc' = "dispatch" /\ history' = history
           \/ /\ pc' = "request" /\ ~(ran + 1 < Len(Last.requested))
              /\ history' = history \o Continuation(Len(calls), OutputsWith(o))
    PROVE  LoopIsSound' /\ ExecsAreSound' /\ RequestsAreSound'
<1>1. PICK N \in Nat : /\ N = Len(calls) /\ DOMAIN calls = 1 .. N /\ N > 0 /\ N \in DOMAIN calls
                       /\ N = Len(sent) /\ DOMAIN sent = 1 .. N /\ N \in 1 .. MaxModelCalls
  <2>1. Len(sent) = Len(calls) /\ Len(sent) <= MaxModelCalls
    BY CallsAre DEF TypeOK, LoopIsSound
  <2>2. Len(calls) # 0
    BY EmptySeq DEF LoopIsSound, TypeOK
  <2>3. Len(calls) \in Nat /\ DOMAIN calls = 1 .. Len(calls) /\ DOMAIN sent = 1 .. Len(calls)
    BY <2>1, CallsAre
  <2>4. Len(calls) \in 1 .. MaxModelCalls /\ Len(calls) > 0 /\ Len(calls) \in DOMAIN calls
    BY <2>1, <2>2, <2>3, ConstantsAssumption
  <2> QED BY <2>1, <2>3, <2>4
<1>2. PICK R \in Nat : R = Len(calls[N].requested) /\ DOMAIN calls[N].requested = 1 .. R
  BY <1>1, CallsAre
<1>3. ran \in Nat /\ ran + 1 \in 1 .. R
  <2>1. Last = calls[N]
    BY <1>1 DEF Last
  <2>2. ran \in 0 .. MaxParallel /\ ran < Len(Last.requested)
    BY DEF TypeOK
  <2>3. R \in Nat /\ ran < R /\ ran \in Nat
    BY ONLY <1>2, <2>1, <2>2, ConstantsAssumption
  <2> QED BY ONLY <2>3
<1>4. \A n \in DOMAIN calls : Whole(calls[n])
  BY ONLY LoopIsSound, pc = "tool", SMTT(30) DEF LoopIsSound, Going
<1>5. PICK E \in Nat : E = Len(execs) /\ DOMAIN execs = 1 .. E
  BY CallsAre
<1>6. PICK a \in Nat : a = ToolIndex[N] /\ a + ran = E
  <2>1. ToolIndex[N] \in Nat /\ Len(execs) = IF calls = <<>> THEN 0 ELSE ToolIndex[N] + Ran(N)
    BY <1>1 DEF ExecsAreSound, Going
  <2>2. Ran(N) = ran
    BY <1>1 DEF Ran
  <2>3. calls # <<>>
    BY DEF LoopIsSound
  <2> QED BY <1>5, <2>1, <2>2, <2>3
<1> DEFINE e == Name(N, ran + 1, o)
<1>7. e \in Entries /\ execs \in Seq(Entries) /\ execs' = Append(execs, e)
  <2>1. ran + 1 \in 1 .. MaxParallel
    <3>1. R \in 0 .. MaxParallel
      BY <1>1, <1>2, CallsAre
    <3> QED BY <1>3, <3>1, ConstantsAssumption
  <2>2. e \in Entries
    BY <1>1, <2>1 DEF Entries
  <2> QED BY <1>1, <2>2 DEF TypeOK
<1>8. e.kind = "output" /\ e.call = N /\ e.index = ran + 1 /\ e.output = o
  BY EntryFields
<1> HIDE DEF e
<1>9. /\ execs' \in Seq(Entries) /\ Len(execs') = E + 1 /\ DOMAIN execs' = 1 .. E + 1
      /\ \A i \in 1 .. E : execs'[i] = execs[i]
      /\ execs'[E + 1] = e
  BY <1>5, <1>7
<1>10. ToolIndex' = ToolIndex
  BY IndexSame
<1>11. LoopIsSound'
  <2>1. \A n \in DOMAIN calls : (Whole(calls[n]))'
    BY <1>4 DEF Whole, AllowedTogether
  <2> QED BY <2>1 DEF LoopIsSound
<1>12. /\ \A n \in 1 .. N : n # N => Ran(n)' = Ran(n) /\ Ran(n) \in Nat
       /\ Ran(N)' = (IF pc' = "done" THEN 0 ELSE ran + 1) /\ Ran(N) = ran
       /\ pc' = "request" => R = ran + 1
  <2>1. \A n \in 1 .. N : n # N => Ran(n)' = Ran(n) /\ Ran(n) = Len(calls[n].requested)
    BY <1>1 DEF Ran
  <2>2. \A n \in 1 .. N : Len(calls[n].requested) \in Nat
    BY <1>1, CallsAre
  <2>3. pc' = "request" => R = ran + 1
    <3>1. Last = calls[N]
      BY <1>1 DEF Last
    <3> QED BY <1>2, <1>3, <3>1
  <2>4. Ran(N) = ran /\ Ran(N)' = (IF pc' = "done" THEN 0 ELSE ran + 1)
    BY <1>1, <1>2, <2>3 DEF Ran
  <2> QED BY <2>1, <2>2, <2>3, <2>4
<1>13. \A n \in 1 .. N : /\ ToolIndex[n] \in Nat /\ ToolIndex[n] + Ran(n) <= E
                         /\ \A k \in 1 .. Ran(n) : /\ execs[ToolIndex[n] + k].kind = "output"
                                                   /\ execs[ToolIndex[n] + k].call = n
                                                   /\ execs[ToolIndex[n] + k].index = k
  BY <1>1, <1>5 DEF ExecsAreSound
<1>14. \A k \in 1 .. ran + 1 : /\ execs'[a + k].kind = "output" /\ execs'[a + k].call = N
                               /\ execs'[a + k].index = k
  <2> TAKE k \in 1 .. ran + 1
  <2>1. CASE k \in 1 .. ran
    <3>1. a + k \in 1 .. E
      BY ONLY <1>3, <1>6, <2>1
    <3>2. execs[a + k].kind = "output" /\ execs[a + k].call = N /\ execs[a + k].index = k
      <4>1. \A j \in 1 .. Ran(N) : /\ execs[ToolIndex[N] + j].kind = "output"
                                   /\ execs[ToolIndex[N] + j].call = N
                                   /\ execs[ToolIndex[N] + j].index = j
        BY <1>1, <1>13
      <4>2. Ran(N) = ran /\ ToolIndex[N] = a
        BY <1>6, <1>12
      <4> QED BY ONLY <2>1, <4>1, <4>2
    <3> QED BY <1>9, <3>1, <3>2
  <2>2. CASE k = ran + 1
    <3>1. a + k = E + 1
      BY <1>3, <1>6, <2>2
    <3> QED BY <1>8, <1>9, <2>2, <3>1
  <2>3. k \in 1 .. ran \/ k = ran + 1
    BY <1>3
  <2> QED BY <2>1, <2>2, <2>3
<1>15. ExecsAreSound'
  <2>1. ASSUME NEW n \in 1 .. N
        PROVE  /\ ToolIndex[n] \in Nat /\ ToolIndex[n] + Ran(n)' <= E + 1
               /\ \A k \in 1 .. Ran(n)' : /\ execs'[ToolIndex[n] + k].kind = "output"
                                         /\ execs'[ToolIndex[n] + k].call = n
                                         /\ execs'[ToolIndex[n] + k].index = k
    <3>1. CASE n # N
      <4>1. PICK b \in Nat, r \in Nat : b = ToolIndex[n] /\ r = Ran(n) /\ r = Ran(n)'
        BY ONLY <1>12, <1>13, <3>1, n \in 1 .. N
      <4>2. b + r <= E /\ \A k \in 1 .. r : b + k \in 1 .. E
        <5>1. b + r <= E
          BY <1>13, <4>1
        <5> QED BY ONLY <5>1, b \in Nat, r \in Nat, E \in Nat
      <4>3. \A k \in 1 .. r : /\ execs[b + k].kind = "output" /\ execs[b + k].call = n
                              /\ execs[b + k].index = k
        <5>1. \A j \in 1 .. Ran(n) : /\ execs[ToolIndex[n] + j].kind = "output"
                                     /\ execs[ToolIndex[n] + j].call = n
                                     /\ execs[ToolIndex[n] + j].index = j
          BY <1>13
        <5> QED BY ONLY <4>1, <5>1
      <4>4. \A k \in 1 .. r : /\ execs'[b + k].kind = "output" /\ execs'[b + k].call = n
                              /\ execs'[b + k].index = k
        BY <1>9, <4>2, <4>3
      <4>5. b + r <= E + 1
        BY <4>2
      <4> QED BY ONLY <4>1, <4>4, <4>5
    <3>2. CASE n = N
      <4>1. Ran(n)' \in {0, ran + 1} /\ ToolIndex[n] = a
        BY <1>6, <1>12, <3>2
      <4>2. CASE Ran(n)' = 0
        BY <1>3, <1>6, <4>1, <4>2
      <4>3. CASE Ran(n)' = ran + 1
        <5>1. a + (ran + 1) <= E + 1
          BY <1>3, <1>6
        <5> QED BY ONLY <1>6, <1>14, <3>2, <4>1, <4>3, <5>1
      <4> QED BY <4>1, <4>2, <4>3
    <3> QED BY <3>1, <3>2
  <2>2. Going' => Len(execs') = ToolIndex[N] + Ran(N)'
    <3>1. Going' => pc' # "done"
      BY DEF Going
    <3> QED BY <1>3, <1>6, <1>9, <1>12, <3>1
  <2>3. Ran(Len(calls))' = Ran(N)'
    BY <1>1 DEF Ran
  <2>4. ASSUME NEW i \in 1 .. E + 1
        PROVE  /\ execs'[i].kind = "output" /\ execs'[i].call \in 1 .. N
               /\ execs'[i].index \in DOMAIN calls[execs'[i].call].requested
    <3>1. CASE i \in 1 .. E
      <4>1. /\ execs[i].kind = "output" /\ execs[i].call \in 1 .. N
            /\ execs[i].index \in DOMAIN calls[execs[i].call].requested
        BY <1>1, <1>5, <3>1 DEF ExecsAreSound
      <4> QED BY <1>9, <3>1, <4>1
    <3>2. CASE i = E + 1
      <4>1. execs'[i] = e /\ N \in 1 .. N /\ ran + 1 \in DOMAIN calls[N].requested
        BY <1>1, <1>2, <1>3, <1>9, <3>2
      <4> QED BY ONLY <1>8, <4>1
    <3>3. i \in 1 .. E \/ i = E + 1
      OBVIOUS
    <3> QED BY ONLY <3>1, <3>2, <3>3
  <2>5. \A i \in 1 .. E + 1 : (Whole(calls[execs[i].call]))'
    BY <1>1, <1>4, <2>4 DEF Whole, AllowedTogether
  <2>6. calls' # <<>>
    BY DEF LoopIsSound
  <2>7. \A n \in DOMAIN calls' :
          /\ ToolIndex'[n] \in Nat /\ ToolIndex'[n] + Ran(n)' <= Len(execs')
          /\ \A k \in 1 .. Ran(n)' : /\ execs'[ToolIndex'[n] + k].kind = "output"
                                    /\ execs'[ToolIndex'[n] + k].call = n
                                    /\ execs'[ToolIndex'[n] + k].index = k
    BY ONLY <1>1, <1>9, <1>10, <2>1, calls' = calls
  <2>8. Going' => Len(execs') = IF calls' = <<>> THEN 0 ELSE ToolIndex'[Len(calls')] + Ran(Len(calls))'
    BY <1>1, <1>10, <2>2, <2>3, <2>6, SMTT(30)
  <2>9. \A i \in DOMAIN execs' :
          /\ execs'[i].kind = "output" /\ execs'[i].call \in DOMAIN calls'
          /\ execs'[i].index \in DOMAIN calls'[execs'[i].call].requested
          /\ (Whole(calls[execs[i].call]))'
    BY <1>1, <1>9, <2>4, <2>5 DEF Whole, AllowedTogether
  <2> QED BY <2>7, <2>8, <2>9 DEF ExecsAreSound
<1>16. RequestsAreSound'
  <2>1. \A h : Answered(h)' = Answered(h)
    BY DEF Answered
  <2>2. ASSUME NEW n \in 1 .. N, n < N
        PROVE  sent[n + 1] = sent[n] \o Continuation(n, OutputsOf(n))'
    <3>1. sent[n + 1] = sent[n] \o Continuation(n, OutputsOf(n))
      BY <1>1, <2>2 DEF RequestsAreSound
    <3>2. PICK b \in Nat, r \in Nat : b = ToolIndex[n] /\ r = Ran(n)
      BY <1>12, <1>13, <2>2, SMTT(30)
    <3>3. r = Len(calls[n].requested)
      BY <1>1, <2>2, <3>2 DEF Ran
    <3>4. b + r <= Len(execs)
      BY <1>5, <1>13, <3>2
    <3>5. SubSeq(execs', b + 1, b + r) = SubSeq(execs, b + 1, b + r)
      BY <1>7, <3>4, EarlierOutputs
    <3>6. OutputsOf(n)' = OutputsOf(n)
      BY <1>10, <3>2, <3>3, <3>5 DEF OutputsOf
    <3> QED BY <3>1, <3>6 DEF Continuation, Reply
  <2>3. ASSUME NEW n \in 1 .. N
        PROVE  Answered(sent[n])' /\ \A j \in DOMAIN sent[n] : sent[n][j].call \in 1 .. n - 1
    <3>1. Answered(sent[n]) /\ \A j \in DOMAIN sent[n] : sent[n][j].call \in 1 .. n - 1
      BY <1>1 DEF RequestsAreSound
    <3> QED BY <3>1 DEF Answered
  <2>4. history = sent[N] /\ history \in Seq(Entries)
    BY <1>1 DEF RequestsAreSound, TypeOK
  <2>5. pc' = "dispatch" => history' = sent[N]
    BY <2>4
  <2>6. ASSUME pc' = "request"
        PROVE  /\ history' = sent[N] \o Continuation(N, OutputsOf(N))'
               /\ Answered(history)' /\ \A j \in DOMAIN history' : history'[j].call \in 1 .. N
    <3> DEFINE outs == SubSeq(execs', a + 1, a + R)
    <3>1. R = ran + 1 /\ a + R = a + ran + 1 /\ Len(execs) = a + ran
      <4>1. R = ran + 1
        BY <1>12, <2>6
      <4> QED BY ONLY <1>3, <1>5, <1>6, <4>1
    <3>2. /\ SubSeq(execs', a + 1, a + ran + 1) = SubSeq(execs, Len(execs) - ran + 1, Len(execs)) \o <<e>>
          /\ SubSeq(execs', a + 1, a + ran + 1) \in Seq(Entries)
          /\ Len(SubSeq(execs', a + 1, a + ran + 1)) = ran + 1
          /\ \A k \in 1 .. ran + 1 : SubSeq(execs', a + 1, a + ran + 1)[k] = execs'[a + k]
      <4>1. a \in Nat /\ ran \in Nat
        BY <1>3
      <4>2. EndsWithLast(Entries, execs', execs, e, a, ran)
        BY ONLY <1>7, <3>1, <4>1, LastOutputs
      <4> QED BY ONLY <4>2 DEF EndsWithLast
    <3>3. outs \in Seq(Entries) /\ Len(outs) = R /\ \A k \in 1 .. R : outs[k] = execs'[a + k]
      BY <3>1, <3>2
    <3>4. OutputsWith(o) = outs
      BY <1>1, <3>1, <3>2 DEF OutputsWith, e
    <3>5. OutputsOf(N)' = outs
      BY <1>2, <1>6, <1>10 DEF OutputsOf
    <3> HIDE DEF outs
    <3>6. history' = history \o Continuation(N, outs)
      BY <1>1, <2>6, <3>4
    <3>7. \A k \in DOMAIN outs : outs[k].kind = "output" /\ outs[k].call = N /\ outs[k].index = k
      BY <1>14, <3>1, <3>3
    <3>8. Answered(history) /\ \A j \in DOMAIN history : history[j].call \in 1 .. N - 1
      <4>1. Answered(sent[N]) /\ \A j \in DOMAIN sent[N] : sent[N][j].call \in 1 .. N - 1
        BY <1>1 DEF RequestsAreSound
      <4> QED BY <2>4, <4>1
    <3>9. Reply(N) \in Entries
      BY <1>1 DEF Entries
    <3>10. \A m \in 1 .. N : Len(calls[m].requested) \in Nat
      BY <1>1, CallsAre
    <3>11. GoesOn(history', history, N, outs)
      BY <3>6 DEF GoesOn
    <3>12. Len(outs) = Len(calls[N].requested)
      BY <1>2, <3>3
    <3>13. Answered(history') /\ \A j \in DOMAIN history' : history'[j].call \in 1 .. N
      BY ONLY <1>1, <2>4, <3>3, <3>7, <3>8, <3>9, <3>10, <3>11, <3>12, ContinuationAnswers
    <3>14. Answered(history)'
      BY <3>13 DEF Answered
    <3>15. Continuation(N, OutputsOf(N))' = Continuation(N, outs)
      BY <3>5 DEF Continuation, Reply
    <3> QED BY <2>4, <3>6, <3>13, <3>14, <3>15
  <2>7. Continuation(Len(calls), OutputsOf(Len(calls)))' = Continuation(N, OutputsOf(N))'
    BY <1>1 DEF Continuation, Reply, OutputsOf
  <2>8. \A n \in DOMAIN sent' : n < Len(sent') => sent'[n + 1] = sent'[n] \o Continuation(n, OutputsOf(n))'
    BY <1>1, <2>2
  <2>9. pc' \in {"model", "dispatch", "tool"} => history' = sent'[Len(sent')]
    BY <1>1, <2>5
  <2>10. pc' = "request" =>
          history' = IF calls' = <<>> THEN <<>>
                     ELSE sent'[Len(calls')] \o Continuation(Len(calls), OutputsOf(Len(calls)))'
    <3>1. calls' # <<>> /\ Len(calls') = N
      BY <1>1 DEF LoopIsSound
    <3> QED BY <2>6, <2>7, <3>1
  <2>11. \A n \in DOMAIN sent' : (Answered(sent[n]))' /\ \A j \in DOMAIN sent'[n] : sent'[n][j].call \in 1 .. n - 1
    <3> TAKE n \in DOMAIN sent'
    <3>1. (Answered(sent[n]))'
      BY <1>1, <2>3 DEF Answered
    <3>2. \A j \in DOMAIN sent'[n] : sent'[n][j].call \in 1 .. n - 1
      BY <1>1, <2>3
    <3> QED BY ONLY <3>1, <3>2
  <2>12. pc' = "request" => Answered(history)' /\ \A j \in DOMAIN history' : history'[j].call \in DOMAIN calls'
    BY <1>1, <2>6
  <2> QED BY <2>8, <2>9, <2>10, <2>11, <2>12 DEF RequestsAreSound
<1> QED BY ONLY <1>11, <1>15, <1>16, Zenon

\* Every step keeps the conversation sound: one case per action.
LEMMA ConversationStep ==
    ASSUME TypeOK, LoopIsSound, ExecsAreSound, RequestsAreSound, [Next]_vars
    PROVE  LoopIsSound' /\ ExecsAreSound' /\ RequestsAreSound'
<1>1. CASE UNCHANGED vars \/ Expire
  BY <1>1, SameConversation DEF vars, Expire
<1>2. CASE remaining_timeout \/ dispatch \/ answer
  BY <1>2, SameConversation DEF remaining_timeout, dispatch, answer, End
<1>3. CASE send_model_request
  BY <1>3, SendsConversation
<1>4. CASE output_delta \/ reply_timeout \/ no_reply
  BY <1>4, SameConversation DEF output_delta, reply_timeout, no_reply, End
<1>5. CASE error_reply \/ final_reply
  <2>1. PICK stage \in {"error", "final_answer"} : calls' = Append(calls, Call(stage, <<>>, 0))
    BY <1>5 DEF error_reply, final_reply
  <2> DEFINE c == Call(stage, <<>>, 0)
  <2>2. c \in [stage : {"error", "action_selection", "final_answer"},
               requested : RequestedCalls, count : 0 .. MaxParallel]
    <3>1. <<>> \in RequestedCalls
      <4>1. <<>> \in [1 .. 0 -> Tools \cup {NotATool}] /\ 0 \in 0 .. MaxParallel
        BY ConstantsAssumption
      <4> QED BY <4>1 DEF RequestedCalls
    <3>2. 0 \in 0 .. MaxParallel
      BY ConstantsAssumption
    <3> QED BY <3>1, <3>2 DEF Call
  <2>3. pc = "model" /\ pc' \in {"done", "answer"} /\ UNCHANGED <<sent, execs, history>>
    BY <1>5 DEF error_reply, final_reply, End
  <2> HIDE DEF c
  <2>4. calls' = Append(calls, c)
    BY <2>1 DEF c
  <2> QED BY <2>2, <2>3, <2>4, RepliesConversation
<1>6. CASE malformed_reply \/ action_reply
  <2>1. PICK q \in RequestedCalls \ {<<>>}, k \in Nat :
           /\ k \in {0, Len(q)} /\ calls' = Append(calls, Call("action_selection", q, k))
           /\ pc' = "done" \/ (pc' = "dispatch" /\ AllowedTogether(q) /\ k = Len(q))
    <3>1. CASE malformed_reply
      BY <3>1 DEF malformed_reply, End
    <3>2. CASE action_reply
      <4>1. PICK q \in RequestedCalls \ {<<>>} :
               /\ calls' = Append(calls, Call("action_selection", q, Len(q)))
               /\ pc' = "done" \/ (pc' = "dispatch" /\ AllowedTogether(q))
        BY <3>2 DEF action_reply, End
      <4>2. Len(q) \in Nat
        BY RequestedIs, ConstantsAssumption
      <4> QED BY <4>1, <4>2
    <3> QED BY <1>6, <3>1, <3>2
  <2> DEFINE c == Call("action_selection", q, k)
  <2>2. c \in [stage : {"error", "action_selection", "final_answer"},
               requested : RequestedCalls, count : 0 .. MaxParallel]
    <3>1. k \in 0 .. MaxParallel
      <4>1. Len(q) \in 0 .. MaxParallel
        BY RequestedIs
      <4>2. 0 \in 0 .. MaxParallel
        BY ConstantsAssumption
      <4> QED BY <2>1, <4>1, <4>2
    <3> QED BY <3>1 DEF Call
  <2>3. pc' = "dispatch" => Whole(c) /\ ran' = 0
    <3>1. pc' = "dispatch" => ran' = 0
      BY <1>6 DEF malformed_reply, action_reply, End, FirstTool
    <3> QED BY <2>1, <3>1 DEF Whole, Call
  <2>4. pc = "model" /\ pc' \in {"dispatch", "done"} /\ UNCHANGED <<sent, execs, history>>
    BY <1>6, <2>1 DEF malformed_reply, action_reply, End
  <2> HIDE DEF c
  <2>5. calls' = Append(calls, c)
    BY <2>1 DEF c
  <2> QED BY <2>2, <2>3, <2>4, <2>5, RepliesConversation
<1>7. CASE tool_done
  <2>1. PICK o \in {"ok", "input_error"} :
           /\ execs' = Append(execs, Name(Len(calls), ran + 1, o))
           /\ AfterTool(Last.requested[ran + 1], o)
    BY <1>7 DEF tool_done
  <2>2. \/ pc' = "done"
        \/ pc' = "dispatch" /\ history' = history
        \/ /\ pc' = "request" /\ ~(ran + 1 < Len(Last.requested))
           /\ history' = history \o Continuation(Len(calls), OutputsWith(o))
    BY <2>1 DEF AfterTool, End
  <2>3. pc = "tool" /\ ran' = ran + 1 /\ UNCHANGED <<sent, calls>>
    BY <1>7 DEF tool_done
  <2> QED BY <2>1, <2>2, <2>3, ToolConversation
<1>8. CASE tool_error \/ tool_timeout
  BY <1>8, SameConversation DEF tool_error, tool_timeout, End
<1> QED BY <1>1, <1>2, <1>3, <1>4, <1>5, <1>6, <1>7, <1>8 DEF Next, SessionStep, ModelStep, ToolStep

-----------------------------------------------------------------------------
(* The types *)

\* Before the listener has been shown anything else, what it shows was streamed
\* of this reply.
LEMMA StreamedIs ==
    ASSUME TypeOK, ShowsTheReply, pc \in {"model", "answer"}
    PROVE  StreamedNow = Len(shown) /\ Len(shown) \in Nat /\ DOMAIN shown = 1 .. Len(shown)
<1>1. Len(shown) \in Nat /\ DOMAIN shown = 1 .. Len(shown)
  BY DEF TypeOK
<1>2. {i \in DOMAIN shown : shown[i][1] = Len(sent)} = 1 .. Len(shown)
  BY <1>1 DEF ShowsTheReply
<1>3. Cardinality(1 .. Len(shown)) = Len(shown)
  <2>1. PICK M \in Nat : M = Len(shown)
    BY <1>1
  <2>2. Cardinality(1 .. M) = IF 1 > M THEN 0 ELSE M - 1 + 1
    BY FS_Interval
  <2> QED BY <2>1, <2>2
<1> QED BY <1>1, <1>2, <1>3 DEF StreamedNow

\* The values of an outcome.
Outcomes == [kind : {"pending", "error", "ended", "answered"},
             provider : BOOLEAN, retryable : BOOLEAN, fatal : BOOLEAN]

LEMMA OutcomesAre ==
    /\ Pending \in Outcomes /\ Pending.kind = "pending"
    /\ run_error \in Outcomes /\ run_error.kind = "error"
    /\ timeout_error \in Outcomes /\ timeout_error.kind = "error"
    /\ \A r \in BOOLEAN, f \in BOOLEAN :
          provider_error(r, f) \in Outcomes /\ provider_error(r, f).kind = "error"
    /\ \A k \in {"ended", "answered"} :
          [Pending EXCEPT !.kind = k] \in Outcomes /\ [Pending EXCEPT !.kind = k].kind = k
BY DEF Outcomes, Pending, run_error, timeout_error, provider_error

Entered == [stage : {"error", "action_selection", "final_answer"},
            requested : RequestedCalls, count : 0 .. MaxParallel]

\* The parts of the type invariant a step may change.
EndsAreTyped == outcome \in Outcomes /\ (pc = "done" <=> outcome.kind # "pending")
CountsAreTyped ==
    /\ Len(sent) = Len(calls) + (IF pc = "model" THEN 1 ELSE 0) \/ pc = "done"
    /\ ran \in 0 .. MaxParallel
    /\ pc \in {"dispatch", "tool"} => ran < Len(Last.requested)
ListsAreTyped ==
    /\ history \in Seq(Entries) /\ sent \in Seq(Seq(Entries)) /\ execs \in Seq(Entries)
    /\ calls \in Seq(Entered)
    /\ shown \in Seq((1 .. MaxModelCalls) \X (1 .. MaxTexts))
PlainAreTyped ==
    /\ pc \in {"request", "model", "dispatch", "tool", "answer", "done"}
    /\ expired \in BOOLEAN /\ submitted \in BOOLEAN /\ effects \in Nat

LEMMA TypeParts == TypeOK <=> EndsAreTyped /\ CountsAreTyped /\ ListsAreTyped /\ PlainAreTyped
BY DEF TypeOK, EndsAreTyped, CountsAreTyped, ListsAreTyped, PlainAreTyped, Outcomes, Entered

LEMMA EndsStep ==
    ASSUME TypeOK, [Next]_vars
    PROVE  EndsAreTyped' /\ PlainAreTyped'
<1> USE TypeParts DEF EndsAreTyped, PlainAreTyped
<1>1. CASE UNCHANGED vars \/ Expire
  BY <1>1 DEF vars, Expire
<1>2. CASE remaining_timeout \/ reply_timeout
  BY <1>2, OutcomesAre DEF remaining_timeout, reply_timeout, End
<1>3. CASE send_model_request \/ dispatch
  BY <1>3 DEF send_model_request, dispatch
<1>4. CASE answer
  BY <1>4, OutcomesAre DEF answer, End
<1>5. CASE output_delta
  BY <1>5 DEF output_delta
<1>6. CASE no_reply \/ error_reply
  <2>1. no_reply => outcome' = provider_error(TRUE, FALSE)
    BY DEF no_reply, End
  <2>2. error_reply => outcome' \in StatusErrors
    BY DEF error_reply, End
  <2>3. outcome' \in Outcomes /\ outcome'.kind = "error"
    BY <1>6, <2>1, <2>2, OutcomesAre DEF StatusErrors
  <2>4. pc' = "done" /\ UNCHANGED <<expired, submitted, effects>>
    BY <1>6 DEF no_reply, error_reply, End
  <2> QED BY <2>3, <2>4
<1>7. CASE malformed_reply
  BY <1>7, OutcomesAre DEF malformed_reply, End
<1>8. CASE action_reply \/ final_reply
  <2>1. /\ pc = "model" /\ UNCHANGED <<expired, submitted, effects>>
        /\ \/ pc' \in {"dispatch", "answer"} /\ outcome' = outcome
           \/ pc' = "done" /\ outcome' = run_error
    BY <1>8 DEF action_reply, final_reply, End
  <2> QED BY <2>1, OutcomesAre
<1>9. CASE tool_done
  <2>1. pc = "tool" /\ expired' = expired
    BY <1>9 DEF tool_done
  <2>2. submitted' \in BOOLEAN /\ effects' \in Nat
    <3>1. \/ submitted' = TRUE /\ effects' = effects + 1
          \/ UNCHANGED <<submitted, effects>>
      BY <1>9 DEF tool_done
    <3>2. effects + 1 \in Nat
      OBVIOUS
    <3> QED BY <3>1, <3>2
  <2>3. \/ pc' \in {"dispatch", "request"} /\ outcome' = outcome
        \/ pc' = "done" /\ outcome' \in {run_error, [Pending EXCEPT !.kind = "ended"]}
    BY <1>9 DEF tool_done, AfterTool, End
  <2> QED BY <2>1, <2>2, <2>3, OutcomesAre
<1>10. CASE tool_error \/ tool_timeout
  <2>1. effects' \in Nat
    BY <1>10 DEF tool_error, tool_timeout, EffectOrNot
  <2>2. pc' = "done" /\ outcome' \in {run_error, timeout_error} /\ UNCHANGED <<expired, submitted>>
    BY <1>10 DEF tool_error, tool_timeout, End
  <2> QED BY <2>1, <2>2, OutcomesAre
<1> QED BY <1>1, <1>2, <1>3, <1>4, <1>5, <1>6, <1>7, <1>8, <1>9, <1>10
        DEF Next, SessionStep, ModelStep, ToolStep

LEMMA CountsStep ==
    ASSUME TypeOK, LoopIsSound, ExecsAreSound, [Next]_vars
    PROVE  CountsAreTyped'
<1>1. MaxParallel \in Nat
  BY ConstantsAssumption
<1>2. Len(calls) \in Nat /\ Len(sent) \in Nat
  BY CallsAre
<1>3. CASE UNCHANGED vars \/ Expire
  BY <1>3 DEF vars, Expire, TypeOK, CountsAreTyped, Last
<1>4. CASE pc' = "done" /\ ran' \in {ran, 0}
  BY <1>1, <1>4 DEF TypeOK, CountsAreTyped
<1>5. CASE remaining_timeout \/ answer \/ reply_timeout \/ no_reply \/ error_reply \/ malformed_reply
           \/ tool_error \/ tool_timeout
  BY <1>4, <1>5 DEF remaining_timeout, answer, reply_timeout, no_reply, error_reply, malformed_reply,
                    tool_error, tool_timeout, End
<1>6. CASE send_model_request
  <2>1. Len(sent') = Len(sent) + 1
    BY <1>6 DEF send_model_request, TypeOK
  <2> QED BY <1>2, <1>6, <2>1 DEF send_model_request, TypeOK, CountsAreTyped, Last
<1>7. CASE output_delta \/ dispatch
  BY <1>7 DEF output_delta, dispatch, TypeOK, CountsAreTyped, Last
<1>8. CASE final_reply
  <2>1. Len(calls') = Len(calls) + 1
    BY <1>8 DEF final_reply, TypeOK
  <2> QED BY <1>2, <1>8, <2>1 DEF final_reply, TypeOK, CountsAreTyped, End
<1>9. CASE action_reply
  <2>1. PICK c \in RequestedCalls \ {<<>>} : calls' = Append(calls, Call("action_selection", c, Len(c)))
    BY <1>9 DEF action_reply
  <2> DEFINE e == Call("action_selection", c, Len(c))
  <2>2. e.requested = c
    BY DEF Call
  <2> HIDE DEF e
  <2>3. calls' = Append(calls, e)
    BY <2>1 DEF e
  <2>4. Len(calls') = Len(calls) + 1 /\ calls'[Len(calls) + 1] = e
    BY <1>2, <2>3 DEF TypeOK
  <2>5. Last' = e
    BY <2>4 DEF Last
  <2>6. Len(c) \in Nat /\ Len(c) > 0
    BY <1>1, RequestedIs
  <2>7. /\ pc = "model" /\ ran' = 0 /\ sent' = sent /\ pc' \in {"dispatch", "done"}
    BY <1>9 DEF action_reply, FirstTool, End
  <2>8. Len(sent) = Len(calls) + 1
    BY <2>7 DEF TypeOK
  <2> QED BY <1>1, <1>2, <2>2, <2>4, <2>5, <2>6, <2>7, <2>8 DEF CountsAreTyped
<1>10. CASE tool_done
  <2>1. /\ pc = "tool" /\ ran' = ran + 1 /\ UNCHANGED <<sent, calls>>
        /\ pc' \in {"done", "dispatch", "request"}
        /\ pc' = "dispatch" => ran + 1 < Len(Last.requested)
    BY <1>10 DEF tool_done, AfterTool, End
  <2>2. calls # <<>> /\ Len(sent) = Len(calls) /\ ran < Len(Last.requested) /\ ran \in 0 .. MaxParallel
    BY <1>2, <2>1 DEF TypeOK, LoopIsSound
  <2>3. Len(calls) \in DOMAIN calls
    BY <1>2, <2>2, EmptySeq DEF TypeOK
  <2>4. Len(Last.requested) \in 0 .. MaxParallel
    BY <2>3, CallsAre DEF Last
  <2>5. ran + 1 \in 0 .. MaxParallel
    BY <1>1, <2>2, <2>4
  <2>6. Last' = Last
    BY <2>1 DEF Last
  <2> QED BY <2>1, <2>2, <2>5, <2>6 DEF CountsAreTyped
<1> QED BY <1>3, <1>5, <1>6, <1>7, <1>8, <1>9, <1>10 DEF Next, SessionStep, ModelStep, ToolStep

LEMMA ListsStep ==
    ASSUME TypeOK, LoopIsSound, ExecsAreSound, ShowsTheReply, [Next]_vars
    PROVE  ListsAreTyped'
<1>1. /\ history \in Seq(Entries) /\ sent \in Seq(Seq(Entries)) /\ execs \in Seq(Entries)
      /\ calls \in Seq(Entered)
      /\ shown \in Seq((1 .. MaxModelCalls) \X (1 .. MaxTexts))
  BY TypeParts DEF ListsAreTyped
<1>2. /\ MaxModelCalls \in Nat /\ MaxParallel \in Nat /\ MaxTexts \in Nat
      /\ MaxTexts > 0 /\ MaxModelCalls > 0
  BY ConstantsAssumption
<1>3. CASE UNCHANGED <<history, sent, calls, execs, shown>>
  BY <1>1, <1>3 DEF ListsAreTyped
<1>4. CASE UNCHANGED vars \/ Expire \/ remaining_timeout \/ dispatch \/ reply_timeout \/ no_reply
           \/ tool_error \/ tool_timeout
  BY <1>3, <1>4 DEF vars, Expire, remaining_timeout, dispatch, reply_timeout, no_reply, tool_error,
                    tool_timeout
<1>5. CASE send_model_request
  <2>1. sent' = Append(sent, history) /\ UNCHANGED <<history, calls, execs, shown>>
    BY <1>5 DEF send_model_request
  <2>2. sent' \in Seq(Seq(Entries))
    BY <1>1, <2>1
  <2> QED BY <1>1, <2>1, <2>2 DEF ListsAreTyped
<1>6. ASSUME pc \in {"model", "answer"}, NEW x \in 1 .. MaxTexts, shown' = Append(shown, <<Len(sent), x>>)
      PROVE  shown' \in Seq((1 .. MaxModelCalls) \X (1 .. MaxTexts))
  <2>1. Len(sent) > 0
    <3>1. pc = "answer" => Len(calls) > 0
      <4>1. Len(calls) = 0 => calls = <<>>
        BY EmptySeq DEF TypeOK
      <4> QED BY <4>1, CallsAre DEF LoopIsSound
    <3> QED BY <1>6, <3>1, CallsAre DEF TypeOK
  <2>2. Len(sent) \in 1 .. MaxModelCalls
    BY <1>2, <2>1, CallsAre DEF LoopIsSound
  <2> QED BY <1>1, <1>6, <2>2
<1>7. CASE answer
  <2>1. /\ UNCHANGED <<history, sent, calls, execs>> /\ pc = "answer"
        /\ shown' = shown \/ shown' = Append(shown, <<Len(sent), 1>>)
    BY <1>7 DEF answer, Answer
  <2>2. 1 \in 1 .. MaxTexts
    BY <1>2
  <2> QED BY <1>1, <1>6, <2>1, <2>2 DEF ListsAreTyped
<1>8. CASE output_delta
  <2>1. /\ UNCHANGED <<history, sent, calls, execs>> /\ pc = "model"
        /\ shown' = Append(shown, <<Len(sent), StreamedNow + 1>>) /\ StreamedNow < MaxTexts
    BY <1>8 DEF output_delta
  <2>2. StreamedNow + 1 \in 1 .. MaxTexts
    BY <1>2, <2>1, StreamedIs
  <2> QED BY <1>1, <1>6, <2>1, <2>2 DEF ListsAreTyped
<1>9. CASE error_reply \/ malformed_reply \/ action_reply \/ final_reply
  <2>1. \E c \in Entered : calls' = Append(calls, c)
    <3>1. CASE error_reply \/ final_reply
      <4>1. <<>> \in RequestedCalls /\ 0 \in 0 .. MaxParallel
        <5>1. <<>> \in [1 .. 0 -> Tools \cup {NotATool}] /\ 0 \in 0 .. MaxParallel
          BY <1>2
        <5> QED BY <5>1 DEF RequestedCalls
      <4>2. \A s \in {"error", "final_answer"} : Call(s, <<>>, 0) \in Entered
        BY <4>1 DEF Call, Entered
      <4> QED BY <3>1, <4>2 DEF error_reply, final_reply
    <3>2. CASE malformed_reply \/ action_reply
      <4>1. PICK q \in RequestedCalls, k \in Nat :
               k \in {0, Len(q)} /\ calls' = Append(calls, Call("action_selection", q, k))
        <5>1. \A q \in RequestedCalls : Len(q) \in Nat
          BY <1>2, RequestedIs
        <5> QED BY <3>2, <5>1 DEF malformed_reply, action_reply
      <4>2. k \in 0 .. MaxParallel
        <5>1. Len(q) \in 0 .. MaxParallel
          BY RequestedIs
        <5> QED BY <1>2, <4>1, <5>1
      <4>3. Call("action_selection", q, k) \in Entered
        BY <4>2 DEF Call, Entered
      <4> QED BY <4>1, <4>3
    <3> QED BY <1>9, <3>1, <3>2
  <2>2. calls' \in Seq(Entered)
    BY <1>1, <2>1
  <2>3. UNCHANGED <<history, sent, execs>> /\ (shown' = shown \/ shown' = <<>>)
    BY <1>9 DEF error_reply, malformed_reply, action_reply, final_reply, AfterReset
  <2>4. shown' \in Seq((1 .. MaxModelCalls) \X (1 .. MaxTexts))
    <3>1. <<>> \in Seq((1 .. MaxModelCalls) \X (1 .. MaxTexts))
      BY EmptySeq
    <3> QED BY <1>1, <2>3, <3>1
  <2> QED BY <1>1, <2>2, <2>3, <2>4 DEF ListsAreTyped
<1>10. CASE tool_done
  <2>1. PICK o \in {"ok", "input_error"} :
           /\ execs' = Append(execs, Name(Len(calls), ran + 1, o))
           /\ history' = history \/ history' = history \o Continuation(Len(calls), OutputsWith(o))
    BY <1>10 DEF tool_done, AfterTool, End
  <2>2. /\ pc = "tool" /\ UNCHANGED <<sent, calls, shown>>
    BY <1>10 DEF tool_done
  <2>3. calls # <<>> /\ ran < Len(Last.requested) /\ ran \in Nat
    BY <1>2, <2>2 DEF TypeOK, LoopIsSound
  <2>4. Len(calls) \in DOMAIN calls /\ Len(calls) \in Nat /\ Len(calls) > 0
    BY <2>3, EmptySeq, CallsAre DEF TypeOK
  <2>5. Len(calls) \in 1 .. MaxModelCalls
    BY <1>2, <2>4, CallsAre DEF LoopIsSound
  <2>6. ran + 1 \in 1 .. MaxParallel
    <3>1. Len(Last.requested) \in 0 .. MaxParallel
      BY <2>4, CallsAre DEF Last
    <3> QED BY <1>2, <2>3, <3>1
  <2> DEFINE e == Name(Len(calls), ran + 1, o)
  <2>7. e \in Entries /\ Reply(Len(calls)) \in Entries
    BY <2>5, <2>6 DEF Entries
  <2>8. ran <= Len(execs) /\ Len(execs) \in Nat
    <3>1. Len(execs) = ToolIndex[Len(calls)] + Ran(Len(calls)) /\ ToolIndex[Len(calls)] \in Nat
      BY <2>2, <2>3, <2>4 DEF ExecsAreSound, Going
    <3>2. Ran(Len(calls)) = ran
      BY <2>2, <2>4 DEF Ran
    <3> QED BY <2>3, <3>1, <3>2
  <2>9. OutputsWith(o) \in Seq(Entries)
    <3>1. Len(execs) - ran + 1 \in 1 .. Len(execs) + 1 /\ Len(execs) \in Len(execs) - ran + 1 - 1 .. Len(execs)
      BY <2>3, <2>8
    <3>2. SubSeq(execs, Len(execs) - ran + 1, Len(execs)) \in Seq(Entries)
      BY <1>1, <3>1, SubSeqProperties
    <3>3. <<e>> \in Seq(Entries)
      BY <2>7
    <3> QED BY <3>2, <3>3, ConcatProperties DEF OutputsWith
  <2>10. Continuation(Len(calls), OutputsWith(o)) \in Seq(Entries)
    <3>1. <<Reply(Len(calls))>> \in Seq(Entries)
      BY <2>7
    <3> QED BY <2>9, <3>1, ConcatProperties DEF Continuation
  <2>11. history' \in Seq(Entries)
    BY <1>1, <2>1, <2>10, ConcatProperties
  <2>12. execs' \in Seq(Entries)
    BY <1>1, <2>1, <2>7
  <2> QED BY <1>1, <2>2, <2>11, <2>12 DEF ListsAreTyped
<1> QED BY <1>4, <1>5, <1>7, <1>8, <1>9, <1>10 DEF Next, SessionStep, ModelStep, ToolStep

-----------------------------------------------------------------------------
(* What was written *)

\* A step that is not the execution of a tool writes nothing, and changes nothing
\* of which executions did.
LEMMA SameWritten ==
    ASSUME TypeOK, ExecsAreSound, execs' = execs,
           \A n \in DOMAIN calls : calls'[n] = calls[n]
    PROVE  /\ Written' = Written
           /\ \A i \in DOMAIN execs : ToolOf(i)' = ToolOf(i)
<1>1. \A i \in DOMAIN execs : ToolOf(i)' = ToolOf(i)
  <2> TAKE i \in DOMAIN execs
  <2>1. execs[i].call \in DOMAIN calls
    BY DEF ExecsAreSound
  <2> QED BY <2>1 DEF ToolOf
<1>2. Written' = {i \in DOMAIN execs : execs[i].output = "ok" /\ ToolOf(i)' \in Submitting}
  BY DEF Written
<1> QED BY <1>1, <1>2 DEF Written

LEMMA SameWrites ==
    ASSUME TypeOK, ExecsAreSound, WritesAreSound, pc # "done", UNCHANGED <<execs, submitted, effects>>,
           \A n \in DOMAIN calls : calls'[n] = calls[n],
           \/ pc' # "done" /\ outcome' = outcome
           \/ pc' = "done" /\ outcome'.kind = "error"
           \/ pc' = "done" /\ outcome'.kind = "answered" /\ finalize
    PROVE  WritesAreSound'
<1>1. Written' = Written /\ \A i \in DOMAIN execs : ToolOf(i)' = ToolOf(i)
  BY SameWritten
<1>2. effects' = Cardinality(Written')
  BY <1>1 DEF WritesAreSound
<1>3. submitted' => effects' > 0
  BY DEF WritesAreSound
<1>4. outcome'.kind \in {"ended", "answered"} => finalize'
  <2>1. outcome.kind = "pending"
    BY DEF TypeOK
  <2>2. finalize' = finalize
    BY DEF finalize
  <2> QED BY <2>1, <2>2
<1>5. \A i \in DOMAIN execs : execs[i].output = "ok" => ToolOf(i)' \notin Terminal
  BY <1>1 DEF WritesAreSound
<1> QED BY <1>2, <1>3, <1>4, <1>5 DEF WritesAreSound

LEMMA WritesStep ==
    ASSUME TypeOK, LoopIsSound, ExecsAreSound, WritesAreSound, [Next]_vars
    PROVE  WritesAreSound'
<1>1. CASE UNCHANGED vars
  BY <1>1 DEF vars, WritesAreSound, Written, ToolOf, finalize
<1>2. CASE Expire \/ remaining_timeout \/ send_model_request \/ dispatch \/ output_delta
           \/ reply_timeout
  <2>1. /\ pc # "done" /\ UNCHANGED <<execs, submitted, effects, calls>>
        /\ \/ pc' # "done" /\ outcome' = outcome
           \/ pc' = "done" /\ outcome' = timeout_error
    BY <1>2 DEF Expire, remaining_timeout, send_model_request, dispatch, output_delta, reply_timeout, End
  <2> QED BY <2>1, SameWrites, OutcomesAre
<1>3. CASE no_reply
  <2>1. pc # "done" /\ UNCHANGED <<execs, submitted, effects, calls>>
        /\ pc' = "done" /\ outcome'.kind = "error"
    BY <1>3, OutcomesAre DEF no_reply, End
  <2> QED BY <2>1, SameWrites
<1>4. CASE answer
  <2>1. /\ pc # "done" /\ UNCHANGED <<execs, submitted, effects, calls>> /\ pc' = "done"
        /\ outcome'.kind = "error" \/ (outcome'.kind = "answered" /\ finalize)
    BY <1>4, OutcomesAre DEF answer, End
  <2> QED BY <2>1, SameWrites
<1>5. CASE error_reply \/ malformed_reply \/ action_reply \/ final_reply
  <2>1. \E c : calls' = Append(calls, c)
    BY <1>5 DEF error_reply, malformed_reply, action_reply, final_reply
  <2>2. \A n \in DOMAIN calls : calls'[n] = calls[n]
    BY <2>1, CallsAre, SMTT(30) DEF TypeOK
  <2>3. /\ pc # "done" /\ UNCHANGED <<execs, submitted, effects>>
        /\ \/ pc' # "done" /\ outcome' = outcome
           \/ pc' = "done" /\ outcome' \in StatusErrors \cup {run_error}
    BY <1>5 DEF error_reply, malformed_reply, action_reply, final_reply, End
  <2>4. \A e \in StatusErrors \cup {run_error} : e.kind = "error"
    BY OutcomesAre DEF StatusErrors
  <2> QED BY <2>2, <2>3, <2>4, SameWrites
<1>6. CASE tool_error \/ tool_timeout
  <2>1. /\ UNCHANGED <<execs, submitted, calls>> /\ pc' = "done"
        /\ outcome' \in {run_error, timeout_error} /\ effects' \in {effects, effects + 1}
    BY <1>6 DEF tool_error, tool_timeout, End, EffectOrNot
  <2>2. outcome'.kind = "error"
    BY <2>1, OutcomesAre
  <2>3. effects \in Nat
    BY DEF TypeOK
  <2>4. submitted' => effects' > 0
    BY <2>1, <2>3 DEF WritesAreSound
  <2> QED BY <2>1, <2>2, <2>4 DEF WritesAreSound
<1>7. CASE tool_done
  <2> DEFINE t == Last.requested[ran + 1]
  <2>1. PICK o \in {"ok", "input_error"} :
           /\ execs' = Append(execs, Name(Len(calls), ran + 1, o))
           /\ IF t \in Submitting /\ o = "ok"
              THEN submitted' = TRUE /\ effects' = effects + 1
              ELSE UNCHANGED <<submitted, effects>>
           /\ AfterTool(t, o)
    BY <1>7 DEF tool_done
  <2>2. pc = "tool" /\ UNCHANGED <<sent, calls>>
    BY <1>7 DEF tool_done
  <2> DEFINE e == Name(Len(calls), ran + 1, o)
  <2>3. e.call = Len(calls) /\ e.index = ran + 1 /\ e.output = o
    BY EntryFields
  <2> HIDE DEF e
  <2>4. execs' = Append(execs, e)
    BY <2>1 DEF e
  <2>5. PICK E \in Nat :
        /\ DOMAIN execs = 1 .. E /\ DOMAIN execs' = 1 .. E + 1
        /\ \A i \in 1 .. E : execs'[i] = execs[i]
        /\ execs'[E + 1] = e
    <3>1. PICK E \in Nat : E = Len(execs) /\ DOMAIN execs = 1 .. E
      BY CallsAre
    <3>2. DOMAIN execs' = 1 .. E + 1 /\ (\A i \in 1 .. E : execs'[i] = execs[i]) /\ execs'[E + 1] = e
      <4>1. execs \in Seq(Entries)
        BY DEF TypeOK
      <4> QED BY ONLY <2>4, <3>1, <4>1
    <3> QED BY ONLY <3>1, <3>2, Zenon
  <2>6. \A i \in 1 .. E : ToolOf(i)' = ToolOf(i)
    BY <2>2, <2>5 DEF ToolOf
  <2>7. \A i : i = E + 1 => ToolOf(i)' = t
    BY <2>2, <2>3, <2>5 DEF ToolOf, Last
  <2> HIDE DEF t
  <2>8. effects = Cardinality(Written) /\ effects \in Nat
    BY <2>2 DEF WritesAreSound, TypeOK
  <2>9. Written' = Written \cup (IF t \in Submitting /\ o = "ok" THEN {E + 1} ELSE {})
    <3>1. Written' = {i \in 1 .. E + 1 : execs'[i].output = "ok" /\ ToolOf(i)' \in Submitting}
      BY <2>5 DEF Written
    <3>2. Written = {i \in 1 .. E : execs[i].output = "ok" /\ ToolOf(i) \in Submitting}
      BY <2>5 DEF Written
    <3>3. \A i \in 1 .. E : i \in Written' <=> i \in Written
      <4> TAKE i \in 1 .. E
      <4>1. i \in 1 .. E + 1 /\ execs'[i] = execs[i] /\ ToolOf(i)' = ToolOf(i)
        BY <2>5, <2>6
      <4> QED BY <3>1, <3>2, <4>1
    <3>4. E + 1 \in Written' <=> t \in Submitting /\ o = "ok"
      <4>1. E + 1 \in 1 .. E + 1 /\ execs'[E + 1].output = o
        BY <2>3, <2>5
      <4>2. ToolOf(E + 1)' = t
        BY <2>7
      <4> QED BY <3>1, <4>1, <4>2
    <3>5. Written \subseteq 1 .. E /\ Written' \subseteq 1 .. E + 1 /\ 1 .. E + 1 = (1 .. E) \cup {E + 1}
      BY <2>5, <3>1, <3>2
    <3> QED BY <3>3, <3>4, <3>5
  <2>10. effects' = Cardinality(Written')
    <3>1. E + 1 \notin Written /\ IsFiniteSet(Written)
      <4>1. Written \subseteq 1 .. E /\ E + 1 \notin 1 .. E
        BY <2>5 DEF Written
      <4>2. IsFiniteSet(1 .. E)
        BY <2>5, FS_Interval
      <4> QED BY <4>1, <4>2, FS_Subset
    <3>2. Cardinality(Written \cup {E + 1}) = Cardinality(Written) + 1
      BY <3>1, FS_AddElement
    <3> QED BY <2>1, <2>8, <2>9, <3>2
  <2>11. submitted' => effects' > 0
    <3>1. submitted => effects > 0
      BY DEF WritesAreSound
    <3>2. CASE effects' = effects + 1
      BY <2>8, <3>2
    <3>3. CASE UNCHANGED <<submitted, effects>>
      BY <3>1, <3>3
    <3> QED BY <2>1, <3>2, <3>3
  <2>12. outcome'.kind \in {"ended", "answered"} => finalize'
    <3>1. outcome.kind = "pending"
      BY <2>2 DEF TypeOK
    <3>2. outcome' = outcome \/ outcome' = run_error \/ finalize'
      BY <2>1 DEF AfterTool, End
    <3> QED BY <3>1, <3>2, OutcomesAre
  <2>13. pc' # "done" => \A i \in DOMAIN execs' : execs'[i].output = "ok" => ToolOf(i)' \notin Terminal
    <3> SUFFICES ASSUME pc' # "done", NEW i \in 1 .. E + 1, execs'[i].output = "ok"
                 PROVE  ToolOf(i)' \notin Terminal
      BY <2>5
    <3>1. CASE i \in 1 .. E
      BY <2>2, <2>5, <2>6, <3>1 DEF WritesAreSound
    <3>2. CASE i = E + 1
      <4>1. o = "ok" /\ ToolOf(i)' = t
        BY <2>3, <2>5, <2>7, <3>2
      <4>2. ~EndsSession(t, o)
        BY <2>1 DEF AfterTool, End
      <4> QED BY <4>1, <4>2 DEF EndsSession
    <3>3. i \in 1 .. E \/ i = E + 1
      BY <2>5
    <3> QED BY <3>1, <3>2, <3>3
  <2> QED BY <2>10, <2>11, <2>12, <2>13 DEF WritesAreSound
<1> QED BY <1>1, <1>2, <1>3, <1>4, <1>5, <1>6, <1>7 DEF Next, SessionStep, ModelStep, ToolStep

-----------------------------------------------------------------------------
(* What is shown *)

LEMMA ShowsStep ==
    ASSUME TypeOK, ShowsTheReply, ShownIsAnswer, [Next]_vars
    PROVE  ShowsTheReply' /\ ShownIsAnswer'
<1>1. CASE UNCHANGED vars
  BY <1>1 DEF vars, ShowsTheReply, ShownIsAnswer, Answer
<1>2. pc # "done" => outcome.kind = "pending"
  BY DEF TypeOK
<1>3. ASSUME pc # "done", UNCHANGED <<shown, sent>>,
             \/ pc' = pc
             \/ pc \in {"dispatch", "tool"} /\ pc' \in {"dispatch", "tool", "request"}
             \/ pc = "model" /\ pc' = "answer"
             \/ pc' = "done"
      PROVE  ShowsTheReply'
  BY <1>3 DEF ShowsTheReply
<1>4. CASE Expire \/ remaining_timeout \/ dispatch \/ reply_timeout \/ no_reply
  <2>1. ShowsTheReply'
    BY <1>3, <1>4 DEF Expire, remaining_timeout, dispatch, reply_timeout, no_reply, End
  <2>2. outcome' = outcome \/ outcome'.kind = "error"
    BY <1>4, OutcomesAre DEF Expire, remaining_timeout, dispatch, reply_timeout, no_reply, End
  <2>3. pc # "done"
    BY <1>4 DEF Expire, remaining_timeout, dispatch, reply_timeout, no_reply
  <2> QED BY <1>2, <2>1, <2>2, <2>3 DEF ShownIsAnswer
<1>5. CASE send_model_request
  <2>1. pc = "request" /\ pc' = "model" /\ UNCHANGED <<shown, outcome>>
    BY <1>5 DEF send_model_request
  <2>2. shown' = <<>>
    BY <2>1 DEF ShowsTheReply
  <2>3. Len(shown') = 0 /\ DOMAIN shown' = {}
    BY <2>2
  <2>4. ShowsTheReply'
    BY <2>1, <2>3, ConstantsAssumption DEF ShowsTheReply
  <2> QED BY <1>2, <2>1, <2>4 DEF ShownIsAnswer
<1>6. CASE output_delta
  <2>1. /\ pc = "model" /\ pc' = pc /\ UNCHANGED <<sent, outcome>> /\ StreamedNow < MaxTexts
        /\ shown' = Append(shown, <<Len(sent), StreamedNow + 1>>)
    BY <1>6 DEF output_delta
  <2>2. PICK M \in Nat : M = Len(shown) /\ M = StreamedNow /\ DOMAIN shown = 1 .. M
    BY <2>1, StreamedIs
  <2>3. /\ Len(shown') = M + 1 /\ DOMAIN shown' = 1 .. M + 1
        /\ \A i \in 1 .. M : shown'[i] = shown[i]
        /\ shown'[M + 1] = <<Len(sent), M + 1>>
    BY <2>1, <2>2 DEF TypeOK
  <2>4. \A i \in 1 .. M + 1 : shown'[i] = <<Len(sent), i>>
    <3> TAKE i \in 1 .. M + 1
    <3>1. CASE i \in 1 .. M
      BY <2>1, <2>2, <2>3, <3>1 DEF ShowsTheReply
    <3>2. CASE i = M + 1
      BY <2>3, <3>2
    <3> QED BY <3>1, <3>2
  <2>5. M + 1 <= MaxTexts
    BY <2>1, <2>2, ConstantsAssumption
  <2>6. ShowsTheReply'
    BY <2>1, <2>3, <2>4, <2>5 DEF ShowsTheReply
  <2> QED BY <1>2, <2>1, <2>6 DEF ShownIsAnswer
<1>7. CASE error_reply \/ malformed_reply \/ action_reply \/ final_reply
  <2>1. outcome' = outcome \/ outcome'.kind = "error"
    <3>1. outcome' = outcome \/ outcome' \in StatusErrors \cup {run_error}
      BY <1>7 DEF error_reply, malformed_reply, action_reply, final_reply, End
    <3>2. \A e \in StatusErrors \cup {run_error} : e.kind = "error"
      BY OutcomesAre DEF StatusErrors
    <3> QED BY <3>1, <3>2
  <2>2. pc = "model"
    BY <1>7 DEF error_reply, malformed_reply, action_reply, final_reply
  <2>3. ShowsTheReply'
    <3>1. CASE action_reply
      BY <3>1 DEF action_reply, AfterReset, ShowsTheReply, End
    <3>2. CASE error_reply \/ malformed_reply \/ final_reply
      BY <1>3, <3>2 DEF error_reply, malformed_reply, final_reply, End
    <3> QED BY <1>7, <3>1, <3>2
  <2> QED BY <1>2, <2>1, <2>2, <2>3 DEF ShownIsAnswer
<1>8. CASE tool_done \/ tool_error \/ tool_timeout
  <2>1. /\ pc = "tool" /\ UNCHANGED <<shown, sent>>
        /\ pc' \in {"dispatch", "request", "done"}
        /\ outcome' = outcome \/ outcome' \in {run_error, timeout_error, [Pending EXCEPT !.kind = "ended"]}
    BY <1>8 DEF tool_done, tool_error, tool_timeout, AfterTool, End
  <2>2. outcome'.kind # "answered"
    BY <1>2, <2>1, OutcomesAre
  <2> QED BY <1>3, <2>1, <2>2 DEF ShownIsAnswer
<1>9. CASE answer
  <2>1. /\ pc = "answer" /\ pc' = "done" /\ sent' = sent
        /\ shown' = IF Streaming /\ StreamedNow = 0 THEN Append(shown, Answer) ELSE shown
    BY <1>9 DEF answer, End
  <2>2. ShowsTheReply'
    BY <2>1 DEF ShowsTheReply
  <2>3. PICK M \in Nat : M = Len(shown) /\ M = StreamedNow /\ DOMAIN shown = 1 .. M
    BY <2>1, StreamedIs
  <2>4. \A i \in 1 .. M : shown[i] = <<Len(sent), i>>
    BY <2>1, <2>3 DEF ShowsTheReply
  <2>5. ASSUME Streaming
        PROVE  shown' # <<>> /\ Head(shown') = <<Len(sent), 1>> /\ \A i \in DOMAIN shown' : shown'[i][1] = Len(sent)
    <3>1. CASE M = 0
      <4>1. shown = <<>>
        BY <2>3, <3>1, EmptySeq DEF TypeOK
      <4>2. shown' = <<<<Len(sent), 1>>>>
        BY <2>1, <2>3, <2>5, <3>1, <4>1 DEF Answer
      <4> QED BY <4>2
    <3>2. CASE M # 0
      <4>1. shown' = shown /\ shown # <<>> /\ 1 \in 1 .. M
        BY <2>1, <2>3, <3>2
      <4> QED BY <2>3, <2>4, <4>1
    <3> QED BY <3>1, <3>2
  <2>6. ShownIsAnswer'
    BY <2>1, <2>5 DEF ShownIsAnswer, Answer
  <2> QED BY <2>2, <2>6
<1> QED BY <1>1, <1>4, <1>5, <1>6, <1>7, <1>8, <1>9 DEF Next, SessionStep, ModelStep, ToolStep

-----------------------------------------------------------------------------
(* The theorems *)

LEMMA InitSound == Init => Inv
<1> SUFFICES ASSUME Init PROVE Inv
  OBVIOUS
<1>1. TypeOK
  <2>1. /\ <<>> \in Seq(Entries) /\ <<>> \in Seq(Seq(Entries)) /\ <<>> \in Seq(Entered)
        /\ <<>> \in Seq((1 .. MaxModelCalls) \X (1 .. MaxTexts)) /\ Len(<<>>) = 0
    OBVIOUS
  <2>2. 0 \in 0 .. MaxParallel
    BY ConstantsAssumption
  <2>3. EndsAreTyped /\ PlainAreTyped
    BY OutcomesAre DEF Init, EndsAreTyped, PlainAreTyped
  <2>4. ListsAreTyped
    BY <2>1 DEF Init, ListsAreTyped
  <2>5. CountsAreTyped
    BY <2>1, <2>2 DEF Init, CountsAreTyped
  <2> QED BY <2>3, <2>4, <2>5, TypeParts
<1>2. Len(calls) = 0 /\ Len(sent) = 0 /\ DOMAIN calls = {} /\ DOMAIN sent = {} /\ DOMAIN execs = {}
      /\ DOMAIN history = {} /\ Len(execs) = 0
  BY DEF Init
<1>3. LoopIsSound
  BY <1>2, ConstantsAssumption DEF Init, LoopIsSound
<1>4. ExecsAreSound
  BY <1>2 DEF Init, ExecsAreSound
<1>5. RequestsAreSound
  BY <1>2 DEF Init, RequestsAreSound, Answered
<1>6. WritesAreSound
  <2>1. Written = {}
    BY <1>2 DEF Written
  <2> QED BY <1>2, <2>1, FS_EmptySet DEF Init, WritesAreSound, Pending
<1>7. ShowsTheReply /\ ShownIsAnswer
  BY DEF Init, ShowsTheReply, ShownIsAnswer, Pending
<1> QED BY <1>1, <1>3, <1>4, <1>5, <1>6, <1>7 DEF Inv

LEMMA StepSound == Inv /\ [Next]_vars => Inv'
<1> SUFFICES ASSUME Inv, [Next]_vars PROVE Inv'
  OBVIOUS
<1>1. /\ TypeOK /\ LoopIsSound /\ ExecsAreSound /\ RequestsAreSound /\ WritesAreSound
      /\ ShowsTheReply /\ ShownIsAnswer
  BY DEF Inv
<1>2. EndsAreTyped' /\ PlainAreTyped' /\ CountsAreTyped' /\ ListsAreTyped'
  BY <1>1, EndsStep, CountsStep, ListsStep
<1>3. TypeOK'
  <2>1. (EndsAreTyped /\ CountsAreTyped /\ ListsAreTyped /\ PlainAreTyped => TypeOK)'
    BY TypeParts, PTL
  <2> QED BY <1>2, <2>1
<1>4. LoopIsSound' /\ ExecsAreSound' /\ RequestsAreSound'
  BY <1>1, ConversationStep
<1>5. WritesAreSound'
  BY <1>1, WritesStep
<1>6. ShowsTheReply' /\ ShownIsAnswer'
  BY <1>1, ShowsStep
<1> QED BY <1>3, <1>4, <1>5, <1>6 DEF Inv

LEMMA AlwaysSound == Spec => []Inv
<1>1. Init => Inv
  BY InitSound
<1>2. Inv /\ [Next]_vars => Inv'
  BY StepSound
<1> QED BY <1>1, <1>2, PTL DEF Spec

\* The session's state keeps its types, for any tools and any bounds: the loop of
\* run_tool_calling_agent never reads a tool that the reply did not ask for.
THEOREM TypeCorrect == Spec => []TypeOK
<1>1. Inv => TypeOK
  BY DEF Inv
<1> QED BY <1>1, AlwaysSound, PTL

LEMMA ConversationIsSound ==
    ASSUME Inv
    PROVE  SessionIsSound
<1>1. CallsAreAnswered
  BY DEF Inv, RequestsAreSound, CallsAreAnswered
<1>2. TerminalAlone
  <2> SUFFICES ASSUME NEW i \in DOMAIN execs,
                      calls[execs[i].call].requested[execs[i].index] \in Terminal
               PROVE  calls[execs[i].call].count = 1
    BY DEF TerminalAlone
  <2>1. PICK n \in DOMAIN calls : n = execs[i].call
    BY DEF Inv, ExecsAreSound
  <2>2. Whole(calls[n]) /\ execs[i].index \in DOMAIN calls[n].requested
    BY <2>1 DEF Inv, ExecsAreSound
  <2> QED BY <2>1, <2>2 DEF Whole, AllowedTogether
<1>3. NoHiddenWrite
  <2> SUFFICES ASSUME outcome.kind \in {"ended", "answered"}
               PROVE  (Submitting # {} => effects > 0) /\ effects = Cardinality(Written)
    BY DEF NoHiddenWrite, Written, ToolOf
  <2> QED BY DEF Inv, WritesAreSound, finalize
<1> QED BY <1>1, <1>2, <1>3 DEF SessionIsSound

\* Whatever the model asks for and the tools return, every request answers each
\* call of the replies before it with its outputs, in their order, once; a
\* terminal tool is executed only alone; and a session that ends well has told
\* the model of every write of dispatch_async, and of one where one is demanded.
THEOREM EveryCallIsAnswered == Spec => []SessionIsSound
<1>1. Inv => SessionIsSound
  BY ConversationIsSound
<1> QED BY <1>1, AlwaysSound, PTL

LEMMA BareIs ==
    ASSUME NEW S, NEW h \in Seq(S)
    PROVE  /\ Bare(h) \in Seq({WithoutReasoning(e) : e \in S}) /\ Len(Bare(h)) = Len(h)
           /\ \A j \in 1 .. Len(h) : Bare(h)[j] = WithoutReasoning(h[j])
<1>1. DOMAIN h = 1 .. Len(h) /\ Len(h) \in Nat /\ \A j \in 1 .. Len(h) : h[j] \in S
  OBVIOUS
<1> QED BY <1>1 DEF Bare

\* What can be rebuilt of a request and what follows it.
LEMMA BareOfBoth ==
    ASSUME NEW S, NEW h \in Seq(S), NEW c \in Seq(S)
    PROVE  Bare(h \o c) = Bare(h) \o Bare(c)
<1> DEFINE W == {WithoutReasoning(e) : e \in S}
<1>1. h \o c \in Seq(S) /\ Len(h \o c) = Len(h) + Len(c) /\ Len(h) \in Nat /\ Len(c) \in Nat
      /\ \A j \in 1 .. Len(h) + Len(c) : (h \o c)[j] = IF j <= Len(h) THEN h[j] ELSE c[j - Len(h)]
  BY ConcatProperties
<1>2. /\ Bare(h) \in Seq(W) /\ Len(Bare(h)) = Len(h) /\ Bare(c) \in Seq(W) /\ Len(Bare(c)) = Len(c)
      /\ Bare(h \o c) \in Seq(W) /\ Len(Bare(h \o c)) = Len(h) + Len(c)
      /\ \A j \in 1 .. Len(h) : Bare(h)[j] = WithoutReasoning(h[j])
      /\ \A j \in 1 .. Len(c) : Bare(c)[j] = WithoutReasoning(c[j])
      /\ \A j \in 1 .. Len(h) + Len(c) : Bare(h \o c)[j] = WithoutReasoning((h \o c)[j])
  BY <1>1, BareIs
<1> HIDE DEF W
<1>3. /\ Bare(h) \o Bare(c) \in Seq(W) /\ Len(Bare(h) \o Bare(c)) = Len(h) + Len(c)
      /\ \A j \in 1 .. Len(h) + Len(c) :
            (Bare(h) \o Bare(c))[j] = IF j <= Len(h) THEN Bare(h)[j] ELSE Bare(c)[j - Len(h)]
  <2> DEFINE bh == Bare(h)
             bc == Bare(c)
  <2>1. bh \in Seq(W) /\ bc \in Seq(W) /\ Len(bh) = Len(h) /\ Len(bc) = Len(c)
    BY <1>2
  <2> HIDE DEF bh, bc
  <2>2. /\ bh \o bc \in Seq(W) /\ Len(bh \o bc) = Len(bh) + Len(bc)
        /\ \A j \in 1 .. Len(bh) + Len(bc) : (bh \o bc)[j] = IF j <= Len(bh) THEN bh[j] ELSE bc[j - Len(bh)]
    BY <2>1, ConcatProperties
  <2> QED BY <2>1, <2>2 DEF bh, bc
<1>4. ASSUME NEW j \in 1 .. Len(h) + Len(c) PROVE Bare(h \o c)[j] = (Bare(h) \o Bare(c))[j]
  <2>1. CASE j <= Len(h)
    BY <1>1, <1>2, <1>3, <2>1
  <2>2. CASE ~(j <= Len(h))
    <3>1. j - Len(h) \in 1 .. Len(c)
      BY <1>1, <2>2
    <3> QED BY <1>1, <1>2, <1>3, <2>2, <3>1
  <2> QED BY <2>1, <2>2
<1> QED BY <1>2, <1>3, <1>4, SeqEqual

\* The executions at the places of a reply's calls are its outputs, named as they
\* were sent.
LEMMA OutputsAreStored ==
    ASSUME TypeOK, LoopIsSound, ExecsAreSound, NEW p \in DOMAIN calls, p < Len(calls)
    PROVE  /\ OutputsOf(p) \in Seq(Entries) /\ StoredOutputs(p) = OutputsOf(p)
           /\ \A k \in DOMAIN OutputsOf(p) : OutputsOf(p)[k].kind = "output"
<1>1. /\ Whole(calls[p]) /\ CountOf(calls[p]) = Len(calls[p].requested)
      /\ Len(calls[p].requested) \in Nat
      /\ DOMAIN calls[p].requested = 1 .. Len(calls[p].requested)
  <2>1. Whole(calls[p])
    BY DEF LoopIsSound
  <2> QED BY <2>1, CallsAre, RequestedIs DEF Whole
<1>2. PICK R \in Nat : R = Len(calls[p].requested)
  BY <1>1
<1>3. PICK a \in Nat : a = ToolIndex[p] /\ a + R <= Len(execs)
  <2>1. ToolIndex[p] \in Nat /\ ToolIndex[p] + Ran(p) <= Len(execs)
    BY DEF ExecsAreSound
  <2>2. Ran(p) = R
    BY <1>2 DEF Ran
  <2> QED BY <2>1, <2>2
<1>4. Len(execs) \in Nat /\ execs \in Seq(Entries) /\ DOMAIN execs = 1 .. Len(execs)
  BY CallsAre DEF TypeOK
<1>5. CallTools(p) = SubSeq(execs, a + 1, a + R) /\ OutputsOf(p) = SubSeq(execs, a + 1, a + R)
  <2>1. (IF a + R < Len(execs) THEN a + R ELSE Len(execs)) = a + R
    BY <1>3, <1>4
  <2> QED BY <1>1, <1>2, <1>3, <2>1 DEF CallTools, OutputsOf
<1>6. /\ SubSeq(execs, a + 1, a + R) \in Seq(Entries) /\ Len(SubSeq(execs, a + 1, a + R)) = R
      /\ \A k \in 1 .. R : SubSeq(execs, a + 1, a + R)[k] = execs[a + k]
  <2>1. PICK i \in Nat, j \in Nat : i = a + 1 /\ j = a + R
    OBVIOUS
  <2>2. /\ j - i + 1 = R /\ (IF i <= j THEN j - i + 1 ELSE 0) = R
        /\ \A k \in 1 .. R : i + k - 1 = a + k
    BY <2>1
  <2>3. \A k \in i .. j : execs[k] \in Entries
    BY <1>3, <1>4, <2>1, SMTT(30)
  <2>4. /\ SubSeq(execs, i, j) \in Seq(Entries) /\ Len(SubSeq(execs, i, j)) = IF i <= j THEN j - i + 1 ELSE 0
        /\ \A k \in 1 .. j - i + 1 : SubSeq(execs, i, j)[k] = execs[i + k - 1]
    BY <2>3, SubSeqProperties
  <2> QED BY <2>1, <2>2, <2>4
<1>7. ASSUME NEW k \in 1 .. R
      PROVE  execs[a + k].kind = "output" /\ execs[a + k] = Name(p, k, execs[a + k].output)
  <2>1. Ran(p) = R
    BY <1>2 DEF Ran
  <2>2. execs[a + k].kind = "output" /\ execs[a + k].call = p /\ execs[a + k].index = k
    BY <1>3, <2>1 DEF ExecsAreSound
  <2>3. execs[a + k] \in Entries
    BY <1>3, <1>4
  <2>4. execs[a + k].kind # "reply"
    BY <2>2
  <2>5. PICK n, i, o : execs[a + k] = Name(n, i, o)
    BY <2>3, <2>4, EntryFields DEF Entries
  <2>6. n = p /\ i = k /\ o = execs[a + k].output
    BY <2>2, <2>5, EntryFields
  <2> QED BY <2>2, <2>5, <2>6
<1> DEFINE out == SubSeq(execs, a + 1, a + R)
<1>8. {i \in DOMAIN calls[p].requested : i <= Len(CallTools(p))} = 1 .. R
  BY <1>1, <1>2, <1>5, <1>6
<1>9. StoredOutputs(p) = [k \in 1 .. R |-> Name(p, k, out[k].output)]
  BY <1>5, <1>8 DEF StoredOutputs
<1>10. DOMAIN out = 1 .. R /\ out = [k \in 1 .. R |-> out[k]]
  <2>1. out \in Seq(Entries) /\ Len(out) = R
    BY <1>6
  <2> HIDE DEF out
  <2> QED BY <2>1
<1>11. \A k \in 1 .. R : Name(p, k, out[k].output) = out[k] /\ out[k].kind = "output"
  BY <1>6, <1>7
<1> HIDE DEF out
<1> QED BY <1>5, <1>6, <1>9, <1>10, <1>11 DEF out

\* One request is rebuilt from the one before as it was sent.
LEMMA BodyFollows ==
    ASSUME NEW protocol \in Protocols, NEW n, NEW h \in Seq(Entries), Reply(n) \in Entries,
           NEW outs \in Seq(Entries), \A k \in DOMAIN outs : outs[k].kind = "output"
    PROVE  Rebuildable(protocol, h) \o <<StoredReply(protocol, n)>> \o outs
           = Rebuildable(protocol, h \o Continuation(n, outs))
<1>0. <<Reply(n)>> \in Seq(Entries)
  OBVIOUS
<1>1. h \o Continuation(n, outs) = (h \o <<Reply(n)>>) \o outs /\ h \o <<Reply(n)>> \in Seq(Entries)
  BY <1>0, ConcatAssociative, ConcatProperties DEF Continuation
<1>2. CASE protocol = "responses"
  BY <1>1, <1>2 DEF Rebuildable, StoredReply
<1>3. CASE protocol # "responses"
  <2>1. Bare(outs) = outs
    <3>1. DOMAIN outs = 1 .. Len(outs) /\ Len(outs) \in Nat /\ outs = [k \in 1 .. Len(outs) |-> outs[k]]
      OBVIOUS
    <3>2. \A k \in 1 .. Len(outs) : WithoutReasoning(outs[k]) = outs[k]
      <4>1. \A k \in 1 .. Len(outs) : outs[k].kind # "reply"
        BY <3>1
      <4> QED BY <4>1 DEF WithoutReasoning
    <3> QED BY <3>1, <3>2 DEF Bare
  <2>2. Bare(<<Reply(n)>>) = <<WithoutReasoning(Reply(n))>>
    BY DEF Bare
  <2>3. Bare(h \o Continuation(n, outs)) = Bare(h \o <<Reply(n)>>) \o Bare(outs)
    BY <1>1, BareOfBoth
  <2>4. Bare(h \o <<Reply(n)>>) = Bare(h) \o Bare(<<Reply(n)>>)
    BY <1>0, BareOfBoth
  <2> QED BY <1>3, <2>1, <2>2, <2>3, <2>4 DEF Rebuildable, StoredReply
<1> QED BY <1>2, <1>3

\* The trace is rebuilt from its first request: a smallest n where it differs
\* from what was sent would follow one where it does not.
LEMMA RebuildsWhatWasSent ==
    ASSUME Inv
    PROVE  TraceRebuildsRequests
<1>1. TypeOK /\ LoopIsSound /\ ExecsAreSound /\ RequestsAreSound
  BY SMTT(30) DEF Inv
<1>2. PICK N \in Nat : /\ N = Len(calls) /\ DOMAIN calls = 1 .. N /\ N <= Len(sent)
                       /\ Len(sent) \in Nat /\ DOMAIN sent = 1 .. Len(sent)
                       /\ \A n \in 1 .. N : n \in 1 .. MaxModelCalls /\ n \in 1 .. Len(sent)
  <2>1. Len(calls) <= Len(sent) /\ Len(sent) <= MaxModelCalls /\ MaxModelCalls \in Nat
    BY <1>1, ConstantsAssumption DEF LoopIsSound
  <2>2. Len(calls) \in Nat /\ DOMAIN calls = 1 .. Len(calls) /\ Len(sent) \in Nat /\ DOMAIN sent = 1 .. Len(sent)
    BY <1>1, CallsAre
  <2>3. \A n \in 1 .. Len(calls) : n \in 1 .. MaxModelCalls /\ n \in 1 .. Len(sent)
    BY <2>1, <2>2
  <2> QED BY <2>1, <2>2, <2>3
<1>3. SUFFICES ASSUME NEW protocol \in Protocols
               PROVE  \A n \in 1 .. N : trace_model_calls(protocol)[n] = Rebuildable(protocol, sent[n])
  BY <1>2 DEF TraceRebuildsRequests
<1> DEFINE body == trace_model_calls(protocol)
           T == {n \in 1 .. N : body[n] # Rebuildable(protocol, sent[n])}
<1>4. SUFFICES ASSUME T # {} PROVE FALSE
  OBVIOUS
<1>5. PICK m \in T : \A k \in T : m <= k
  <2>1. T \in SUBSET Nat
    OBVIOUS
  <2> HIDE DEF T
  <2> QED BY <1>4, <2>1, SmallestOf
<1>6. m \in 1 .. N /\ body[m] # Rebuildable(protocol, sent[m]) /\ m \in 1 .. MaxModelCalls
  BY <1>2, <1>5
<1>7. body[m] = IF m = 1 THEN sent[1] ELSE NextBody(protocol, body[m - 1], m - 1)
  BY <1>6, RebuiltIs
<1>8. m # 1
  <2>1. SUFFICES ASSUME m = 1 PROVE FALSE
    OBVIOUS
  <2>2. 1 \in DOMAIN sent /\ sent[1] \in Seq(Entries)
    <3>1. sent \in Seq(Seq(Entries)) /\ 1 \in 1 .. Len(sent)
      <4>1. 1 \in 1 .. N /\ sent \in Seq(Seq(Entries))
        BY <1>1, <1>6, <2>1 DEF TypeOK
      <4> QED BY <1>2, <4>1
    <3> QED BY <1>2, <3>1
  <2>3. DOMAIN sent[1] = {}
    BY <1>1, <2>2 DEF RequestsAreSound
  <2>4. sent[1] = <<>>
    BY <2>2, <2>3, EmptySeq
  <2>5. Bare(<<>>) = <<>>
    BY DEF Bare
  <2> QED BY <1>6, <1>7, <2>1, <2>4, <2>5 DEF Rebuildable
<1>9. PICK p \in Nat : p = m - 1 /\ p + 1 = m /\ p \in 1 .. N /\ p < N /\ p < m
  BY <1>6, <1>8
<1>10. body[p] = Rebuildable(protocol, sent[p])
  <2>1. p \notin T
    <3>1. ~(m <= p)
      BY <1>6, <1>9
    <3> HIDE DEF T
    <3> QED BY <1>5, <3>1
  <2> QED BY <1>9, <2>1
<1>11. Whole(calls[p])
  BY <1>1, <1>2, <1>9 DEF LoopIsSound
<1>12. /\ OutputsOf(p) \in Seq(Entries) /\ StoredOutputs(p) = OutputsOf(p)
       /\ \A k \in DOMAIN OutputsOf(p) : OutputsOf(p)[k].kind = "output"
  BY <1>1, <1>2, <1>9, OutputsAreStored
<1>13. sent[m] = sent[p] \o Continuation(p, OutputsOf(p)) /\ sent[p] \in Seq(Entries)
  <2>1. p \in DOMAIN sent /\ p < Len(sent)
    BY <1>2, <1>9
  <2>2. sent \in Seq(Seq(Entries))
    BY <1>1 DEF TypeOK
  <2>3. sent[p + 1] = sent[p] \o Continuation(p, OutputsOf(p))
    BY <1>1, <2>1 DEF RequestsAreSound
  <2>4. sent[p] \in Seq(Entries)
    BY <2>1, <2>2
  <2> QED BY <1>9, <2>3, <2>4
<1>14. Reply(p) \in Entries
  BY <1>2, <1>9 DEF Entries
<1>15. body[m] = body[p] \o <<StoredReply(protocol, p)>> \o StoredOutputs(p)
  BY <1>7, <1>8, <1>9, <1>11 DEF NextBody, Whole
<1>16. body[m] = Rebuildable(protocol, sent[m])
  <2> DEFINE h == sent[p]
             outs == OutputsOf(p)
  <2>1. body[m] = Rebuildable(protocol, h) \o <<StoredReply(protocol, p)>> \o outs
    BY <1>10, <1>12, <1>15
  <2>2. /\ h \in Seq(Entries) /\ outs \in Seq(Entries)
        /\ \A k \in DOMAIN outs : outs[k].kind = "output"
        /\ sent[m] = h \o Continuation(p, outs)
    BY <1>12, <1>13
  <2> HIDE DEF h, outs, body
  <2>3. Rebuildable(protocol, h) \o <<StoredReply(protocol, p)>> \o outs
        = Rebuildable(protocol, h \o Continuation(p, outs))
    BY <1>14, <2>2, BodyFollows
  <2> QED BY <2>1, <2>2, <2>3
<1> QED BY <1>6, <1>16

\* What trace_model_calls rebuilds of the stored trace is the input of every
\* request, in the order sent, also of a session that failed between two tools:
\* all of it under the responses protocol, all but the reasoning of the replies
\* under chat completions.  And the listener is left with the answer that is
\* stored, nothing before it.
THEOREM WhatIsStoredIsTrue == Spec => []StoredIsTrue
<1>1. Inv => StoredIsTrue
  BY RebuildsWhatWasSent DEF Inv, StoredIsTrue
<1> QED BY <1>1, AlwaysSound, PTL

\* No step behind the deadline sends a request or starts a tool, and none at all
\* follows a terminal tool that succeeded: the first by the checks of
\* remaining_timeout, the second because such a session is over.
THEOREM NothingFollowsTheEnd == Spec => NothingBeginsAfter
<1>1. [Next]_vars => [expired => sent' = sent /\ (pc' = "tool" => pc = "tool")]_vars
  <2> SUFFICES ASSUME Next, expired PROVE sent' = sent /\ (pc' = "tool" => pc = "tool")
    OBVIOUS
  <2>1. CASE Expire \/ SessionStep
    BY <2>1 DEF Expire, SessionStep, remaining_timeout, send_model_request, dispatch, answer, End
  <2>2. CASE ModelStep
    BY <2>2 DEF ModelStep, output_delta, reply_timeout, no_reply, error_reply, malformed_reply,
                action_reply, final_reply, End
  <2>3. CASE ToolStep
    BY <2>3 DEF ToolStep, tool_done, tool_error, tool_timeout, AfterTool, End
  <2> QED BY <2>1, <2>2, <2>3 DEF Next
<1>2. Inv /\ [Next]_vars =>
        [(\E i \in DOMAIN execs : execs[i].output = "ok"
            /\ calls[execs[i].call].requested[execs[i].index] \in Terminal)
         => sent' = sent /\ execs' = execs]_vars
  <2> SUFFICES ASSUME Inv, Next, NEW i \in DOMAIN execs, execs[i].output = "ok", ToolOf(i) \in Terminal
               PROVE  sent' = sent /\ execs' = execs
    BY DEF ToolOf
  <2>1. pc = "done"
    BY DEF Inv, WritesAreSound
  <2> QED BY <2>1 DEF Next, SessionStep, ModelStep, ToolStep, Expire, remaining_timeout,
          send_model_request, dispatch, answer, output_delta, reply_timeout, no_reply, error_reply,
          malformed_reply, action_reply, final_reply, tool_done, tool_error, tool_timeout
<1>3. Spec => NothingStartsLate
  BY <1>1, PTL DEF Spec, NothingStartsLate
<1>4. Spec => TerminalEnds
  BY <1>2, AlwaysSound, PTL DEF Spec, TerminalEnds
<1> QED BY <1>3, <1>4 DEF NothingBeginsAfter
=============================================================================
