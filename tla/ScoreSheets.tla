---------------------------- MODULE ScoreSheets ----------------------------
(***************************************************************************)
(* What the evaluation queue promises an administrator: a sheet per run    *)
(* whose questions get their outcome once, at most Batch at a time, with   *)
(* a tally that always counts them, and that is complete only when none is *)
(* open.  Kills, restarts and cancellations are not visible here.          *)
(***************************************************************************)
EXTENDS Integers, FiniteSets

CONSTANTS Sheets, Questions, Batch

VARIABLES
    life,      \* a sheet is "new", "listed" or "removed"
    outcome,   \* by sheet and question: "open", "completed" or "error"
    tally,     \* the numbers shown for it
    complete   \* the sheets shown as completed

sheetVars == <<life, outcome, tally, complete>>

Open(s) == {i \in Questions : outcome[s][i] = "open"}
Blank == [i \in Questions |-> "open"]
TallyOf(o) == [completed |-> Cardinality({i \in Questions : o[i] # "open"}),
               errors |-> Cardinality({i \in Questions : o[i] = "error"})]

Init ==
    /\ life = [s \in Sheets |-> "new"]
    /\ outcome = [s \in Sheets |-> Blank]
    /\ tally = [s \in Sheets |-> TallyOf(Blank)]
    /\ complete = {}

List(s) ==
    /\ life[s] = "new"
    /\ life' = [life EXCEPT ![s] = "listed"]
    /\ UNCHANGED <<outcome, tally, complete>>

Score(s) ==
    /\ life[s] = "listed"
    /\ \E A \in SUBSET Open(s) :
          /\ A # {} /\ Cardinality(A) <= Batch
          /\ \E E \in SUBSET A :
                outcome' = [outcome EXCEPT ![s] =
                    [i \in Questions |-> IF i \in E THEN "error"
                                         ELSE IF i \in A THEN "completed" ELSE @[i]]]
    /\ tally' = [tally EXCEPT ![s] = TallyOf(outcome'[s])]
    /\ UNCHANGED <<life, complete>>

Complete(s) ==
    /\ life[s] = "listed" /\ Open(s) = {}
    /\ complete' = complete \cup {s}
    /\ UNCHANGED <<life, outcome, tally>>

\* A shutdown, or a late cancellation, may take the word back.
Reopen(s) ==
    /\ complete' = complete \ {s}
    /\ UNCHANGED <<life, outcome, tally>>

Remove(s) ==
    /\ life[s] = "listed"
    /\ life' = [life EXCEPT ![s] = "removed"]
    /\ outcome' = [outcome EXCEPT ![s] = Blank]
    /\ tally' = [tally EXCEPT ![s] = TallyOf(Blank)]
    /\ complete' = complete \ {s}

Next == \E s \in Sheets : List(s) \/ Score(s) \/ Complete(s) \/ Reopen(s) \/ Remove(s)

Spec == Init /\ [][Next]_sheetVars
=============================================================================
