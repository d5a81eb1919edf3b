----------------------------- MODULE MCAccounts -----------------------------
(* Small instances of Accounts for TLC. *)
EXTENDS Accounts, TLC

CONSTANTS a, b  \* two usernames

\* Besides the empty database, one with an administrator and another account,
\* both signed in ...
SetUp ==
    /\ \E role \in Roles : user = a :> Row("admin", 1) @@ b :> Row(role, 1)
    /\ session = [s \in Sessions |-> CASE s = 1 -> [user |-> a, live |-> TRUE, pw |-> 1]
                                       [] s = 2 -> [user |-> b, live |-> TRUE, pw |-> 1]
                                       [] OTHER -> NoSession]
    /\ completed = TRUE
    /\ throttle = [u \in Users |-> NoThrottle]
    /\ req = [q \in Requests |-> Idle]
    /\ handled = 0 /\ setups = 1
    /\ failures = [u \in Users |-> 0]

\* ... and the same with failed logins to an account whose user signed out.
SetUpWithFailures ==
    /\ user = a :> Row("admin", 1) @@ b :> Row("user", 1)
    /\ session = [s \in Sessions |-> NoSession]
    /\ completed = TRUE
    /\ \E n \in 1 .. 2 :
          /\ throttle = a :> NoThrottle @@ b :> [count |-> n, block |-> "none", over |-> FALSE]
          /\ failures = a :> 0 @@ b :> n
    /\ req = [q \in Requests |-> Idle]
    /\ handled = 0 /\ setups = 1

MCSpec == (Init \/ SetUp \/ SetUpWithFailures) /\ [][Next]_vars /\ Fairness
=============================================================================
