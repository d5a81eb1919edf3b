------------------------------ MODULE Accounts ------------------------------
(***************************************************************************)
(* Accounts, sessions, the set-up of the first administrator and the login *)
(* throttle: AuthRepository, the routes over it and the command line.      *)
(*                                                                         *)
(* A request is a sequence of database transactions at READ COMMITTED,     *)
(* with an await before each; the objects it read stay in its session's    *)
(* identity map, so what it decides on may be out of date when it writes.  *)
(* A user is named by the unique username; users are never deleted.  A     *)
(* password is a number and the time of day is left out: sessions do not   *)
(* expire, which only makes more of them usable.  The audit log is not     *)
(* read by any of this and is left out.                                    *)
(* A definition named after another one and a fault is what that code      *)
(* would be with the fault; no behaviour of Spec uses it.                  *)
(***************************************************************************)
EXTENDS Integers, FiniteSets

CONSTANTS
    Users,        \* usernames
    Requests,     \* request slots of the server, and the command line
    MaxFailures,  \* LOGIN_MAX_FAILURES
    MaxSessions,  \* bound: sessions ever created
    MaxPassword,  \* bound: passwords ever set for a user
    MaxRequests   \* bound: requests ever handled

ASSUME ConstantsAssumption ==
    /\ MaxFailures \in Nat \ {0} /\ MaxSessions \in Nat
    /\ MaxPassword \in Nat \ {0} /\ MaxRequests \in Nat

VARIABLES
    user,       \* table users, by username
    session,    \* table auth_sessions
    completed,  \* the row auth.bootstrap_completed, present since its migration
    throttle,   \* table login_throttles, by username (one address)
    req,        \* the requests under way, and the last one of each slot
    handled,    \* requests started so far
    setups,     \* how often the web has set up the administrator
    failures    \* failed logins recorded since the counter began anew (Quiet)

vars == <<user, session, completed, throttle, req, handled, setups, failures>>

Sessions == 1 .. MaxSessions
Roles == {"admin", "user"}
NoUser == [role |-> "none", status |-> "none", pw |-> 0]
NoSession == [user |-> "none", live |-> FALSE, pw |-> 0]
\* blocked_until: none, in the future or past; and whether the window is over.
NoThrottle == [count |-> 0, block |-> "none", over |-> FALSE]
SetupRow == "auth.bootstrap_completed"
Idle == [op |-> "none", pc |-> "done", user |-> "none", seen |-> NoUser, role |-> "none",
         status |-> "none", pw |-> 0, throttle |-> NoThrottle, keep |-> 0, locks |-> {}]

Row(role, pw) == [role |-> role, status |-> "active", pw |-> pw]
Existing == {u \in Users : user[u] # NoUser}
ActiveAdmins == {u \in Users : user[u].role = "admin" /\ user[u].status = "active"}
LiveOf(u) == {s \in Sessions : session[s].live /\ session[s].user = u}

Init ==
    /\ user = [u \in Users |-> NoUser]
    /\ session = [s \in Sessions |-> NoSession]
    /\ completed = FALSE
    /\ throttle = [u \in Users |-> NoThrottle]
    /\ req = [q \in Requests |-> Idle]
    /\ handled = 0 /\ setups = 0
    /\ failures = [u \in Users |-> 0]

-----------------------------------------------------------------------------
(* Requests and row locks *)

\* A row that another transaction has locked for update is waited for.
Free(q, row) == \A p \in Requests \ {q} : row \notin req[p].locks

Begin(q, r) ==
    /\ req[q].pc = "done" /\ handled < MaxRequests
    /\ req' = [req EXCEPT ![q] = r]
    /\ handled' = handled + 1
Goto(q, pc) == req' = [req EXCEPT ![q].pc = pc]
\* The end of a transaction gives its locks back.
CommitTo(q, pc) == req' = [req EXCEPT ![q].pc = pc, ![q].locks = {}]
\* The request has failed or is answered; its slot is free.
Answer(q) == req' = [req EXCEPT ![q] = Idle]
Refuse(q) == Answer(q)

\* A database call fails, or the process is killed: the transaction under way
\* is rolled back, the committed ones stay.
Interrupt(q) ==
    /\ req[q].pc # "done"
    /\ Refuse(q)
    /\ UNCHANGED <<user, session, completed, throttle, handled, setups, failures>>

\* The next free row of auth_sessions; a ghost field keeps the password that
\* the user had when the row was inserted.
WithSession(u, pw) ==
    LET s == CHOOSE n \in Sessions : session[n] = NoSession
                                     /\ \A k \in 1 .. n - 1 : session[k] # NoSession
    IN  [session EXCEPT ![s] = [user |-> u, live |-> TRUE, pw |-> pw]]
RoomForSession == \E s \in Sessions : session[s] = NoSession

-----------------------------------------------------------------------------
(* The first administrator *)

\* SELECT ... FOR UPDATE of the row, then the count of users.
bootstrap_lock_unlocked(q) ==
    /\ req[q].op = "bootstrap" /\ req[q].pc = "lock"
    /\ IF completed THEN Refuse(q) ELSE Goto(q, "count")
    /\ UNCHANGED <<user, session, completed, throttle, handled, setups, failures>>
bootstrap_lock(q) ==
    /\ req[q].op = "bootstrap" /\ req[q].pc = "lock"
    /\ Free(q, SetupRow)
    /\ IF completed THEN Refuse(q)
                    ELSE req' = [req EXCEPT ![q].pc = "count", ![q].locks = {SetupRow}]
    /\ UNCHANGED <<user, session, completed, throttle, handled, setups, failures>>

bootstrap_count(q) ==
    /\ req[q].op = "bootstrap" /\ req[q].pc = "count"
    /\ IF Existing # {} THEN completed' = TRUE /\ Refuse(q)
                        ELSE UNCHANGED completed /\ Goto(q, "insert")
    /\ UNCHANGED <<user, session, throttle, handled, setups, failures>>

\* The user, its session and the flag are committed together; a name that was
\* taken meanwhile is the IntegrityError the route answers with 409.
bootstrap_admin(q) ==
    /\ req[q].op = "bootstrap" /\ req[q].pc = "insert"
    /\ LET u == req[q].user IN
       \/ /\ user[u] # NoUser
          /\ Refuse(q)
          /\ UNCHANGED <<user, session, completed, setups>>
       \/ /\ user[u] = NoUser /\ RoomForSession
          /\ user' = [user EXCEPT ![u] = Row("admin", 1)]
          /\ session' = WithSession(u, 1)
          /\ completed' = TRUE /\ setups' = setups + 1
          /\ Answer(q)
    /\ UNCHANGED <<throttle, handled, failures>>

start_bootstrap(q) ==
    /\ \E u \in Users : Begin(q, [Idle EXCEPT !.op = "bootstrap", !.pc = "lock", !.user = u])
    /\ UNCHANGED <<user, session, completed, throttle, setups, failures>>

\* The command line: the user is committed first, the flag after it.
start_create_admin(q) ==
    /\ \E u \in Users : /\ user[u] = NoUser
                        /\ Begin(q, [Idle EXCEPT !.op = "create_admin", !.pc = "create",
                                                 !.user = u, !.role = "admin"])
    /\ UNCHANGED <<user, session, completed, throttle, setups, failures>>

mark_bootstrap_completed(q) ==
    /\ req[q].pc = "mark"
    /\ ~completed => Free(q, SetupRow)
    /\ completed' = TRUE
    /\ Answer(q)
    /\ UNCHANGED <<user, session, throttle, handled, setups, failures>>

-----------------------------------------------------------------------------
(* Login and its throttle *)

\* is_login_blocked, then the row of the user.  Nothing refers to the row of the
\* throttle after the check, so that the identity map forgets it.
start_login(q) ==
    /\ \E u \in Users, right \in BOOLEAN :
          /\ throttle[u].block # "on"
          /\ Begin(q, [Idle EXCEPT !.op = "login", !.user = u,
                       !.pc = IF right /\ user[u].status = "active" THEN "clear"
                                                                   ELSE "failure"])
    /\ UNCHANGED <<user, session, completed, throttle, setups, failures>>

\* record_login_failure reads the row ...
read_login_failure(q) ==
    /\ req[q].op = "login" /\ req[q].pc = "failure"
    /\ req' = [req EXCEPT ![q].pc = "record", ![q].throttle = throttle[req[q].user]]
    /\ UNCHANGED <<user, session, completed, throttle, handled, setups, failures>>

\* ... and makes this of it, t being the object it has read: only the columns
\* whose value changes are written.  When the window was over, a counter that was
\* read as 1 is 1 again, which is no change: it stays where others have taken it.
CountedFailure(row, t) ==
    LET count == IF t.over THEN 1 ELSE t.count + 1
    IN  [count |-> IF count = t.count THEN row.count ELSE count,
         block |-> IF count >= MaxFailures THEN "on"
                   ELSE IF t.over /\ t.block # "none" THEN "none" ELSE row.block,
         over |-> row.over /\ ~t.over]

\* No login but q's is between its reading of the row and its write.
Quiet(q) ==
    \A p \in Requests \ {q} :
        ~(req[p].pc = "record" /\ req[p].user = req[q].user /\ req[p].throttle # NoThrottle)

\* The commit, without a lock since the read.  Of two that found no row one fails to insert it,
\* and the UPDATE of a row that a success has deleted fails: they count nothing.
record_login_failure(q) ==
    LET u == req[q].user
        t == req[q].throttle
        counts == (t = NoThrottle) = (throttle[u] = NoThrottle)
        new == CountedFailure(throttle[u], t)
    IN  /\ req[q].op = "login" /\ req[q].pc = "record"
        /\ throttle' = IF counts THEN [throttle EXCEPT ![u] = new] ELSE throttle
        /\ failures' = IF ~counts THEN failures
                       ELSE [failures EXCEPT ![u] = IF new.count = 1 /\ Quiet(q) THEN 1 ELSE @ + 1]
        /\ Refuse(q)
        /\ UNCHANGED <<user, session, completed, handled, setups>>

clear_login_failures(q) ==
    /\ req[q].op = "login" /\ req[q].pc = "clear"
    /\ throttle' = [throttle EXCEPT ![req[q].user] = NoThrottle]
    /\ failures' = [failures EXCEPT ![req[q].user] = IF Quiet(q) THEN 0 ELSE @]
    /\ Goto(q, "session")
    /\ UNCHANGED <<user, session, completed, handled, setups>>

\* The session is inserted for the user object read before the two awaits; the
\* row of the user is written too (last_login_at).
create_login_session(q) ==
    /\ req[q].op = "login" /\ req[q].pc = "session"
    /\ Free(q, req[q].user) /\ RoomForSession
    /\ session' = WithSession(req[q].user, user[req[q].user].pw)
    /\ Answer(q)
    /\ UNCHANGED <<user, completed, throttle, handled, setups, failures>>

\* Time: the window of a throttle ends, and later the block it has led to.
WindowEnds(u) ==
    /\ throttle[u] # NoThrottle /\ ~throttle[u].over
    /\ throttle' = [throttle EXCEPT ![u].over = TRUE]
    /\ UNCHANGED <<user, session, completed, req, handled, setups, failures>>
BlockEnds(u) ==
    /\ throttle[u].block = "on" /\ throttle[u].over
    /\ throttle' = [throttle EXCEPT ![u].block = "past"]
    /\ UNCHANGED <<user, session, completed, req, handled, setups, failures>>

-----------------------------------------------------------------------------
(* Sessions and users, by a request that get_current_user let in *)

Signed(s) == session[s].live /\ user[session[s].user].status = "active"
IsAdmin(s) == Signed(s) /\ user[session[s].user].role = "admin"

\* Logging out revokes the session of the cookie, whatever the user's status.
logout(q) ==
    /\ req[q].pc = "done" /\ handled < MaxRequests
    /\ \E s \in Sessions : /\ session[s].live
                          /\ session' = [session EXCEPT ![s].live = FALSE]
    /\ handled' = handled + 1
    /\ UNCHANGED <<user, completed, throttle, req, setups, failures>>

start_change_password(q) ==
    /\ \E s \in Sessions : LET u == session[s].user IN
          /\ Signed(s) /\ user[u].pw < MaxPassword
          /\ Begin(q, [Idle EXCEPT !.op = "change", !.pc = "password", !.user = u,
                                   !.keep = s])
    /\ UNCHANGED <<user, session, completed, throttle, setups, failures>>

\* An administrator's request, with the row of the target as it was read.
Administer(q, op, pc, u, role, status) ==
    /\ \E s \in Sessions : IsAdmin(s)
    /\ Begin(q, [Idle EXCEPT !.op = op, !.pc = pc, !.user = u, !.seen = user[u],
                             !.role = role, !.status = status])
    /\ UNCHANGED <<user, session, completed, throttle, setups, failures>>

start_create_user(q) ==
    \E u \in Users, role \in Roles :
        user[u] = NoUser /\ Administer(q, "create", "create", u, role, "active")

\* get_user_by_username found nothing; the unique name decides.
create_user(q) ==
    /\ req[q].pc = "create"
    /\ LET u == req[q].user IN
       \/ user[u] # NoUser /\ Refuse(q) /\ UNCHANGED user
       \/ /\ user[u] = NoUser
          /\ user' = [user EXCEPT ![u] = Row(req[q].role, 1)]
          /\ CommitTo(q, IF req[q].op = "create_admin" THEN "mark" ELSE "done")
    /\ UNCHANGED <<session, completed, throttle, handled, setups, failures>>

\* A request changes the role, the status or both; "none" leaves one alone.
RemovesActiveAdmin(seen, role, status) ==
    /\ seen.role = "admin" /\ seen.status = "active"
    /\ role = "user" \/ status = "disabled"

start_update_user(q) ==
    \E u \in Existing, role \in Roles \cup {"none"}, status \in {"active", "disabled", "none"} :
        /\ <<role, status>> # <<"none", "none">>
        /\ Administer(q, "update", IF RemovesActiveAdmin(user[u], role, status)
                                   THEN "admins" ELSE "save", u, role, status)

\* SELECT ... FOR UPDATE of the active administrators, and their number.
locked_active_admin_count_unlocked(q) ==
    /\ req[q].pc = "admins"
    /\ IF Cardinality(ActiveAdmins) <= 1 THEN Refuse(q) ELSE Goto(q, "save")
    /\ UNCHANGED <<user, session, completed, throttle, handled, setups, failures>>
locked_active_admin_count_kept(q) ==
    /\ req[q].pc = "admins"
    /\ \A u \in ActiveAdmins : Free(q, u)
    /\ req' = [req EXCEPT ![q].locks = ActiveAdmins,
                          ![q].pc = IF Cardinality(ActiveAdmins) <= 1 THEN "done" ELSE "save"]
    /\ UNCHANGED <<user, session, completed, throttle, handled, setups, failures>>
locked_active_admin_count(q) ==
    /\ req[q].pc = "admins"
    /\ \A u \in ActiveAdmins : Free(q, u)
    /\ IF Cardinality(ActiveAdmins) <= 1
       THEN Refuse(q)
       ELSE req' = [req EXCEPT ![q].pc = "save", ![q].locks = ActiveAdmins]
    /\ UNCHANGED <<user, session, completed, throttle, handled, setups, failures>>

\* Only what is given and differs from the object read is written.
Updated_with_unset(row, seen, role, status) ==
    [row EXCEPT !.role = IF role = seen.role THEN @ ELSE role,
                !.status = IF status = seen.status THEN @ ELSE status]
Updated(row, seen, role, status) ==
    [row EXCEPT !.role = IF role \in {"none", seen.role} THEN @ ELSE role,
                !.status = IF status \in {"none", seen.status} THEN @ ELSE status]

save_user(q) ==
    /\ req[q].op = "update" /\ req[q].pc = "save"
    /\ Free(q, req[q].user)
    /\ user' = [user EXCEPT ![req[q].user] =
                    Updated(@, req[q].seen, req[q].role, req[q].status)]
    /\ CommitTo(q, IF req[q].status = "disabled" THEN "revoke" ELSE "done")
    /\ UNCHANGED <<session, completed, throttle, handled, setups, failures>>

start_reset_password(q) ==
    \E u \in Existing : user[u].pw < MaxPassword
                        /\ Administer(q, "reset", "password", u, "none", "none")
start_revoke_sessions(q) ==
    \E u \in Existing : Administer(q, "revoke", "revoke", u, "none", "none")

\* The password is committed; the request remembers which one it set.
set_password(q) ==
    LET u == req[q].user IN
    /\ req[q].pc = "password"
    /\ Free(q, u) /\ user[u].pw < MaxPassword
    /\ user' = [user EXCEPT ![u].pw = @ + 1]
    /\ req' = [req EXCEPT ![q].pc = "revoke", ![q].pw = user[u].pw + 1]
    /\ UNCHANGED <<session, completed, throttle, handled, setups, failures>>

\* A second transaction revokes the sessions of the user, but the one that a
\* change of the password keeps.
Revoked_until_kept(q) == {s \in LiveOf(req[q].user) : s < req[q].keep \/ req[q].keep = 0}
Revoked(q) == LiveOf(req[q].user) \ {req[q].keep}
revoke_user_sessions(q) ==
    /\ req[q].pc = "revoke"
    /\ session' = [s \in Sessions |->
                      IF s \in Revoked(q) THEN [session[s] EXCEPT !.live = FALSE]
                                          ELSE session[s]]
    /\ CommitTo(q, "done")
    /\ UNCHANGED <<user, completed, throttle, handled, setups, failures>>

-----------------------------------------------------------------------------
Arrive(q) ==
    \/ start_bootstrap(q) \/ start_create_admin(q) \/ start_login(q) \/ logout(q)
    \/ start_change_password(q) \/ start_create_user(q) \/ start_update_user(q)
    \/ start_reset_password(q) \/ start_revoke_sessions(q)

Proceed(q) ==
    \/ bootstrap_lock(q) \/ bootstrap_count(q) \/ bootstrap_admin(q)
    \/ create_user(q) \/ mark_bootstrap_completed(q)
    \/ read_login_failure(q) \/ record_login_failure(q)
    \/ clear_login_failures(q) \/ create_login_session(q)
    \/ locked_active_admin_count(q) \/ save_user(q)
    \/ set_password(q) \/ revoke_user_sessions(q)

Next ==
    \/ \E q \in Requests : Arrive(q) \/ Proceed(q) \/ Interrupt(q)
    \/ \E u \in Users : WindowEnds(u) \/ BlockEnds(u)

Spec == Init /\ [][Next]_vars

\* The event loop serves every request; clients need not send any.
Fairness == \A q \in Requests : WF_vars(Proceed(q))

-----------------------------------------------------------------------------
(* Properties *)

UserRows == [role : Roles, status : {"active", "disabled"}, pw : 1 .. MaxPassword] \cup {NoUser}
Throttles == [count : Nat, block : {"none", "on", "past"}, over : BOOLEAN]

\* The type invariant.
TypeOK ==
    /\ user \in [Users -> UserRows]
    /\ session \in [Sessions -> [user : Users \cup {"none"}, live : BOOLEAN,
                                 pw : 0 .. MaxPassword]]
    /\ completed \in BOOLEAN
    /\ throttle \in [Users -> Throttles]
    /\ \A q \in Requests : /\ req[q].user \in Users \cup {"none"}
                           /\ req[q].seen \in UserRows
                           /\ req[q].locks \subseteq Users \cup {SetupRow}
    /\ handled \in 0 .. MaxRequests

\* The entry that sets up the first administrator succeeds once, and is closed
\* from then on, also when the command line creates one at the same time
\* ("once it has succeeded this entry is closed for good").
SetupOnce ==
    /\ setups <= 1
    /\ setups = 1 => completed
    /\ completed => Existing # {}

\* The last active administrator is not lost ("the last active administrator
\* cannot be disabled or demoted"), except by a request that read its target
\* before another one made an administrator of it: the guard is the object read.
LastAdminGuarded ==
    [][ActiveAdmins # {} /\ ActiveAdmins' = {} =>
          \E q \in Requests : LET u == req[q].user IN
              /\ req[q].pc = "save" /\ req'[q] # req[q]
              /\ <<req[q].seen.role, req[q].seen.status>> # <<user[u].role, user[u].status>>]_vars

\* When a reset or a change of a password is answered, no session from before
\* it is left, but the one the change was made in, however logins interleave.
ResetEndsSessions ==
    \A q \in Requests : req[q].pc = "done" =>
        \A s \in LiveOf(req[q].user) : session[s].pw < req[q].pw => s = req[q].keep

\* A login is blocked only when MaxFailures failures were recorded since the
\* counter began anew, by a success that deleted it or by the end of its window,
\* with no other login in the middle of its count: a count that was read before
\* is still written, and goes on from where the counter was.
BlockedByFailures ==
    [][\A u \in Users : throttle[u].block # "on" /\ throttle'[u].block = "on"
                         => failures'[u] >= MaxFailures]_vars

\* No request waits for a row lock for ever.
RequestsAnswered == \A q \in Requests : req[q].pc # "done" ~> req[q].pc = "done"

\* Neither the throttle nor the guard of the last administrator is misled by
\* requests that interleave, but for the object read too early.
GuardsHold == BlockedByFailures /\ LastAdminGuarded
=============================================================================
