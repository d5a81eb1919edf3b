--------------------------- MODULE AccountsProofs ---------------------------
(***************************************************************************)
(* Theorems about Accounts, for every number of users, requests, sessions  *)
(* and passwords: the first administrator is set up once, an answered      *)
(* reset of a password leaves no older session, and neither the throttle   *)
(* nor the guard of the last administrator is misled by interleavings.     *)
(***************************************************************************)
EXTENDS Accounts, FiniteSetTheorems, TLAPS

Rows == [role : {"none"} \cup Roles, status : {"none", "active", "disabled"}, pw : Nat]
SessionRows == [user : Users \cup {"none"}, live : BOOLEAN, pw : Nat]
ThrottleRows == [count : Nat, block : {"none", "on", "past"}, over : BOOLEAN]
Ops == {"none", "bootstrap", "create_admin", "login", "change", "create", "update", "reset", "revoke"}
Pcs == {"done", "lock", "count", "insert", "create", "mark", "failure", "record", "clear", "session",
        "password", "admins", "save", "revoke"}
RequestRecords ==
    [op : Ops, pc : Pcs, user : Users \cup {"none"}, seen : Rows,
     role : {"none"} \cup Roles, status : {"none", "active", "disabled"}, pw : Nat,
     throttle : ThrottleRows, keep : {0} \cup Sessions, locks : SUBSET (Users \cup {SetupRow})]

Types ==
    /\ user \in [Users -> Rows]
    /\ session \in [Sessions -> SessionRows]
    /\ completed \in BOOLEAN
    /\ throttle \in [Users -> ThrottleRows]
    /\ req \in [Requests -> RequestRecords]
    /\ handled \in Nat /\ setups \in Nat

\* A user that exists has a password, and a session is of a user.
RowsAreSound ==
    /\ \A u \in Users : user[u].pw = 0 => user[u] = NoUser
    /\ \A s \in Sessions : session[s].live => session[s].user \in Users

\* A request knows its user, which exists when it is to be changed; one that
\* sets up the administrator holds the row until the flag is set; after it has
\* set a password it revokes, and the user's password is not older.
InSetup(x) == x.pc \in {"count", "insert"}
Sound(x) ==
    /\ x.pc # "done" => x.user \in Users
    /\ x.pc \in {"admins", "save", "password"} => user[x.user].pw > 0
    /\ x.pc = "mark" => Existing # {}
    /\ InSetup(x) => SetupRow \in x.locks /\ ~completed
    /\ x.pw > 0 => /\ x.user \in Users /\ user[x.user].pw >= x.pw
                   /\ x.pc \in {"revoke", "done"}
RequestsAreSound ==
    /\ \A q \in Requests : Sound(req[q])
    /\ \A p, q \in Requests : InSetup(req[p]) /\ InSetup(req[q]) => p = q

Inv == Types /\ RowsAreSound /\ RequestsAreSound /\ SetupOnce /\ ResetEndsSessions

-----------------------------------------------------------------------------
(* A step of one request. *)

\* No user is lost, and passwords only become newer.
UsersGrow ==
    /\ user' \in [Users -> Rows]
    /\ \A u \in Users : user'[u].pw >= user[u].pw /\ (user'[u].pw = 0 => user'[u] = NoUser)

\* A session that is usable was so before, or is as new as its user's password.
SessionsAreKnown ==
    /\ session' \in [Sessions -> SessionRows]
    /\ \A s \in Sessions : session'[s].live =>
          /\ session'[s].user \in Users
          /\ \/ session[s].live /\ session'[s].user = session[s].user /\ session'[s].pw = session[s].pw
             \/ session'[s].pw = user'[session'[s].user].pw

\* The flag and the set-up by request q.
SetupBy(q) ==
    \/ completed' = completed /\ setups' = setups
    \/ /\ completed' = TRUE /\ setups' \in {setups, setups + 1}
       /\ Existing' # {}
       /\ completed => setups' = setups
       /\ ~completed => \A p \in Requests \ {q} : ~InSetup(req[p])

LEMMA ExistingStay ==
    ASSUME Inv, UsersGrow
    PROVE  Existing # {} => Existing' # {}
<1> SUFFICES ASSUME NEW u \in Users, user[u] # NoUser PROVE user'[u] # NoUser
  BY DEF Existing
<1>1. user[u].pw > 0 /\ user[u].pw \in Nat /\ user'[u].pw \in Nat
  BY DEF Inv, Types, RowsAreSound, Rows, UsersGrow
<1> QED BY <1>1 DEF UsersGrow, NoUser

\* Request q goes on to y.
LEMMA RequestGoesOn ==
    ASSUME Inv, NEW q \in Requests, NEW y \in RequestRecords,
           req' = [req EXCEPT ![q] = y],
           UsersGrow, SessionsAreKnown, SetupBy(q),
           throttle' \in [Users -> ThrottleRows], handled' \in Nat,
           Sound(y)',
           InSetup(y) => \A p \in Requests \ {q} : ~InSetup(req[p]),
           y.pc = "done" => \A s \in LiveOf(y.user)' : session'[s].pw < y.pw => s = y.keep
    PROVE  Inv'
<1>1. Types /\ RowsAreSound /\ RequestsAreSound /\ SetupOnce /\ ResetEndsSessions
  BY DEF Inv
<1>2. /\ req'[q] = y
      /\ \A p \in Requests : p # q => req'[p] = req[p]
  BY <1>1 DEF Types
<1>3. Existing # {} => Existing' # {}
  BY ExistingStay
<1>4. Types'
  <2>1. completed' \in BOOLEAN
    BY <1>1, Zenon DEF Types, SetupBy
  <2>2. setups' \in Nat
    <3>1. setups' = setups \/ setups' = setups + 1
      BY DEF SetupBy
    <3> QED BY <3>1, <1>1 DEF Types
  <2>3. req' \in [Requests -> RequestRecords]
    BY <1>1 DEF Types
  <2> QED BY <2>1, <2>2, <2>3 DEF Types, UsersGrow, SessionsAreKnown
<1>5. RowsAreSound'
  BY DEF RowsAreSound, UsersGrow, SessionsAreKnown
<1>6. SetupOnce'
  BY <1>1, <1>3 DEF SetupOnce, SetupBy, Types
<1>7. ASSUME NEW p \in Requests PROVE Sound(req[p])'
  <2>1. CASE p = q
    BY <2>1, <1>2 DEF Sound, InSetup
  <2>2. CASE p # q
    <3>1. Sound(req[p]) /\ req[p] \in RequestRecords
      BY <1>1 DEF RequestsAreSound, Types
    <3>2. \A u \in Users : user[u].pw \in Nat /\ user'[u].pw \in Nat
      BY <1>1, <1>4 DEF Types, Rows
    <3>3. req[p].pw \in Nat /\ req'[p] = req[p]
      BY <3>1, <2>2, <1>2 DEF RequestRecords
    <3>4. InSetup(req[p]) => ~completed'
      BY <2>2, <3>1 DEF Sound, SetupBy
    <3>5. req[p].pc \in {"admins", "save", "password"} => req[p].user \in Users
      BY <3>1 DEF Sound
    <3> QED BY <3>1, <3>2, <3>3, <3>4, <3>5, <1>3 DEF Sound, UsersGrow, InSetup
  <2> QED BY <2>1, <2>2
<1>8. \A p, r \in Requests : InSetup(req'[p]) /\ InSetup(req'[r]) => p = r
  BY <1>1, <1>2 DEF RequestsAreSound
<1>9. ResetEndsSessions'
  <2> SUFFICES ASSUME NEW p \in Requests, req'[p].pc = "done",
                      NEW s \in Sessions, session'[s].live, session'[s].user = req'[p].user,
                      session'[s].pw < req'[p].pw
               PROVE  s = req'[p].keep
    BY DEF ResetEndsSessions, LiveOf
  <2>1. CASE p = q
    BY <2>1, <1>2 DEF LiveOf
  <2>2. CASE p # q
    <3>1. req'[p] = req[p] /\ req[p] \in RequestRecords /\ Sound(req[p]) /\ req[p].pw \in Nat
      BY <2>2, <1>1, <1>2 DEF Types, RequestsAreSound, RequestRecords
    <3>2. /\ session'[s].pw \in Nat /\ req[p].pw > 0 /\ req[p].user \in Users
          /\ user[req[p].user].pw \in Nat /\ user'[req[p].user].pw \in Nat
          /\ user'[req[p].user].pw >= req[p].pw
      BY <3>1, <1>1, <1>4 DEF Types, SessionRows, Rows, Sound, UsersGrow
    <3>3. session[s].live /\ session[s].user = req[p].user /\ session[s].pw < req[p].pw
      BY <3>1, <3>2 DEF SessionsAreKnown
    <3> QED BY <3>1, <3>3, <1>1 DEF ResetEndsSessions, LiveOf
  <2> QED BY <2>1, <2>2
<1>10. RequestsAreSound'
  BY <1>7, <1>8 DEF RequestsAreSound, InSetup
<1> QED BY <1>4, <1>5, <1>6, <1>9, <1>10 DEF Inv

\* Steps that leave the tables alone are of the kind that RequestGoesOn takes.
LEMMA TablesRest ==
    ASSUME Inv
    PROVE  /\ UNCHANGED user => UsersGrow
           /\ UNCHANGED <<user, session>> => SessionsAreKnown
           /\ \A q \in Requests : UNCHANGED <<completed, setups>> => SetupBy(q)
<1>1. Types /\ RowsAreSound
  BY DEF Inv
<1>2. ASSUME UNCHANGED user PROVE UsersGrow
  BY <1>1, <1>2 DEF Types, Rows, RowsAreSound, UsersGrow
<1>3. ASSUME UNCHANGED <<user, session>> PROVE SessionsAreKnown
  BY <1>1, <1>3 DEF Types, RowsAreSound, SessionsAreKnown
<1>4. ASSUME NEW q \in Requests, UNCHANGED <<completed, setups>> PROVE SetupBy(q)
  BY <1>4 DEF SetupBy
<1> QED BY <1>2, <1>3, <1>4

\* What the lemmas below take from the invariant.
LEMMA Facts ==
    ASSUME Inv, NEW q \in Requests
    PROVE  /\ req[q] \in RequestRecords /\ Sound(req[q])
           /\ req \in [Requests -> RequestRecords]
           /\ user \in [Users -> Rows] /\ session \in [Sessions -> SessionRows]
           /\ throttle \in [Users -> ThrottleRows] /\ handled \in Nat /\ setups \in Nat
           /\ InSetup(req[q]) => \A p \in Requests \ {q} : ~InSetup(req[p])
           /\ \A u \in Users : user[u].pw \in Nat /\ (user[u].pw = 0 => user[u] = NoUser)
           /\ \A s \in Sessions : session[s].live => session[s].user \in Users
BY DEF Inv, Types, RequestsAreSound, RowsAreSound, Rows

LEMMA IdleIsSound == Idle \in RequestRecords /\ Sound(Idle)' /\ ~InSetup(Idle)
                     /\ Idle.pc = "done" /\ Idle.pw = 0
<1>1. Idle \in RequestRecords
  BY DEF Idle, RequestRecords, Ops, Pcs, Rows, NoUser, NoThrottle, ThrottleRows
<1>2. Idle.pc = "done" /\ Idle.pw = 0
  BY DEF Idle
<1> QED BY <1>1, <1>2 DEF Sound, InSetup

\* A request is answered or fails, after whatever it did.
LEMMA AnswerKeeps ==
    ASSUME Inv, NEW q \in Requests, Answer(q),
           UsersGrow, SessionsAreKnown, SetupBy(q),
           throttle' \in [Users -> ThrottleRows], UNCHANGED handled
    PROVE  Inv'
<1>1. PICK y \in RequestRecords : y = Idle
  BY IdleIsSound
<1>2. req' = [req EXCEPT ![q] = y] /\ Sound(y)' /\ ~InSetup(y) /\ y.pc = "done" /\ y.pw = 0
  BY <1>1, IdleIsSound DEF Answer
<1>3. \A s \in Sessions : session'[s].pw \in Nat
  BY DEF SessionsAreKnown, SessionRows
<1>4. \A s \in LiveOf(y.user)' : session'[s].pw < y.pw => s = y.keep
  BY <1>2, <1>3 DEF LiveOf
<1>5. handled' \in Nat
  BY Facts
<1> QED BY <1>2, <1>4, <1>5, RequestGoesOn

\* A request arrives.
LEMMA BeginKeeps ==
    ASSUME Inv, NEW q \in Requests, NEW y \in RequestRecords, Begin(q, y),
           UNCHANGED <<user, session, completed, throttle, setups>>,
           y.pc # "done", y.pw = 0, ~InSetup(y), y.pc # "mark", y.user \in Users,
           y.pc \in {"admins", "save", "password"} => user[y.user].pw > 0
    PROVE  Inv'
<1>1. UsersGrow /\ SessionsAreKnown /\ SetupBy(q)
  BY TablesRest
<1>2. Sound(y)'
  BY DEF Sound, InSetup
<1>3. req' = [req EXCEPT ![q] = y] /\ handled' \in Nat /\ throttle' \in [Users -> ThrottleRows]
  BY Facts DEF Begin
<1> QED BY <1>1, <1>2, <1>3, RequestGoesOn

\* A request goes on with the same user, and sets no password.
LEMMA StepKeeps ==
    ASSUME Inv, NEW q \in Requests, NEW y \in RequestRecords,
           req' = [req EXCEPT ![q] = y], req[q].pc # "done",
           y.user = req[q].user, y.pw = req[q].pw, y.keep = req[q].keep,
           UsersGrow, SessionsAreKnown, SetupBy(q),
           throttle' \in [Users -> ThrottleRows], UNCHANGED handled,
           y.pc \in {"admins", "save", "password"} => req[q].pc \in {"admins", "save", "password"},
           req[q].pc = "revoke" => y.pc = "done",
           y.pc = "mark" => Existing' # {},
           InSetup(y) => /\ SetupRow \in y.locks /\ ~completed'
                         /\ \A p \in Requests \ {q} : ~InSetup(req[p]),
           req[q].pc = "revoke" =>
               \A s \in LiveOf(y.user)' : session'[s].pw < y.pw => s = y.keep
    PROVE  Inv'
<1>1. Sound(req[q]) /\ handled' \in Nat
  BY Facts
<1>2. y.user \in Users
  BY <1>1 DEF Sound
<1>3. user'[y.user].pw >= user[y.user].pw /\ user[y.user].pw \in Nat /\ user'[y.user].pw \in Nat
  BY <1>2, Facts DEF UsersGrow, Rows
<1>4. y.pw \in Nat /\ (y.pw > 0 => req[q].pc = "revoke")
  BY <1>1 DEF Sound, RequestRecords
<1>5. Sound(y)'
  BY <1>1, <1>2, <1>3, <1>4 DEF Sound, InSetup
<1>6. \A s \in Sessions : session'[s].pw \in Nat
  BY DEF SessionsAreKnown, SessionRows
<1>7. \A s \in LiveOf(y.user)' : session'[s].pw < y.pw => s = y.keep
  BY <1>4, <1>6 DEF LiveOf
<1> QED BY <1>1, <1>5, <1>7, RequestGoesOn

-----------------------------------------------------------------------------
(* Requests that arrive. *)

\* Every request begins with a user, one that exists if it is to be changed, with
\* the row of that user as it is, and without a lock; one that removes
\* an active administrator does not save before it has locked them.
Arrives(y) ==
    /\ y.pc \notin {"done", "mark", "count", "insert", "record"} /\ y.pw = 0 /\ y.user \in Users
    /\ y.pc \in {"admins", "save", "password"} => user[y.user].pw > 0
    /\ y.seen \in {NoUser, user[y.user]}
    /\ y.pc = "create" => y.role \in Roles
    /\ y.pc = "save" => ~RemovesActiveAdmin(y.seen, y.role, y.status)

LEMMA ArriveIs ==
    ASSUME Inv, NEW q \in Requests, Arrive(q), ~logout(q)
    PROVE  /\ UNCHANGED <<user, session, completed, throttle, setups, failures>>
           /\ \E y \in RequestRecords : Begin(q, y) /\ Arrives(y)
<1>1. UNCHANGED <<user, session, completed, throttle, setups, failures>>
  BY Zenon DEF Arrive, start_bootstrap, start_create_admin, start_login, start_change_password, start_create_user,
         start_update_user, start_reset_password, start_revoke_sessions, Administer
<1>2. \A u \in Users : /\ u \in Existing => user[u].pw > 0
                       /\ user[u].status = "active" => user[u].pw > 0
                       /\ user[u] \in Rows
  BY Facts DEF Existing, NoUser
<1>3. Idle \in RequestRecords
  BY IdleIsSound
<1>4. CASE start_bootstrap(q)
  <2> PICK u \in Users : Begin(q, [Idle EXCEPT !.op = "bootstrap", !.pc = "lock", !.user = u])
    BY <1>4 DEF start_bootstrap
  <2>1. PICK y : y = [Idle EXCEPT !.op = "bootstrap", !.pc = "lock", !.user = u] /\ Begin(q, y)
    OBVIOUS
  <2>2. /\ y \in RequestRecords /\ y.pc = "lock" /\ y.pw = 0 /\ y.user = u
        /\ y.seen = NoUser
    BY <2>1, <1>3 DEF RequestRecords, Idle, Ops, Pcs
  <2> QED BY <1>1, <1>3, <2>1, <2>2 DEF Arrives
<1>5. CASE start_create_admin(q)
  <2> PICK u \in Users : Begin(q, [Idle EXCEPT !.op = "create_admin", !.pc = "create",
                                              !.user = u, !.role = "admin"])
    BY <1>5 DEF start_create_admin
  <2>1. PICK y : /\ y = [Idle EXCEPT !.op = "create_admin", !.pc = "create",
                                     !.user = u, !.role = "admin"]
                 /\ Begin(q, y)
    OBVIOUS
  <2>2. /\ y \in RequestRecords /\ y.pc = "create" /\ y.pw = 0 /\ y.user = u
        /\ y.seen = NoUser /\ y.role = "admin"
    BY <2>1, <1>3 DEF RequestRecords, Idle, Ops, Pcs, Roles
  <2> QED BY <1>1, <1>3, <2>1, <2>2 DEF Arrives, Roles
<1>6. CASE start_login(q)
  <2> PICK u \in Users, pc \in {"clear", "failure"} :
         Begin(q, [Idle EXCEPT !.op = "login", !.user = u, !.pc = pc])
    BY <1>6 DEF start_login
  <2>1. PICK y : /\ y = [Idle EXCEPT !.op = "login", !.user = u, !.pc = pc]
                 /\ Begin(q, y)
    OBVIOUS
  <2>2. /\ y \in RequestRecords /\ y.pc = pc /\ y.pw = 0 /\ y.user = u
        /\ y.seen = NoUser
    BY <2>1, <1>2, <1>3 DEF RequestRecords, Idle, Ops, Pcs
  <2> QED BY <1>1, <1>3, <2>1, <2>2 DEF Arrives
<1>7. CASE start_change_password(q)
  <2> PICK s \in Sessions : LET u == session[s].user IN
         /\ session[s].live /\ user[u].status = "active"
         /\ Begin(q, [Idle EXCEPT !.op = "change", !.pc = "password", !.user = u, !.keep = s])
    BY <1>7, Zenon DEF start_change_password, Signed
  <2>1. PICK u, y :
           /\ u = session[s].user /\ session[s].live /\ user[u].status = "active"
           /\ y = [Idle EXCEPT !.op = "change", !.pc = "password", !.user = u, !.keep = s]
           /\ Begin(q, y)
    OBVIOUS
  <2>2. u \in Users /\ user[u].pw > 0
    BY <2>1, <1>2, Facts
  <2>3. /\ y \in RequestRecords /\ y.pc = "password" /\ y.pw = 0 /\ y.user = u
        /\ y.seen = NoUser
    BY <2>1, <2>2, <1>3 DEF RequestRecords, Idle, Ops, Pcs
  <2> QED BY <1>1, <1>3, <2>1, <2>2, <2>3 DEF Arrives
<1>8. CASE start_create_user(q) \/ start_update_user(q) \/ start_reset_password(q) \/ start_revoke_sessions(q)
  <2>1. PICK op \in Ops, pc \in {"create", "admins", "save", "password", "revoke"}, u \in Users,
             role \in {"none"} \cup Roles, status \in {"none", "active", "disabled"} :
           /\ Administer(q, op, pc, u, role, status)
           /\ pc \in {"admins", "save", "password"} => u \in Existing
           /\ pc = "create" => role \in Roles
           /\ pc = "save" => ~RemovesActiveAdmin(user[u], role, status)
    <3>1. CASE start_create_user(q)
      BY <3>1 DEF start_create_user, Ops
    <3>2. CASE start_update_user(q)
      <4>1. PICK u \in Existing, role \in Roles \cup {"none"}, status \in {"active", "disabled", "none"} :
               Administer(q, "update", IF RemovesActiveAdmin(user[u], role, status)
                                       THEN "admins" ELSE "save", u, role, status)
        BY <3>2 DEF start_update_user
      <4>2. PICK pc \in {"admins", "save"} :
               /\ Administer(q, "update", pc, u, role, status)
               /\ pc = "save" => ~RemovesActiveAdmin(user[u], role, status)
        BY <4>1
      <4>3. u \in Users
        BY DEF Existing
      <4> QED BY <4>1, <4>2, <4>3 DEF Ops
    <3>3. CASE start_reset_password(q)
      BY <3>3 DEF start_reset_password, Ops, Existing
    <3>4. CASE start_revoke_sessions(q)
      BY <3>4 DEF start_revoke_sessions, Ops, Existing
    <3> QED BY <1>8, <3>1, <3>2, <3>3, <3>4
  <2>2. PICK y : /\ y = [Idle EXCEPT !.op = op, !.pc = pc, !.user = u, !.seen = user[u],
                                     !.role = role, !.status = status]
                 /\ Begin(q, y)
    BY <2>1 DEF Administer
  <2>3. /\ y \in RequestRecords /\ y.pc = pc /\ y.pw = 0 /\ y.user = u /\ y.seen = user[u]
        /\ y.role = role /\ y.status = status
    BY <2>1, <2>2, <1>2, <1>3, ZenonT(40) DEF RequestRecords, Idle, Ops, Pcs
  <2> QED BY <1>1, <1>2, <1>3, <2>1, <2>2, <2>3 DEF Arrives
<1> QED BY <1>1, <1>4, <1>5, <1>6, <1>7, <1>8 DEF Arrive

LEMMA ArriveKeeps ==
    ASSUME Inv, NEW q \in Requests, Arrive(q), ~logout(q)
    PROVE  Inv'
BY ArriveIs, BeginKeeps DEF Arrives, InSetup

\* Logging out ends a session and no more.
LEMMA LogoutKeeps ==
    ASSUME Inv, NEW q \in Requests, logout(q)
    PROVE  Inv'
<1>1. PICK y \in RequestRecords : y = req[q]
  BY Facts
<1>2. req' = [req EXCEPT ![q] = y] /\ handled' \in Nat /\ throttle' \in [Users -> ThrottleRows]
  BY <1>1, Facts DEF logout
<1>3. UsersGrow /\ SetupBy(q)
  BY TablesRest DEF logout
<1>4. PICK s \in Sessions : session' = [session EXCEPT ![s].live = FALSE]
  BY DEF logout
<1>5. /\ session' \in [Sessions -> SessionRows]
      /\ \A k \in Sessions : /\ session'[k].live => session[k].live
                             /\ session'[k].user = session[k].user /\ session'[k].pw = session[k].pw
  BY <1>4, Facts, Zenon DEF SessionRows
<1>6. SessionsAreKnown
  BY <1>5, Facts DEF SessionsAreKnown
<1>7. Sound(y)'
  BY <1>1, Facts DEF logout, Sound, Existing, InSetup
<1>8. InSetup(y) => \A p \in Requests \ {q} : ~InSetup(req[p])
  BY <1>1, Facts
<1>9. y.pc = "done" => \A k \in LiveOf(y.user)' : session'[k].pw < y.pw => k = y.keep
  BY <1>1, <1>5 DEF Inv, ResetEndsSessions, LiveOf
<1> QED BY <1>2, <1>3, <1>6, <1>7, <1>8, <1>9, RequestGoesOn

-----------------------------------------------------------------------------
(* Requests that go on. *)

\* A session that is inserted is of the user it is for, and as new as given.
LEMMA InsertedSession ==
    ASSUME Inv, UsersGrow, NEW u \in Users, RoomForSession,
           NEW pw, pw = user'[u].pw, session' = WithSession(u, pw)
    PROVE  SessionsAreKnown
<1>1. PICK s : session' = [session EXCEPT ![s] = [user |-> u, live |-> TRUE, pw |-> pw]]
  BY DEF WithSession
<1>2. pw \in Nat /\ session \in [Sessions -> SessionRows]
  BY DEF Inv, Types, UsersGrow, Rows
<1>3. session' \in [Sessions -> SessionRows]
  <2>1. [user |-> u, live |-> TRUE, pw |-> pw] \in SessionRows
    BY <1>2 DEF SessionRows
  <2> QED BY <2>1, <1>1, <1>2
<1>4. ASSUME NEW k \in Sessions, session'[k].live
      PROVE  /\ session'[k].user \in Users
             /\ \/ /\ session[k].live /\ session'[k].user = session[k].user
                   /\ session'[k].pw = session[k].pw
                \/ session'[k].pw = user'[session'[k].user].pw
  <2>1. CASE k = s
    BY <2>1, <1>1, <1>2
  <2>2. CASE k # s
    <3>1. session'[k] = session[k]
      BY <2>2, <1>1, <1>2
    <3>2. session[k].live => session[k].user \in Users
      BY DEF Inv, RowsAreSound
    <3> QED BY <3>1, <3>2, <1>4
  <2> QED BY <2>1, <2>2
<1> QED BY <1>3, <1>4 DEF SessionsAreKnown

\* A user that is inserted had no row.
LEMMA InsertedUser ==
    ASSUME Inv, NEW u \in Users, user[u] = NoUser, NEW role \in {"none"} \cup Roles,
           user' = [user EXCEPT ![u] = Row(role, 1)]
    PROVE  UsersGrow /\ user'[u].pw = 1 /\ Existing' # {}
<1>1. user \in [Users -> Rows] /\ Row(role, 1) \in Rows /\ Row(role, 1).pw = 1 /\ user[u].pw = 0
  BY DEF Inv, Types, Row, Rows, NoUser
<1>2. user' \in [Users -> Rows] /\ user'[u].pw = 1
  BY <1>1
<1>3. \A v \in Users : user'[v].pw >= user[v].pw /\ (user'[v].pw = 0 => user'[v] = NoUser)
  <2> SUFFICES ASSUME NEW v \in Users
               PROVE  user'[v].pw >= user[v].pw /\ (user'[v].pw = 0 => user'[v] = NoUser)
    OBVIOUS
  <2>1. CASE v = u
    BY <2>1, <1>1, <1>2
  <2>2. CASE v # u
    <3>1. user'[v] = user[v]
      BY <2>2, <1>1
    <3>2. user[v].pw \in Nat /\ (user[v].pw = 0 => user[v] = NoUser)
      BY DEF Rows, Inv, Types, RowsAreSound
    <3> QED BY <3>1, <3>2
  <2> QED BY <2>1, <2>2
<1>4. user'[u] # NoUser
  BY <1>2 DEF NoUser
<1> QED BY <1>2, <1>3, <1>4 DEF UsersGrow, Existing

\* While the row of the set-up is free for q, no other request is setting up.
LEMMA NoOtherSetup ==
    ASSUME Inv, NEW q \in Requests, Free(q, SetupRow)
    PROVE  \A p \in Requests \ {q} : ~InSetup(req[p])
<1> SUFFICES ASSUME NEW p \in Requests \ {q}, InSetup(req[p]) PROVE FALSE
  OBVIOUS
<1>1. Sound(req[p])
  BY Facts
<1> QED BY <1>1 DEF Sound, Free

\* The row is taken, unless the set-up is over.
LEMMA LockKeeps ==
    ASSUME Inv, NEW q \in Requests, bootstrap_lock(q)
    PROVE  Inv'
<1>1. /\ UsersGrow /\ SessionsAreKnown /\ SetupBy(q)
      /\ throttle' \in [Users -> ThrottleRows] /\ UNCHANGED handled
  BY TablesRest, Facts DEF bootstrap_lock
<1>2. CASE Answer(q)
  BY <1>1, <1>2, AnswerKeeps
<1>3. CASE ~completed /\ req' = [req EXCEPT ![q].pc = "count", ![q].locks = {SetupRow}]
  <2>1. PICK y : y = [req[q] EXCEPT !.pc = "count", !.locks = {SetupRow}]
    OBVIOUS
  <2>2. /\ y \in RequestRecords /\ y.pc = "count" /\ y.user = req[q].user /\ y.pw = req[q].pw
        /\ y.keep = req[q].keep /\ y.locks = {SetupRow}
    BY <2>1, Facts, ZenonT(40) DEF RequestRecords, Pcs
  <2>3. req' = [req EXCEPT ![q] = y]
    BY <2>1, <1>3, Facts DEF RequestRecords
  <2>4. req[q].pc = "lock" /\ ~completed'
    BY <1>3 DEF bootstrap_lock
  <2>5. \A p \in Requests \ {q} : ~InSetup(req[p])
    BY NoOtherSetup DEF bootstrap_lock
  <2> QED BY <1>1, <2>2, <2>3, <2>4, <2>5, StepKeeps
<1> QED BY <1>2, <1>3 DEF bootstrap_lock, Refuse

\* Users that are found close the set-up.
LEMMA CountKeeps ==
    ASSUME Inv, NEW q \in Requests, bootstrap_count(q)
    PROVE  Inv'
<1>1. UsersGrow /\ SessionsAreKnown /\ throttle' \in [Users -> ThrottleRows] /\ UNCHANGED handled
  BY TablesRest, Facts DEF bootstrap_count
<1>2. /\ InSetup(req[q]) /\ req[q].pc = "count" /\ SetupRow \in req[q].locks /\ ~completed
      /\ \A p \in Requests \ {q} : ~InSetup(req[p])
  BY Facts DEF bootstrap_count, InSetup, Sound
<1>3. CASE Existing # {} /\ completed' = TRUE /\ Answer(q)
  <2>1. Existing' # {}
    BY <1>3 DEF bootstrap_count, Existing
  <2>2. SetupBy(q)
    BY <2>1, <1>2, <1>3 DEF SetupBy, bootstrap_count
  <2> QED BY <1>1, <1>3, <2>2, AnswerKeeps
<1>4. CASE UNCHANGED completed /\ Goto(q, "insert")
  <2>1. SetupBy(q)
    BY <1>4 DEF SetupBy, bootstrap_count
  <2>2. PICK y : y = [req[q] EXCEPT !.pc = "insert"]
    OBVIOUS
  <2>3. /\ y \in RequestRecords /\ y.pc = "insert" /\ y.user = req[q].user /\ y.pw = req[q].pw
        /\ y.keep = req[q].keep /\ SetupRow \in y.locks
    BY <2>2, <1>2, Facts, SMTT(30) DEF RequestRecords, Pcs
  <2>4. req' = [req EXCEPT ![q] = y]
    BY <2>2, <1>4, Facts DEF Goto
  <2> QED BY <1>1, <1>2, <1>4, <2>1, <2>3, <2>4, StepKeeps
<1> QED BY <1>3, <1>4 DEF bootstrap_count, Refuse

\* The administrator, the session and the flag are written together.
LEMMA BootstrapKeeps ==
    ASSUME Inv, NEW q \in Requests, bootstrap_admin(q)
    PROVE  Inv'
<1>1. throttle' \in [Users -> ThrottleRows] /\ UNCHANGED handled
  BY Facts DEF bootstrap_admin
<1>2. /\ req[q].user \in Users /\ ~completed
      /\ \A p \in Requests \ {q} : ~InSetup(req[p])
  BY Facts DEF bootstrap_admin, InSetup, Sound
<1>3. CASE Answer(q) /\ UNCHANGED <<user, session, completed, setups>>
  BY <1>1, <1>3, TablesRest, AnswerKeeps
<1>4. CASE /\ user[req[q].user] = NoUser /\ RoomForSession /\ Answer(q)
           /\ user' = [user EXCEPT ![req[q].user] = Row("admin", 1)]
           /\ session' = WithSession(req[q].user, 1)
           /\ completed' = TRUE /\ setups' = setups + 1
  <2>1. UsersGrow /\ user'[req[q].user].pw = 1 /\ Existing' # {}
    BY <1>2, <1>4, InsertedUser DEF Roles
  <2>2. SessionsAreKnown
    BY <1>2, <1>4, <2>1, InsertedSession
  <2>3. SetupBy(q)
    BY <1>2, <1>4, <2>1 DEF SetupBy
  <2> QED BY <1>1, <1>4, <2>1, <2>2, <2>3, AnswerKeeps
<1> QED BY <1>3, <1>4 DEF bootstrap_admin, Refuse

\* A user is created, by an administrator or the command line.
LEMMA CreateKeeps ==
    ASSUME Inv, NEW q \in Requests, create_user(q)
    PROVE  Inv'
<1>1. throttle' \in [Users -> ThrottleRows] /\ UNCHANGED handled /\ SetupBy(q)
  BY Facts, TablesRest DEF create_user
<1>2. req[q].user \in Users
  BY Facts DEF create_user, Sound
<1>3. CASE Answer(q) /\ UNCHANGED user
  BY <1>1, <1>3, TablesRest, AnswerKeeps DEF create_user
<1>4. CASE /\ user[req[q].user] = NoUser
           /\ user' = [user EXCEPT ![req[q].user] = Row(req[q].role, 1)]
           /\ CommitTo(q, IF req[q].op = "create_admin" THEN "mark" ELSE "done")
  <2>1. UsersGrow /\ Existing' # {}
    <3>1. req[q].role \in {"none"} \cup Roles
      BY Facts DEF RequestRecords
    <3> QED BY <1>2, <1>4, <3>1, InsertedUser
  <2>2. SessionsAreKnown
    <3>1. /\ session' = session /\ session \in [Sessions -> SessionRows]
          /\ \A s \in Sessions : session[s].live => session[s].user \in Users
      BY Facts DEF create_user, Inv, RowsAreSound
    <3> QED BY <3>1 DEF SessionsAreKnown
  <2>3. PICK pc \in {"mark", "done"} : CommitTo(q, pc)
    BY <1>4
  <2>4. PICK y : y = [req[q] EXCEPT !.pc = pc, !.locks = {}]
    OBVIOUS
  <2>5. /\ y \in RequestRecords /\ y.pc = pc /\ y.user = req[q].user /\ y.pw = req[q].pw
        /\ y.keep = req[q].keep
    BY <2>4, Facts, ZenonT(40) DEF RequestRecords, Pcs
  <2>6. req' = [req EXCEPT ![q] = y]
    BY <2>3, <2>4, Facts DEF CommitTo, RequestRecords
  <2>7. req[q].pc = "create" /\ ~InSetup(y)
    BY <2>5 DEF create_user, InSetup
  <2> QED BY <1>1, <2>1, <2>2, <2>5, <2>6, <2>7, StepKeeps
<1> QED BY <1>3, <1>4 DEF create_user, Refuse

\* Once a user exists the set-up is closed; it may have been already.
LEMMA MarkKeeps ==
    ASSUME Inv, NEW q \in Requests, mark_bootstrap_completed(q)
    PROVE  Inv'
<1>1. throttle' \in [Users -> ThrottleRows] /\ UNCHANGED handled
  BY Facts DEF mark_bootstrap_completed
<1>2. UsersGrow /\ SessionsAreKnown
  BY TablesRest DEF mark_bootstrap_completed
<1>3. Existing' # {}
  BY Facts DEF mark_bootstrap_completed, Sound, Existing
<1>4. ~completed => \A p \in Requests \ {q} : ~InSetup(req[p])
  BY NoOtherSetup DEF mark_bootstrap_completed
<1>5. SetupBy(q)
  BY <1>3, <1>4 DEF SetupBy, mark_bootstrap_completed
<1> QED BY <1>1, <1>2, <1>5, AnswerKeeps DEF mark_bootstrap_completed

\* A failed login reads the row of its throttle.
LEMMA ReadKeeps ==
    ASSUME Inv, NEW q \in Requests, read_login_failure(q)
    PROVE  Inv'
<1>1. /\ UsersGrow /\ SessionsAreKnown /\ SetupBy(q)
      /\ throttle' \in [Users -> ThrottleRows] /\ UNCHANGED handled
  BY TablesRest, Facts DEF read_login_failure
<1>2. PICK t \in ThrottleRows : t = throttle[req[q].user]
  BY Facts DEF read_login_failure, Sound
<1>3. PICK y : y = [req[q] EXCEPT !.pc = "record", !.throttle = t]
  OBVIOUS
<1>4. /\ y \in RequestRecords /\ y.pc = "record" /\ y.user = req[q].user /\ y.pw = req[q].pw
      /\ y.keep = req[q].keep
  BY <1>3, Facts, ZenonT(40) DEF RequestRecords, Pcs
<1>5. req' = [req EXCEPT ![q] = y]
  BY <1>2, <1>3, Facts DEF read_login_failure, RequestRecords
<1>6. req[q].pc = "failure" /\ ~InSetup(y)
  BY <1>4 DEF read_login_failure, InSetup
<1> QED BY <1>1, <1>4, <1>5, <1>6, StepKeeps

\* A failed login counts, in the throttle alone.
LEMMA FailureKeeps ==
    ASSUME Inv, NEW q \in Requests, record_login_failure(q)
    PROVE  Inv'
<1>1. UsersGrow /\ SessionsAreKnown /\ SetupBy(q)
  BY TablesRest DEF record_login_failure
<1>2. ASSUME NEW row \in ThrottleRows, NEW t \in ThrottleRows
      PROVE  CountedFailure(row, t) \in ThrottleRows
  BY DEF CountedFailure, ThrottleRows
<1>3. throttle' \in [Users -> ThrottleRows]
  <2>1. req[q].user \in Users /\ throttle \in [Users -> ThrottleRows] /\ req[q].throttle \in ThrottleRows
    BY Facts DEF record_login_failure, Sound, RequestRecords
  <2>2. PICK t \in ThrottleRows :
           throttle' \in {throttle, [throttle EXCEPT ![req[q].user] = CountedFailure(throttle[req[q].user], t)]}
    BY <2>1 DEF record_login_failure
  <2>3. CountedFailure(throttle[req[q].user], t) \in ThrottleRows
    BY <1>2, <2>1
  <2> QED BY <2>1, <2>2, <2>3
<1> QED BY <1>1, <1>3, AnswerKeeps DEF record_login_failure, Refuse

\* A success forgets the failures.
LEMMA ClearKeeps ==
    ASSUME Inv, NEW q \in Requests, clear_login_failures(q)
    PROVE  Inv'
<1>1. UsersGrow /\ SessionsAreKnown /\ SetupBy(q)
  BY TablesRest DEF clear_login_failures
<1>2. throttle' \in [Users -> ThrottleRows]
  BY Facts DEF clear_login_failures, NoThrottle, ThrottleRows
<1>3. PICK y : y = [req[q] EXCEPT !.pc = "session"]
  OBVIOUS
<1>4. /\ y \in RequestRecords /\ y.pc = "session" /\ y.user = req[q].user /\ y.pw = req[q].pw
      /\ y.keep = req[q].keep
  BY <1>3, Facts DEF RequestRecords, Pcs
<1>5. req' = [req EXCEPT ![q] = y]
  BY <1>3, Facts DEF clear_login_failures, Goto
<1>6. req[q].pc = "clear" /\ ~InSetup(y) /\ UNCHANGED handled
  BY <1>4 DEF clear_login_failures, InSetup
<1> QED BY <1>1, <1>2, <1>4, <1>5, <1>6, StepKeeps

\* The session that is inserted is as new as the password of its user.
LEMMA LoginKeeps ==
    ASSUME Inv, NEW q \in Requests, create_login_session(q)
    PROVE  Inv'
<1>1. UsersGrow /\ SetupBy(q) /\ throttle' \in [Users -> ThrottleRows] /\ UNCHANGED handled
  BY TablesRest, Facts DEF create_login_session
<1>2. req[q].user \in Users
  BY Facts DEF create_login_session, Sound
<1>3. SessionsAreKnown
  BY <1>1, <1>2, InsertedSession DEF create_login_session
<1> QED BY <1>1, <1>3, AnswerKeeps DEF create_login_session

\* The active administrators are locked.
LEMMA AdminsKeeps ==
    ASSUME Inv, NEW q \in Requests, locked_active_admin_count(q)
    PROVE  Inv'
<1>1. /\ UsersGrow /\ SessionsAreKnown /\ SetupBy(q)
      /\ throttle' \in [Users -> ThrottleRows] /\ UNCHANGED handled
  BY TablesRest, Facts DEF locked_active_admin_count
<1>2. CASE Answer(q)
  BY <1>1, <1>2, AnswerKeeps
<1>3. CASE req' = [req EXCEPT ![q].pc = "save", ![q].locks = ActiveAdmins]
  <2>1. PICK y : y = [req[q] EXCEPT !.pc = "save", !.locks = ActiveAdmins]
    OBVIOUS
  <2>2. /\ y \in RequestRecords /\ y.pc = "save" /\ y.user = req[q].user /\ y.pw = req[q].pw
        /\ y.keep = req[q].keep
    BY <2>1, Facts, ZenonT(40) DEF RequestRecords, Pcs, ActiveAdmins
  <2>3. req' = [req EXCEPT ![q] = y]
    BY <2>1, <1>3, Facts DEF RequestRecords
  <2>4. req[q].pc = "admins" /\ ~InSetup(y)
    BY <2>2 DEF locked_active_admin_count, InSetup
  <2> QED BY <1>1, <2>2, <2>3, <2>4, StepKeeps
<1> QED BY <1>2, <1>3 DEF locked_active_admin_count, Refuse

\* Saving a user leaves the password as it is.
LEMMA SaveKeeps ==
    ASSUME Inv, NEW q \in Requests, save_user(q)
    PROVE  Inv'
<1>1. throttle' \in [Users -> ThrottleRows] /\ UNCHANGED handled /\ SetupBy(q)
  BY Facts, TablesRest DEF save_user
<1>2. PICK u \in Users : u = req[q].user /\ user[u].pw > 0 /\ req[q].pc = "save"
  BY Facts DEF save_user, Sound
<1>3. PICK row : /\ row = Updated(user[u], req[q].seen, req[q].role, req[q].status)
                 /\ user' = [user EXCEPT ![u] = row]
  BY <1>2, Facts DEF save_user
<1>4. row \in Rows /\ row.pw = user[u].pw
  <2>1. /\ user[u] \in Rows
        /\ req[q].role \in {"none"} \cup Roles /\ req[q].status \in {"none", "active", "disabled"}
    BY Facts DEF RequestRecords
  <2>2. PICK role \in {"none"} \cup Roles, status \in {"none", "active", "disabled"} :
           row = [user[u] EXCEPT !.role = role, !.status = status]
    BY <1>3, <2>1 DEF Updated, Rows
  <2> QED BY <2>1, <2>2 DEF Rows
<1>5. UsersGrow
  <2>1. user' \in [Users -> Rows]
    BY <1>3, <1>4, Facts
  <2>2. ASSUME NEW v \in Users
        PROVE  user'[v].pw >= user[v].pw /\ (user'[v].pw = 0 => user'[v] = NoUser)
    <3>1. user[v].pw \in Nat /\ (user[v].pw = 0 => user[v] = NoUser)
      BY Facts
    <3>2. IF v = u THEN user'[v].pw = user[v].pw ELSE user'[v] = user[v]
      BY <1>3, <1>4, Facts
    <3> QED BY <3>1, <3>2, <1>2
  <2> QED BY <2>1, <2>2 DEF UsersGrow
<1>6. SessionsAreKnown
  <2>1. session' = session
    BY DEF save_user
  <2> QED BY <2>1, Facts DEF SessionsAreKnown
<1>7. PICK pc \in {"revoke", "done"} : CommitTo(q, pc)
  BY DEF save_user
<1>8. PICK y : y = [req[q] EXCEPT !.pc = pc, !.locks = {}]
  OBVIOUS
<1>9. /\ y \in RequestRecords /\ y.pc = pc /\ y.user = req[q].user /\ y.pw = req[q].pw
      /\ y.keep = req[q].keep
  BY <1>8, Facts, ZenonT(40) DEF RequestRecords, Pcs
<1>10. req' = [req EXCEPT ![q] = y]
  BY <1>7, <1>8, Facts DEF CommitTo, RequestRecords
<1> QED BY <1>1, <1>2, <1>5, <1>6, <1>9, <1>10, StepKeeps DEF InSetup

\* A new password: no session is as new yet, and the request goes on to revoke.
LEMMA PasswordKeeps ==
    ASSUME Inv, NEW q \in Requests, set_password(q)
    PROVE  Inv'
<1>1. throttle' \in [Users -> ThrottleRows] /\ handled' \in Nat /\ SetupBy(q)
  BY Facts, TablesRest DEF set_password
<1>2. PICK u \in Users : u = req[q].user /\ user[u].pw > 0 /\ req[q].pc = "password"
  BY Facts DEF set_password, Sound
<1>3. PICK row : row = [user[u] EXCEPT !.pw = user[u].pw + 1] /\ user' = [user EXCEPT ![u] = row]
  BY <1>2, Facts DEF set_password
<1>4. row \in Rows /\ row.pw = user[u].pw + 1 /\ user[u].pw \in Nat
  BY <1>3, Facts DEF Rows
<1>5. user' \in [Users -> Rows] /\ user'[u] = row /\ \A v \in Users : v # u => user'[v] = user[v]
  BY <1>3, <1>4, Facts
<1>6. UsersGrow
  <2> SUFFICES ASSUME NEW v \in Users
               PROVE  user'[v].pw >= user[v].pw /\ (user'[v].pw = 0 => user'[v] = NoUser)
    BY <1>5 DEF UsersGrow
  <2>1. user[v].pw \in Nat /\ (user[v].pw = 0 => user[v] = NoUser)
    BY Facts
  <2> QED BY <1>4, <1>5, <2>1
<1>7. SessionsAreKnown
  <2>1. session' = session
    BY DEF set_password
  <2> QED BY <2>1, Facts DEF SessionsAreKnown
<1>8. PICK y : y = [req[q] EXCEPT !.pc = "revoke", !.pw = user[u].pw + 1]
  OBVIOUS
<1>9. y \in RequestRecords /\ y.pc = "revoke" /\ y.user = u /\ y.pw = user[u].pw + 1
  <2>1. PICK pw \in Nat : pw = user[u].pw + 1
    BY <1>4
  <2>2. y = [req[q] EXCEPT !.pc = "revoke", !.pw = pw]
    BY <1>8, <2>1, Zenon
  <2>3. req[q] \in RequestRecords /\ u = req[q].user
    BY <1>2, Facts
  <2>4. y \in RequestRecords /\ y.pc = "revoke" /\ y.user = u /\ y.pw = pw
    BY <2>1, <2>2, <2>3, Zenon DEF RequestRecords, Pcs
  <2> QED BY <2>1, <2>4
<1>10. req' = [req EXCEPT ![q] = y]
  BY <1>8, <1>2, Facts DEF set_password, RequestRecords
<1>11. Sound(y)' /\ ~InSetup(y)
  BY <1>4, <1>5, <1>9 DEF Sound, InSetup
<1> QED BY <1>1, <1>6, <1>7, <1>9, <1>10, <1>11, RequestGoesOn

\* The sessions of the user end, but the one that is kept.
LEMMA RevokeKeeps ==
    ASSUME Inv, NEW q \in Requests, revoke_user_sessions(q)
    PROVE  Inv'
<1>1. throttle' \in [Users -> ThrottleRows] /\ UNCHANGED handled /\ UsersGrow /\ SetupBy(q)
  BY Facts, TablesRest DEF revoke_user_sessions
<1>2. /\ session' \in [Sessions -> SessionRows]
      /\ \A s \in Sessions : /\ session'[s].user = session[s].user /\ session'[s].pw = session[s].pw
                             /\ session'[s].live => session[s].live /\ s \notin Revoked(q)
  <2>1. \A s \in Sessions : session[s] \in SessionRows
    BY Facts
  <2>2. \A s \in Sessions :
           /\ [session[s] EXCEPT !.live = FALSE] \in SessionRows
           /\ [session[s] EXCEPT !.live = FALSE].user = session[s].user
           /\ [session[s] EXCEPT !.live = FALSE].pw = session[s].pw
           /\ ~[session[s] EXCEPT !.live = FALSE].live
    BY <2>1 DEF SessionRows
  <2>3. session' = [s \in Sessions |-> IF s \in Revoked(q) THEN [session[s] EXCEPT !.live = FALSE]
                                                          ELSE session[s]]
    BY DEF revoke_user_sessions
  <2> QED BY <2>1, <2>2, <2>3
<1>3. SessionsAreKnown
  BY <1>2, Facts DEF SessionsAreKnown
<1>4. PICK y : y = [req[q] EXCEPT !.pc = "done", !.locks = {}]
  OBVIOUS
<1>5. /\ y \in RequestRecords /\ y.pc = "done" /\ y.user = req[q].user /\ y.pw = req[q].pw
      /\ y.keep = req[q].keep
  BY <1>4, Facts, ZenonT(40) DEF RequestRecords, Pcs
<1>6. req' = [req EXCEPT ![q] = y]
  BY <1>4, Facts DEF revoke_user_sessions, CommitTo, RequestRecords
<1>7. \A s \in LiveOf(y.user)' : s = y.keep
  BY <1>2, <1>5 DEF LiveOf, Revoked
<1>8. req[q].pc = "revoke" /\ ~InSetup(y)
  BY <1>5 DEF revoke_user_sessions, InSetup
<1> QED BY <1>1, <1>3, <1>5, <1>6, <1>7, <1>8, StepKeeps

\* A request that fails has done what it had committed.
LEMMA InterruptKeeps ==
    ASSUME Inv, NEW q \in Requests, Interrupt(q)
    PROVE  Inv'
<1>1. /\ UsersGrow /\ SessionsAreKnown /\ SetupBy(q)
      /\ throttle' \in [Users -> ThrottleRows] /\ UNCHANGED handled
  BY TablesRest, Facts DEF Interrupt
<1> QED BY <1>1, AnswerKeeps DEF Interrupt, Refuse

-----------------------------------------------------------------------------
(* Time, and every step. *)

\* A step that changes the throttle at most, such as the end of a window or a block.
LEMMA RestKeeps ==
    ASSUME Inv, UNCHANGED <<user, session, completed, req, handled, setups>>,
           throttle' \in [Users -> ThrottleRows]
    PROVE  Inv'
<1>1. Types /\ RowsAreSound /\ RequestsAreSound /\ SetupOnce /\ ResetEndsSessions
  BY DEF Inv
<1>2. Types'
  BY <1>1 DEF Types
<1>3. RowsAreSound' /\ SetupOnce' /\ ResetEndsSessions'
  BY <1>1 DEF RowsAreSound, SetupOnce, Existing, ResetEndsSessions, LiveOf
<1>4. RequestsAreSound'
  BY <1>1 DEF RequestsAreSound, Sound, InSetup, Existing
<1> QED BY <1>2, <1>3, <1>4 DEF Inv

\* The invariant holds of every state.
LEMMA InvHolds == Spec => []Inv
<1>1. Init => Inv
  <2> SUFFICES ASSUME Init PROVE Inv
    OBVIOUS
  <2>1. Idle \in RequestRecords /\ Idle.pc = "done" /\ Idle.pw = 0
    BY IdleIsSound
  <2>2. NoUser \in Rows /\ NoUser.pw = 0 /\ NoThrottle \in ThrottleRows
    BY DEF Rows, NoUser, NoThrottle, ThrottleRows
  <2>3. NoSession \in SessionRows /\ ~NoSession.live
    BY DEF NoSession, SessionRows
  <2>4. Types
    BY <2>1, <2>2, <2>3 DEF Init, Types
  <2>5. RowsAreSound /\ SetupOnce
    BY <2>2, <2>3 DEF Init, RowsAreSound, SetupOnce
  <2>6. \A q \in Requests : Sound(req[q]) /\ ~InSetup(req[q])
    BY <2>1 DEF Init, Sound, InSetup
  <2>7. ResetEndsSessions
    BY <2>3 DEF Init, ResetEndsSessions, LiveOf
  <2> QED BY <2>4, <2>5, <2>6, <2>7 DEF Inv, RequestsAreSound
<1>2. Inv /\ [Next]_vars => Inv'
  <2> SUFFICES ASSUME Inv, [Next]_vars PROVE Inv'
    OBVIOUS
  <2>1. ASSUME NEW q \in Requests, Arrive(q) PROVE Inv'
    BY <2>1, ArriveKeeps, LogoutKeeps
  <2>2. ASSUME NEW q \in Requests, Proceed(q) PROVE Inv'
    BY <2>2, LockKeeps, CountKeeps, BootstrapKeeps, CreateKeeps, MarkKeeps, ReadKeeps,
       FailureKeeps, ClearKeeps, LoginKeeps, AdminsKeeps, SaveKeeps, PasswordKeeps, RevokeKeeps DEF Proceed
  <2>3. ASSUME NEW q \in Requests, Interrupt(q) PROVE Inv'
    BY <2>3, InterruptKeeps
  <2>4. ASSUME NEW u \in Users, WindowEnds(u) PROVE Inv'
    <3>1. throttle' \in [Users -> ThrottleRows]
      BY <2>4 DEF WindowEnds, Inv, Types, ThrottleRows
    <3> QED BY <2>4, <3>1, RestKeeps DEF WindowEnds
  <2>5. ASSUME NEW u \in Users, BlockEnds(u) PROVE Inv'
    <3>1. throttle' \in [Users -> ThrottleRows]
      BY <2>5 DEF BlockEnds, Inv, Types, ThrottleRows
    <3> QED BY <2>5, <3>1, RestKeeps DEF BlockEnds
  <2>6. CASE UNCHANGED vars
    <3>1. throttle' \in [Users -> ThrottleRows]
      BY <2>6 DEF vars, Inv, Types
    <3> QED BY <2>6, <3>1, RestKeeps DEF vars
  <2> QED BY <2>1, <2>2, <2>3, <2>4, <2>5, <2>6 DEF Next
<1> QED BY <1>1, <1>2, PTL DEF Spec

\* The entry that sets up the first administrator succeeds at most once and is
\* closed from then on, whatever requests and the command line interleave: the
\* row it locks keeps two from counting no users, and the flag only ever goes
\* up in the transaction that finds or leaves a user behind.
THEOREM SetupHappensOnce == Spec => []SetupOnce
<1>1. Inv => SetupOnce
  BY DEF Inv
<1> QED BY <1>1, InvHolds, PTL

\* When a reset or a change of a password is answered, only the session it was
\* made in may be older than the password: the request revokes in a transaction
\* after the one that set the password, so a session inserted between the two
\* is as new as the password or revoked with the others.
THEOREM ResetLeavesNoOldSession == Spec => []ResetEndsSessions
<1>1. Inv => ResetEndsSessions
  BY DEF Inv
<1> QED BY <1>1, InvHolds, PTL

-----------------------------------------------------------------------------
(* The bounds of the tables *)

\* What TypeOK adds to Types: rows of users that exist have a role, a status
\* and a password; so has the one a request is to create.
Bounds ==
    /\ \A u \in Users : user[u] \in UserRows
    /\ \A s \in Sessions : session[s].pw <= MaxPassword
    /\ \A q \in Requests : /\ req[q].seen \in UserRows
                           /\ req[q].pc = "create" => req[q].role \in Roles
    /\ handled <= MaxRequests

LEMMA BoundsGiveTypes == ASSUME Inv, Bounds PROVE TypeOK
<1>1. user \in [Users -> UserRows]
  BY DEF Inv, Types, Bounds
<1>2. session \in [Sessions -> [user : Users \cup {"none"}, live : BOOLEAN, pw : 0 .. MaxPassword]]
  <2> SUFFICES ASSUME NEW s \in Sessions
               PROVE  session[s] \in [user : Users \cup {"none"}, live : BOOLEAN,
                                      pw : 0 .. MaxPassword]
    BY DEF Inv, Types
  <2>1. session[s] \in SessionRows /\ session[s].pw <= MaxPassword
    BY DEF Inv, Types, Bounds
  <2>2. session[s].pw \in 0 .. MaxPassword
    BY <2>1, ConstantsAssumption DEF SessionRows
  <2> QED BY <2>1, <2>2 DEF SessionRows
<1>3. throttle \in [Users -> Throttles]
  BY DEF Inv, Types, Throttles, ThrottleRows
<1>4. \A q \in Requests : req[q].user \in Users \cup {"none"} /\ req[q].locks \subseteq Users \cup {SetupRow}
  BY Facts DEF RequestRecords
<1>5. handled \in 0 .. MaxRequests
  BY ConstantsAssumption DEF Inv, Types, Bounds
<1> QED BY <1>1, <1>2, <1>3, <1>4, <1>5 DEF TypeOK, Bounds, Inv, Types

\* Every step of a request changes that one.
LEMMA BoundsStep ==
    ASSUME Inv, Bounds, NEW q \in Requests, NEW y,
           req' = [req EXCEPT ![q] = y],
           \A u \in Users : user'[u] \in UserRows,
           \A s \in Sessions : session'[s].pw <= MaxPassword,
           y.seen \in UserRows, y.pc = "create" => y.role \in Roles,
           handled' <= MaxRequests
    PROVE  Bounds'
<1>1. \A p \in Requests : req'[p] = IF p = q THEN y ELSE req[p]
  BY DEF Inv, Types
<1> QED BY <1>1 DEF Bounds

\* Rows of users that a step writes.
LEMMA WrittenRows ==
    ASSUME Inv, Bounds, NEW u \in Users
    PROVE  /\ \A role \in Roles : Row(role, 1) \in UserRows
           /\ user[u] # NoUser => user[u] \in [role : Roles, status : {"active", "disabled"}, pw : 1 .. MaxPassword]
           /\ user[u].pw <= MaxPassword
           /\ NoUser \in UserRows
<1>1. 1 \in 1 .. MaxPassword /\ 0 <= MaxPassword
  BY ConstantsAssumption
<1>2. user[u] \in UserRows
  BY DEF Bounds
<1>3. user[u] # NoUser => user[u].pw \in 1 .. MaxPassword
  BY <1>2 DEF UserRows
<1> QED BY <1>1, <1>2, <1>3, ConstantsAssumption DEF UserRows, Row, NoUser

LEMMA IdleIsBounded == Idle.seen = NoUser /\ Idle.pc = "done" /\ NoUser \in UserRows
BY DEF Idle, UserRows

\* A request goes on over tables that it leaves alone.
LEMMA TablesAreBounded ==
    ASSUME Inv, Bounds
    PROVE  /\ UNCHANGED user => \A u \in Users : user'[u] \in UserRows
           /\ UNCHANGED session => \A s \in Sessions : session'[s].pw <= MaxPassword
           /\ UNCHANGED handled => handled' <= MaxRequests
BY DEF Bounds

LEMMA ArriveIsBounded ==
    ASSUME Inv, Bounds, NEW q \in Requests, Arrive(q)
    PROVE  Bounds'
<1>1. CASE logout(q)
  <2>1. PICK s \in Sessions : session' = [session EXCEPT ![s].live = FALSE]
    BY <1>1 DEF logout
  <2>2. \A k \in Sessions : session'[k].pw = session[k].pw
    BY <2>1, Facts, Zenon DEF SessionRows
  <2>3. handled' <= MaxRequests
    BY <1>1, ConstantsAssumption DEF logout, Inv, Types
  <2> QED BY <1>1, <2>2, <2>3 DEF Bounds, logout
<1>2. CASE ~logout(q)
  <2>1. UNCHANGED <<user, session>>
    BY <1>2, ArriveIs
  <2>2. PICK y \in RequestRecords : Begin(q, y) /\ Arrives(y)
    BY <1>2, ArriveIs
  <2>3. y.seen \in UserRows
    BY <2>2, IdleIsBounded DEF Arrives, Bounds
  <2>4. handled' <= MaxRequests /\ req' = [req EXCEPT ![q] = y]
    BY <2>2, ConstantsAssumption DEF Begin, Inv, Types
  <2> QED BY <2>1, <2>2, <2>3, <2>4, BoundsStep, TablesAreBounded DEF Arrives
<1> QED BY <1>1, <1>2

\* A session that is inserted is as new as a user's password.
LEMMA InsertedIsBounded ==
    ASSUME Inv, Bounds, NEW u, NEW pw, pw <= MaxPassword, session' = WithSession(u, pw)
    PROVE  \A s \in Sessions : session'[s].pw <= MaxPassword
<1>1. PICK k : session' = [session EXCEPT ![k] = [user |-> u, live |-> TRUE, pw |-> pw]]
  BY DEF WithSession
<1>2. \A s \in Sessions : session'[s] = session[s] \/ session'[s].pw = pw
  BY <1>1, Facts DEF Inv, Types
<1> QED BY <1>2 DEF Bounds

\* What a request remembers as it goes on.
GoesOn(x, y) ==
    y.user = x.user /\ y.seen = x.seen /\ y.role = x.role /\ y.status = x.status

\* A request that goes on is answered, or goes to a step of its own; it saves
\* after it has locked the active administrators, writes what it has given, and
\* has read the throttle when it records a failure.
Continues(q, y) ==
    /\ req' = [req EXCEPT ![q] = y] /\ GoesOn(req[q], y)
    /\ y.pc \in {"count", "insert", "mark", "record", "session", "save", "revoke", "done"}
    /\ y.pc = "record" => y.user \in Users /\ y.throttle = throttle[y.user]
    /\ y.pc = "save" => locked_active_admin_count(q) /\ y.locks = ActiveAdmins
                        /\ ~(Cardinality(ActiveAdmins) <= 1)
LEMMA ProceedIs ==
    ASSUME Inv, NEW q \in Requests, Proceed(q) \/ Interrupt(q)
    PROVE  Answer(q) \/ \E y \in RequestRecords : Continues(q, y)
<1>1. req[q] \in RequestRecords /\ req \in [Requests -> RequestRecords]
  BY Facts
<1>3. ASSUME NEW pc \in {"insert", "session"}, Goto(q, pc) PROVE \E y \in RequestRecords : Continues(q, y)
  <2>1. PICK y : y = [req[q] EXCEPT !.pc = pc]
    OBVIOUS
  <2>2. y \in RequestRecords /\ y.pc = pc /\ GoesOn(req[q], y)
    BY <1>1, <2>1, ZenonT(40) DEF RequestRecords, Pcs, GoesOn
  <2>3. req' = [req EXCEPT ![q] = y]
    BY <1>1, <1>3, <2>1 DEF Goto
  <2> QED BY <2>2, <2>3 DEF Continues
<1>4. ASSUME NEW pc \in {"done", "mark", "revoke"}, CommitTo(q, pc)
      PROVE  \E y \in RequestRecords : Continues(q, y)
  <2>1. PICK y : y = [req[q] EXCEPT !.pc = pc, !.locks = {}]
    OBVIOUS
  <2>2. y \in RequestRecords /\ y.pc = pc /\ GoesOn(req[q], y)
    BY <1>1, <2>1, ZenonT(40) DEF RequestRecords, Pcs, GoesOn
  <2>3. req' = [req EXCEPT ![q] = y]
    BY <1>1, <1>4, <2>1 DEF CommitTo, RequestRecords
  <2> QED BY <2>2, <2>3 DEF Continues
<1>5. CASE bootstrap_lock(q) /\ ~Answer(q)
  <2>1. PICK y : y = [req[q] EXCEPT !.pc = "count", !.locks = {SetupRow}]
    OBVIOUS
  <2>2. y \in RequestRecords /\ y.pc = "count" /\ GoesOn(req[q], y)
    BY <1>1, <2>1, ZenonT(40) DEF RequestRecords, Pcs, GoesOn
  <2>3. req' = [req EXCEPT ![q] = y]
    BY <1>1, <1>5, <2>1 DEF bootstrap_lock, Refuse, RequestRecords
  <2> QED BY <2>2, <2>3 DEF Continues
<1>6. CASE locked_active_admin_count(q) /\ ~Answer(q)
  <2>1. PICK y : y = [req[q] EXCEPT !.pc = "save", !.locks = ActiveAdmins]
    OBVIOUS
  <2>2. y \in RequestRecords /\ y.pc = "save" /\ y.locks = ActiveAdmins /\ GoesOn(req[q], y)
    BY <1>1, <2>1, ZenonT(40) DEF RequestRecords, Pcs, GoesOn, ActiveAdmins
  <2>3. req' = [req EXCEPT ![q] = y] /\ ~(Cardinality(ActiveAdmins) <= 1)
    BY <1>1, <1>6, <2>1 DEF locked_active_admin_count, Refuse, RequestRecords
  <2> QED BY <1>6, <2>2, <2>3 DEF Continues
<1>7. CASE set_password(q)
  <2>1. PICK pw \in Nat : pw = user[req[q].user].pw + 1
    BY <1>7, Facts DEF set_password, Sound
  <2>2. PICK y : y = [req[q] EXCEPT !.pc = "revoke", !.pw = pw]
    OBVIOUS
  <2>3. y \in RequestRecords /\ y.pc = "revoke" /\ GoesOn(req[q], y)
    BY <1>1, <2>2, ZenonT(40) DEF RequestRecords, Pcs, GoesOn
  <2>4. req' = [req EXCEPT ![q] = y]
    BY <1>1, <1>7, <2>1, <2>2 DEF set_password, RequestRecords
  <2> QED BY <2>3, <2>4 DEF Continues
<1>2. CASE read_login_failure(q)
  <2>1. PICK t \in ThrottleRows : t = throttle[req[q].user] /\ req[q].user \in Users
    BY <1>2, Facts DEF read_login_failure, Sound
  <2>2. PICK y : y = [req[q] EXCEPT !.pc = "record", !.throttle = t]
    OBVIOUS
  <2>3. y \in RequestRecords /\ y.pc = "record" /\ y.throttle = t /\ GoesOn(req[q], y)
    BY <1>1, <2>2, ZenonT(40) DEF RequestRecords, Pcs, GoesOn
  <2>4. req' = [req EXCEPT ![q] = y]
    BY <1>1, <1>2, <2>1, <2>2 DEF read_login_failure, RequestRecords
  <2> QED BY <2>1, <2>3, <2>4 DEF Continues, GoesOn
<1>8. CASE bootstrap_count(q) \/ clear_login_failures(q)
  BY <1>3, <1>8 DEF bootstrap_count, clear_login_failures, Refuse
<1>9. CASE create_user(q) \/ save_user(q) \/ revoke_user_sessions(q)
  BY <1>4, <1>9, Zenon DEF create_user, save_user, revoke_user_sessions, Refuse
<1>10. CASE bootstrap_admin(q) \/ mark_bootstrap_completed(q) \/ record_login_failure(q)
            \/ create_login_session(q) \/ Interrupt(q)
  BY <1>10 DEF bootstrap_admin, mark_bootstrap_completed, record_login_failure, create_login_session,
     Interrupt, Refuse
<1> QED BY <1>2, <1>5, <1>6, <1>7, <1>8, <1>9, <1>10 DEF Proceed

LEMMA ProceedIsBounded ==
    ASSUME Inv, Bounds, NEW q \in Requests, Proceed(q) \/ Interrupt(q)
    PROVE  Bounds'
<1>1. UNCHANGED handled
  BY Zenon DEF Proceed, Interrupt, bootstrap_lock, bootstrap_count, bootstrap_admin, create_user,
     mark_bootstrap_completed, read_login_failure, record_login_failure, clear_login_failures,
     create_login_session,
     locked_active_admin_count, save_user, set_password, revoke_user_sessions
<1>2. PICK y : req' = [req EXCEPT ![q] = y] /\ y.seen \in UserRows /\ y.pc # "create"
  <2>1. CASE Answer(q)
    BY <2>1, IdleIsBounded DEF Answer
  <2>2. CASE \E y \in RequestRecords : Continues(q, y)
    BY <2>2 DEF Continues, GoesOn, Bounds
  <2> QED BY <2>1, <2>2, ProceedIs
<1>3. \A u \in Users : user'[u] \in UserRows
  <2>1. CASE UNCHANGED user
    BY <2>1, TablesAreBounded
  <2>2. CASE bootstrap_admin(q)
    BY <2>2, WrittenRows, Facts DEF bootstrap_admin, Roles, Bounds
  <2>3. CASE create_user(q)
    BY <2>3, WrittenRows, Facts DEF create_user, Bounds
  <2>4. CASE save_user(q)
    <3>1. PICK u \in Users : u = req[q].user /\ user[u].pw > 0
      BY <2>4, Facts DEF save_user, Sound
    <3>2. /\ user[u] \in [role : Roles, status : {"active", "disabled"}, pw : 1 .. MaxPassword]
          /\ req[q].role \in {"none"} \cup Roles /\ req[q].status \in {"none", "active", "disabled"}
      BY <3>1, WrittenRows, Facts DEF NoUser, RequestRecords
    <3>3. PICK row : /\ row = Updated(user[u], req[q].seen, req[q].role, req[q].status)
                     /\ user' = [user EXCEPT ![u] = row]
      BY <2>4, <3>1, Facts DEF save_user
    <3>4. PICK role \in Roles, status \in {"active", "disabled"} :
             row = [user[u] EXCEPT !.role = role, !.status = status]
      BY <3>2, <3>3 DEF Updated
    <3>5. row \in UserRows
      BY <3>2, <3>4 DEF UserRows
    <3> QED BY <3>3, <3>5, Facts DEF Bounds
  <2>5. CASE set_password(q)
    <3>1. PICK u \in Users : u = req[q].user /\ user[u].pw > 0
      BY <2>5, Facts DEF set_password, Sound
    <3>2. /\ user[u] \in [role : Roles, status : {"active", "disabled"}, pw : 1 .. MaxPassword]
          /\ user[u].pw < MaxPassword
      BY <2>5, <3>1, WrittenRows, Facts DEF NoUser, set_password
    <3>3. PICK pw : pw = user[u].pw + 1
      OBVIOUS
    <3>4. pw \in 1 .. MaxPassword
      BY <3>2, <3>3, ConstantsAssumption
    <3>5. PICK row : row = [user[u] EXCEPT !.pw = pw] /\ user' = [user EXCEPT ![u] = row]
      BY <2>5, <3>1, <3>3, Facts DEF set_password
    <3>6. row \in UserRows
      BY <3>2, <3>4, <3>5 DEF UserRows
    <3> QED BY <3>5, <3>6, Facts DEF Bounds
  <2>6. \/ UNCHANGED user
        \/ bootstrap_admin(q) \/ create_user(q) \/ save_user(q) \/ set_password(q)
    BY Zenon DEF Proceed, Interrupt, bootstrap_lock, bootstrap_count, mark_bootstrap_completed,
       read_login_failure, record_login_failure, clear_login_failures, create_login_session,
       locked_active_admin_count,
       revoke_user_sessions
  <2> QED BY <2>1, <2>2, <2>3, <2>4, <2>5, <2>6
<1>4. \A s \in Sessions : session'[s].pw <= MaxPassword
  <2>1. CASE UNCHANGED session
    BY <2>1, TablesAreBounded
  <2>2. CASE bootstrap_admin(q) /\ session' # session
    BY <2>2, InsertedIsBounded, ConstantsAssumption DEF bootstrap_admin
  <2>3. CASE create_login_session(q)
    <3>1. user[req[q].user].pw <= MaxPassword
      BY <2>3, Facts, WrittenRows DEF create_login_session, Sound
    <3> QED BY <2>3, <3>1, InsertedIsBounded DEF create_login_session
  <2>4. CASE revoke_user_sessions(q)
    <3>1. ASSUME NEW s \in Sessions PROVE session'[s].pw = session[s].pw
      <4>1. session[s] \in SessionRows
        BY Facts
      <4>2. [session[s] EXCEPT !.live = FALSE].pw = session[s].pw
        BY <4>1 DEF SessionRows
      <4> QED BY <2>4, <4>2 DEF revoke_user_sessions
    <3> QED BY <3>1 DEF Bounds
  <2>5. \/ UNCHANGED session
        \/ bootstrap_admin(q) \/ create_login_session(q) \/ revoke_user_sessions(q)
    BY Zenon DEF Proceed, Interrupt, bootstrap_lock, bootstrap_count, mark_bootstrap_completed,
       read_login_failure, record_login_failure, clear_login_failures,
       locked_active_admin_count, create_user,
       save_user, set_password
  <2> QED BY <2>1, <2>2, <2>3, <2>4, <2>5
<1> QED BY <1>1, <1>2, <1>3, <1>4, BoundsStep, TablesAreBounded

LEMMA BoundsHold == Spec => []Bounds
<1>1. Init => Bounds
  BY IdleIsBounded, ConstantsAssumption DEF Init, Bounds, NoSession
<1>2. Inv /\ Bounds /\ [Next]_vars => Bounds'
  <2> SUFFICES ASSUME Inv, Bounds, [Next]_vars PROVE Bounds'
    OBVIOUS
  <2>1. ASSUME NEW u \in Users, WindowEnds(u) PROVE Bounds'
    BY <2>1 DEF WindowEnds, Bounds
  <2>2. ASSUME NEW u \in Users, BlockEnds(u) PROVE Bounds'
    BY <2>2 DEF BlockEnds, Bounds
  <2>3. CASE UNCHANGED vars
    BY <2>3 DEF vars, Bounds
  <2> QED BY <2>1, <2>2, <2>3, ArriveIsBounded, ProceedIsBounded DEF Next
<1> QED BY <1>1, <1>2, InvHolds, PTL DEF Spec

\* Users have a role, a status and a password once they exist, whatever is left
\* out of an update; sessions and requests name rows that are there.
THEOREM TypeCorrect == Spec => []TypeOK
<1>1. Inv /\ Bounds => TypeOK
  BY BoundsGiveTypes
<1> QED BY <1>1, InvHolds, BoundsHold, PTL

-----------------------------------------------------------------------------
(* The throttle *)

\* Neither the counter nor what a login has read of it and is about to write is
\* ahead of the failures that were recorded.
Counted ==
    /\ failures \in [Users -> Nat]
    /\ \A u \in Users : throttle[u].count <= failures[u]
    /\ \A q \in Requests :
          req[q].pc = "record" => req[q].throttle.count <= failures[req[q].user]

\* A row blocks from now on.
Blocks(u) == throttle[u].block # "on" /\ throttle'[u].block = "on"

\* A request that goes on records no failure, or has read the row.
LEMMA SameCounters ==
    ASSUME Inv, Counted, NEW q \in Requests, NEW y \in RequestRecords,
           req' = [req EXCEPT ![q] = y], UNCHANGED <<throttle, failures>>,
           y.pc = "record" => y.user \in Users /\ y.throttle = throttle[y.user]
    PROVE  Counted'
<1>1. \A p \in Requests : req'[p] = IF p = q THEN y ELSE req[p]
  BY Facts
<1> QED BY <1>1 DEF Counted

LEMMA ArriveIsCounted ==
    ASSUME Inv, Counted, NEW q \in Requests, Arrive(q)
    PROVE  Counted' /\ UNCHANGED throttle
<1>1. CASE logout(q)
  BY <1>1 DEF logout, Counted
<1>2. CASE ~logout(q)
  <2>1. PICK y \in RequestRecords : Begin(q, y) /\ Arrives(y)
    BY <1>2, ArriveIs
  <2>2. UNCHANGED <<throttle, failures>>
    BY <1>2, ArriveIs
  <2> QED BY <2>1, <2>2, SameCounters DEF Arrives, Begin
<1> QED BY <1>1, <1>2

\* What a failure makes of the row and the number of failures, n, of which those
\* before are forgotten (alone) when the counter begins anew.
LEMMA CountedFailureIs ==
    ASSUME NEW row \in ThrottleRows, NEW t \in ThrottleRows, NEW n \in Nat, NEW m \in Nat,
           NEW alone \in BOOLEAN, row.count <= n, t.count <= n,
           m = IF CountedFailure(row, t).count = 1 /\ alone THEN 1 ELSE n + 1
    PROVE  LET new == CountedFailure(row, t) IN
           /\ new.count <= m
           /\ row.block # "on" /\ new.block = "on" => m >= MaxFailures
<1> DEFINE count == IF t.over THEN 1 ELSE t.count + 1
           new == CountedFailure(row, t)
<1>1. /\ row.count \in Nat /\ t.count \in Nat /\ t.over \in BOOLEAN /\ MaxFailures \in Nat
  BY ConstantsAssumption DEF ThrottleRows
<1>2. /\ new.count = IF count = t.count THEN row.count ELSE count
      /\ row.block # "on" /\ new.block = "on" => count >= MaxFailures
  BY Zenon DEF CountedFailure
<1>3. count \in Nat /\ count <= n + 1 /\ (count = t.count => count = 1)
  BY <1>1
<1>4. m = IF new.count = 1 /\ alone THEN 1 ELSE n + 1
  OBVIOUS
<1>5. new.count <= m /\ count <= m
  <2>1. new.count \in Nat /\ new.count <= n + 1
    BY <1>1, <1>2, <1>3
  <2> HIDE DEF count, new
  <2>2. CASE new.count = 1 /\ alone
    BY <1>1, <1>2, <1>3, <1>4, <2>1, <2>2
  <2>3. CASE ~(new.count = 1 /\ alone)
    BY <1>3, <1>4, <2>1, <2>3
  <2> QED BY <2>2, <2>3
<1> HIDE DEF count
<1>6. row.block # "on" /\ new.block = "on" => m >= MaxFailures
  BY <1>1, <1>2, <1>3, <1>5
<1> QED BY <1>5, <1>6

\* The failures change for one user, others' counts at most as far as allowed.
LEMMA FailuresChange ==
    ASSUME Inv, Counted, NEW q \in Requests, NEW u \in Users, u = req[q].user,
           NEW new \in ThrottleRows, NEW m \in Nat, new.count <= m,
           m >= failures[u] \/ Quiet(q),
           throttle' = [throttle EXCEPT ![u] = new], failures' = [failures EXCEPT ![u] = m],
           req'[q].pc # "record",
           \A p \in Requests : p # q => req'[p] = req[p]
    PROVE  Counted'
<1>1. /\ \A v \in Users : throttle'[v] = IF v = u THEN new ELSE throttle[v]
      /\ failures' \in [Users -> Nat] /\ failures \in [Users -> Nat]
      /\ \A v \in Users : failures'[v] = IF v = u THEN m ELSE failures[v]
  BY Facts DEF Counted
<1>2. \A v \in Users : throttle'[v].count <= failures'[v]
  BY <1>1 DEF Counted
<1>3. ASSUME NEW p \in Requests, req'[p].pc = "record"
      PROVE  req'[p].throttle.count <= failures'[req'[p].user]
  <2>1. p # q /\ req'[p] = req[p]
    BY <1>3
  <2>2. /\ req[p].user \in Users /\ req[p].throttle.count \in Nat
        /\ req[p].throttle.count <= failures[req[p].user]
    BY <1>3, <2>1, Facts DEF Counted, Sound, RequestRecords, ThrottleRows
  <2>3. CASE req[p].user # u \/ m >= failures[u]
    BY <1>1, <2>1, <2>2, <2>3
  <2>4. CASE req[p].user = u /\ Quiet(q)
    <3>1. req[p].throttle = NoThrottle
      BY <1>3, <2>1, <2>4 DEF Quiet
    <3> QED BY <1>1, <2>1, <2>4, <3>1 DEF NoThrottle
  <2> QED BY <2>3, <2>4
<1> QED BY <1>1, <1>2, <1>3 DEF Counted

\* A failure is recorded on what was read, which may be outdated.
LEMMA FailureIsCounted ==
    ASSUME Inv, Counted, NEW q \in Requests, record_login_failure(q)
    PROVE  Counted' /\ \A u \in Users : Blocks(u) => failures'[u] >= MaxFailures
<1>1. PICK u \in Users : u = req[q].user /\ req[q].pc = "record"
  BY Facts DEF record_login_failure, Sound
<1>2. PICK t \in ThrottleRows : t = req[q].throttle
  BY Facts DEF RequestRecords
<1>3. PICK counts \in BOOLEAN : counts = ((t = NoThrottle) = (throttle[u] = NoThrottle))
  OBVIOUS
<1>4. PICK new : new = CountedFailure(throttle[u], t)
  OBVIOUS
<1>5. PICK m : m = IF new.count = 1 /\ Quiet(q) THEN 1 ELSE failures[u] + 1
  OBVIOUS
<1>6. /\ throttle' = IF counts THEN [throttle EXCEPT ![u] = new] ELSE throttle
      /\ failures' = IF ~counts THEN failures ELSE [failures EXCEPT ![u] = m]
      /\ Answer(q)
  BY <1>1, <1>2, <1>3, <1>4, <1>5 DEF record_login_failure, Refuse
<1>7. throttle \in [Users -> ThrottleRows] /\ failures \in [Users -> Nat]
  BY Facts DEF Counted
<1>8. \A p \in Requests : req'[p] = IF p = q THEN Idle ELSE req[p]
  BY <1>6, Facts DEF Answer
<1>9. CASE ~counts
  BY <1>6, <1>8, <1>9, IdleIsSound DEF Counted, Blocks
<1>10. CASE counts
  <2>1. m \in Nat /\ (m >= failures[u] \/ Quiet(q)) /\ Quiet(q) \in BOOLEAN
    BY <1>5, <1>7 DEF Quiet
  <2>2. throttle[u].count <= failures[u] /\ t.count <= failures[u]
    BY <1>1, <1>2 DEF Counted
  <2>3. /\ new.count <= m
        /\ throttle[u].block # "on" /\ new.block = "on" => m >= MaxFailures
    BY <1>4, <1>5, <1>7, <2>1, <2>2, CountedFailureIs
  <2>4. new \in ThrottleRows
    BY <1>4, <1>7 DEF CountedFailure, ThrottleRows
  <2>5. throttle' = [throttle EXCEPT ![u] = new] /\ failures' = [failures EXCEPT ![u] = m]
    BY <1>6, <1>10
  <2>6. Counted'
    BY <1>1, <1>8, <2>1, <2>3, <2>4, <2>5, IdleIsSound, FailuresChange
  <2>7. \A v \in Users : Blocks(v) => failures'[v] >= MaxFailures
    BY <1>7, <2>3, <2>5 DEF Blocks
  <2> QED BY <2>6, <2>7
<1> QED BY <1>9, <1>10

\* A success deletes the row, and the failures count from none when no other
\* login has read it.
LEMMA ClearIsCounted ==
    ASSUME Inv, Counted, NEW q \in Requests, clear_login_failures(q)
    PROVE  Counted' /\ \A u \in Users : ~Blocks(u)
<1>1. PICK u \in Users : u = req[q].user
  BY Facts DEF clear_login_failures, Sound
<1>2. PICK m : m = IF Quiet(q) THEN 0 ELSE failures[u]
  OBVIOUS
<1>3. /\ throttle' = [throttle EXCEPT ![u] = NoThrottle]
      /\ failures' = [failures EXCEPT ![u] = m]
      /\ Goto(q, "session")
  BY <1>1, <1>2 DEF clear_login_failures
<1>4. throttle \in [Users -> ThrottleRows] /\ failures \in [Users -> Nat]
  BY Facts DEF Counted
<1>5. m \in Nat /\ (m >= failures[u] \/ Quiet(q))
  BY <1>2, <1>4
<1>6. NoThrottle \in ThrottleRows /\ NoThrottle.count = 0 /\ NoThrottle.block = "none"
  BY DEF NoThrottle, ThrottleRows
<1>7. NoThrottle.count <= m
  BY <1>5, <1>6
<1>8. req'[q].pc # "record" /\ \A p \in Requests : p # q => req'[p] = req[p]
  BY <1>3, Facts DEF Goto, RequestRecords
<1>9. Counted'
  BY <1>1, <1>3, <1>5, <1>6, <1>7, <1>8, FailuresChange
<1>10. \A v \in Users : throttle'[v] \in {throttle[v], NoThrottle}
  BY <1>3, <1>4
<1> QED BY <1>6, <1>9, <1>10 DEF Blocks

\* Time changes no counter.
LEMMA WindowIsCounted ==
    ASSUME Inv, Counted, NEW u \in Users, WindowEnds(u)
    PROVE  Counted' /\ \A v \in Users : ~Blocks(v)
<1>1. \A v \in Users : throttle'[v].count = throttle[v].count /\ throttle'[v].block = throttle[v].block
  BY Facts DEF WindowEnds, ThrottleRows
<1> QED BY <1>1 DEF Counted, Blocks, WindowEnds

LEMMA BlockIsCounted ==
    ASSUME Inv, Counted, NEW u \in Users, BlockEnds(u)
    PROVE  Counted' /\ \A v \in Users : ~Blocks(v)
<1>1. \A v \in Users : throttle'[v].count = throttle[v].count
                       /\ throttle'[v].block \in {throttle[v].block, "past"}
  BY Facts DEF BlockEnds, ThrottleRows
<1> QED BY <1>1 DEF Counted, Blocks, BlockEnds

LEMMA StepIsCounted ==
    ASSUME Inv, Counted, [Next]_vars
    PROVE  Counted' /\ \A u \in Users : Blocks(u) => failures'[u] >= MaxFailures
<1>1. ASSUME NEW q \in Requests, Proceed(q) \/ Interrupt(q)
      PROVE  Counted' /\ \A u \in Users : Blocks(u) => failures'[u] >= MaxFailures
  <2>1. CASE UNCHANGED <<throttle, failures>>
    <3>1. PICK y \in RequestRecords : /\ req' = [req EXCEPT ![q] = y]
                                      /\ y.pc = "record" => /\ y.user \in Users
                                                            /\ y.throttle = throttle[y.user]
      BY <1>1, IdleIsSound, ProceedIs DEF Answer, Continues
    <3> QED BY <2>1, <3>1, SameCounters DEF Blocks
  <2>2. \/ UNCHANGED <<throttle, failures>>
        \/ record_login_failure(q) \/ clear_login_failures(q)
    BY <1>1, Zenon DEF Proceed, Interrupt, bootstrap_lock, bootstrap_count, bootstrap_admin, create_user,
       mark_bootstrap_completed, read_login_failure, create_login_session, locked_active_admin_count, save_user,
       set_password, revoke_user_sessions
  <2> QED BY <2>1, <2>2, FailureIsCounted, ClearIsCounted
<1>2. CASE UNCHANGED vars
  BY <1>2 DEF vars, Counted, Blocks
<1> QED BY <1>1, <1>2, ArriveIsCounted, WindowIsCounted, BlockIsCounted DEF Next, Blocks

-----------------------------------------------------------------------------
(* The last administrator *)

\* A request that is about to remove an active administrator, as far as it knows,
\* has locked them all, and two at least.
AdminsAreHeld ==
    \A q \in Requests :
        /\ req[q].pc = "save"
        /\ RemovesActiveAdmin(req[q].seen, req[q].role, req[q].status)
        => /\ req[q].locks \subseteq ActiveAdmins
           /\ \E v, w \in req[q].locks : v # w

LEMMA MoreThanOne ==
    ASSUME NEW S, ~(Cardinality(S) <= 1)
    PROVE  \E v, w \in S : v # w
<1>1. CASE S = {}
  BY <1>1, FS_EmptySet
<1>2. CASE \E v \in S : S = {v}
  <2>1. PICK v : S = {v}
    BY <1>2
  <2>2. Cardinality({v}) = 1
    BY FS_Singleton
  <2>3. 1 <= 1
    OBVIOUS
  <2> QED BY <2>1, <2>2, <2>3
<1> QED BY <1>1, <1>2

\* What saving the user of q makes of its row, and of no other one.
LEMMA SavedRow ==
    ASSUME Inv, NEW q \in Requests, save_user(q)
    PROVE  /\ req[q].user \in Users
           /\ \A u \in Users : u # req[q].user => user'[u] = user[u]
           /\ LET x == req[q]
                  row == user[x.user]
              IN  /\ user'[x.user].role = IF x.role \in {"none", x.seen.role} THEN row.role ELSE x.role
                  /\ user'[x.user].status = IF x.status \in {"none", x.seen.status} THEN row.status
                                                                                   ELSE x.status
<1>1. PICK u \in Users : u = req[q].user
  BY Facts DEF save_user, Sound
<1>2. PICK row : row = Updated(user[u], req[q].seen, req[q].role, req[q].status)
  OBVIOUS
<1>3. user' = [user EXCEPT ![u] = row] /\ user[u] \in Rows /\ user \in [Users -> Rows]
  BY <1>1, <1>2, Facts DEF save_user
<1>4. /\ row.role = IF req[q].role \in {"none", req[q].seen.role} THEN user[u].role ELSE req[q].role
      /\ row.status = IF req[q].status \in {"none", req[q].seen.status} THEN user[u].status ELSE req[q].status
  BY <1>2, <1>3 DEF Updated, Rows
<1> QED BY <1>1, <1>3, <1>4

\* An active administrator is lost by a request that saves it only, and if it is
\* the one the request has read, the request knows what it removes.
LEMMA AdminIsLost ==
    ASSUME Inv, NEW q \in Requests, Arrive(q) \/ Proceed(q) \/ Interrupt(q),
           NEW u \in ActiveAdmins, u \notin ActiveAdmins'
    PROVE  /\ save_user(q) /\ u = req[q].user
           /\ <<req[q].seen.role, req[q].seen.status>> = <<user[u].role, user[u].status>>
              => RemovesActiveAdmin(req[q].seen, req[q].role, req[q].status)
<1>1. user \in [Users -> Rows] /\ u \in Users /\ user[u] # NoUser
      /\ user[u].role = "admin" /\ user[u].status = "active"
  BY Facts DEF ActiveAdmins, NoUser
<1>2. ~(user'[u].role = "admin" /\ user'[u].status = "active")
  BY <1>1 DEF ActiveAdmins
<1>3. CASE bootstrap_admin(q) \/ create_user(q)
  BY <1>1, <1>2, <1>3 DEF bootstrap_admin, create_user
<1>4. CASE set_password(q)
  <2>1. PICK v \in Users : v = req[q].user
    BY <1>4, Facts DEF set_password, Sound
  <2>2. PICK pw : user' = [user EXCEPT ![v] = [user[v] EXCEPT !.pw = pw]]
    BY <1>1, <1>4, <2>1 DEF set_password
  <2>3. [user[v] EXCEPT !.pw = pw].role = user[v].role /\ [user[v] EXCEPT !.pw = pw].status = user[v].status
    BY <1>1 DEF Rows
  <2> QED BY <1>1, <1>2, <2>2, <2>3
<1>5. CASE save_user(q)
  BY <1>1, <1>2, <1>5, SavedRow, Facts DEF RemovesActiveAdmin, RequestRecords, Roles
<1>6. \/ UNCHANGED user
      \/ bootstrap_admin(q) \/ create_user(q) \/ save_user(q) \/ set_password(q)
  <2>1. CASE Arrive(q)
    BY <2>1, ArriveIs DEF logout
  <2> QED
    BY <2>1, Zenon DEF Proceed, Interrupt, bootstrap_lock, bootstrap_count, mark_bootstrap_completed,
       read_login_failure, record_login_failure, clear_login_failures, create_login_session,
       locked_active_admin_count,
       revoke_user_sessions
<1> QED BY <1>1, <1>2, <1>3, <1>4, <1>5, <1>6

\* While a request holds active administrators, no other one loses them.
LEMMA HeldAreKept ==
    ASSUME Inv, AdminsAreHeld, NEW q \in Requests, Arrive(q) \/ Proceed(q) \/ Interrupt(q),
           NEW p \in Requests, p # q, req[p].locks \subseteq ActiveAdmins
    PROVE  req[p].locks \subseteq ActiveAdmins'
<1> SUFFICES ASSUME NEW u \in req[p].locks, u \notin ActiveAdmins' PROVE FALSE
  OBVIOUS
<1>1. save_user(q) /\ u = req[q].user
  BY AdminIsLost
<1> QED BY <1>1 DEF save_user, Free

LEMMA AdminsStep ==
    ASSUME Inv, AdminsAreHeld, NEW q \in Requests, NEW y \in RequestRecords,
           Arrive(q) \/ Proceed(q) \/ Interrupt(q), req' = [req EXCEPT ![q] = y],
           y.pc = "save" /\ RemovesActiveAdmin(y.seen, y.role, y.status)
           => y.locks \subseteq ActiveAdmins' /\ \E v, w \in y.locks : v # w
    PROVE  AdminsAreHeld'
<1>1. \A p \in Requests : req'[p] = IF p = q THEN y ELSE req[p]
  BY Facts
<1> SUFFICES ASSUME NEW p \in Requests, req'[p].pc = "save",
                    RemovesActiveAdmin(req'[p].seen, req'[p].role, req'[p].status)
             PROVE  req'[p].locks \subseteq ActiveAdmins' /\ \E v, w \in req'[p].locks : v # w
  BY DEF AdminsAreHeld, RemovesActiveAdmin
<1>2. CASE p = q
  BY <1>1, <1>2
<1>3. CASE p # q
  <2>1. req'[p] = req[p]
    BY <1>1, <1>3
  <2>2. req[p].locks \subseteq ActiveAdmins /\ \E v, w \in req[p].locks : v # w
    BY <2>1 DEF AdminsAreHeld
  <2> QED BY <1>3, <2>1, <2>2, HeldAreKept
<1> QED BY <1>2, <1>3

LEMMA AdminsKept ==
    ASSUME Inv, AdminsAreHeld, [Next]_vars
    PROVE  AdminsAreHeld'
<1>1. ASSUME NEW q \in Requests, Arrive(q) PROVE AdminsAreHeld'
  <2>1. CASE logout(q)
    BY <2>1 DEF logout, AdminsAreHeld, ActiveAdmins
  <2>2. CASE ~logout(q)
    <3>1. PICK y \in RequestRecords : Begin(q, y) /\ Arrives(y)
      BY <1>1, <2>2, ArriveIs
    <3> QED BY <1>1, <3>1, AdminsStep DEF Begin, Arrives
  <2> QED BY <2>1, <2>2
<1>2. ASSUME NEW q \in Requests, Proceed(q) \/ Interrupt(q) PROVE AdminsAreHeld'
  <2>1. CASE Answer(q)
    <3>1. Idle \in RequestRecords /\ Idle.pc # "save"
      BY IdleIsSound
    <3> QED BY <1>2, <2>1, <3>1, AdminsStep DEF Answer
  <2>2. CASE \E y \in RequestRecords : Continues(q, y)
    <3>1. PICK y \in RequestRecords : Continues(q, y)
      BY <2>2
    <3>2. y.pc = "save" => y.locks \subseteq ActiveAdmins' /\ \E v, w \in y.locks : v # w
      <4>1. y.pc = "save" => y.locks = ActiveAdmins /\ ~(Cardinality(ActiveAdmins) <= 1) /\ UNCHANGED user
        BY <3>1 DEF Continues, locked_active_admin_count
      <4> QED BY <4>1, MoreThanOne DEF ActiveAdmins
    <3> QED BY <1>2, <3>1, <3>2, AdminsStep DEF Continues
  <2> QED BY <1>2, <2>1, <2>2, ProceedIs
<1>3. ASSUME NEW u \in Users, WindowEnds(u) PROVE AdminsAreHeld'
  BY <1>3 DEF WindowEnds, AdminsAreHeld, ActiveAdmins
<1>4. ASSUME NEW u \in Users, BlockEnds(u) PROVE AdminsAreHeld'
  BY <1>4 DEF BlockEnds, AdminsAreHeld, ActiveAdmins
<1>5. CASE UNCHANGED vars
  BY <1>5 DEF vars, AdminsAreHeld, ActiveAdmins
<1> QED BY <1>1, <1>2, <1>3, <1>4, <1>5 DEF Next

\* The last active administrator is lost to an outdated object only.
LostByOutdated ==
    ActiveAdmins # {} /\ ActiveAdmins' = {} =>
        \E q \in Requests : LET u == req[q].user IN
            /\ req[q].pc = "save" /\ req'[q] # req[q]
            /\ <<req[q].seen.role, req[q].seen.status>> # <<user[u].role, user[u].status>>
LEMMA LastIsGuarded == ASSUME Inv, AdminsAreHeld, [Next]_vars PROVE LostByOutdated
<1> SUFFICES ASSUME NEW u \in ActiveAdmins, ActiveAdmins' = {}
             PROVE  \E q \in Requests :
                       /\ req[q].pc = "save" /\ req'[q] # req[q]
                       /\ <<req[q].seen.role, req[q].seen.status>>
                          # <<user[req[q].user].role, user[req[q].user].status>>
  BY DEF LostByOutdated
<1>1. ~UNCHANGED user
  BY DEF ActiveAdmins
<1>2. PICK q \in Requests : Arrive(q) \/ Proceed(q) \/ Interrupt(q)
  BY <1>1 DEF Next, WindowEnds, BlockEnds, vars
<1>3. /\ save_user(q) /\ u = req[q].user
      /\ <<req[q].seen.role, req[q].seen.status>> = <<user[u].role, user[u].status>>
         => RemovesActiveAdmin(req[q].seen, req[q].role, req[q].status)
  BY <1>2, AdminIsLost
<1>4. req'[q] # req[q]
  <2>1. PICK pc \in {"revoke", "done"} : CommitTo(q, pc)
    BY <1>3 DEF save_user
  <2>2. [req[q] EXCEPT !.pc = pc, !.locks = {}].pc = pc /\ req[q].pc = "save"
    BY <1>3, Facts DEF RequestRecords, save_user
  <2>3. req'[q] = [req[q] EXCEPT !.pc = pc, !.locks = {}]
    BY <2>1, Facts DEF CommitTo, RequestRecords
  <2> QED BY <2>2, <2>3
<1>5. ~RemovesActiveAdmin(req[q].seen, req[q].role, req[q].status)
  <2> SUFFICES ASSUME RemovesActiveAdmin(req[q].seen, req[q].role, req[q].status) PROVE FALSE
    OBVIOUS
  <2>1. PICK v \in ActiveAdmins : v # u
    BY <1>3 DEF AdminsAreHeld, save_user
  <2>2. v = req[q].user
    BY <1>2, AdminIsLost
  <2> QED BY <1>3, <2>1, <2>2
<1> QED BY <1>3, <1>4, <1>5 DEF save_user

\* Neither guard is misled by requests that interleave: a login is blocked only
\* when as many failures were recorded as it takes since the counter began anew
\* with no login between its reading and its write, though each writes what it
\* made of the row it has read; and two requests that remove
\* administrators can not both pass the count, because each holds the rows it
\* has counted until it commits.
THEOREM GuardsAreKept == Spec => GuardsHold
<1> DEFINE Blocked == [\A u \in Users : throttle[u].block # "on" /\ throttle'[u].block = "on"
                                       => failures'[u] >= MaxFailures]_vars
           Lost == [ActiveAdmins # {} /\ ActiveAdmins' = {} =>
                       \E q \in Requests : LET u == req[q].user IN
                           /\ req[q].pc = "save" /\ req'[q] # req[q]
                           /\ <<req[q].seen.role, req[q].seen.status>>
                              # <<user[u].role, user[u].status>>]_vars
<1>1. Init => Counted /\ AdminsAreHeld
  <2>1. Idle.pc = "done" /\ NoThrottle.count = 0
    BY DEF Idle, NoThrottle
  <2> QED BY <2>1 DEF Init, Counted, AdminsAreHeld
<1>2. Inv /\ Counted /\ AdminsAreHeld /\ [Next]_vars => Counted' /\ AdminsAreHeld'
  BY StepIsCounted, AdminsKept
<1>3. Inv /\ Counted /\ AdminsAreHeld /\ [Next]_vars => Blocked /\ Lost
  BY StepIsCounted, LastIsGuarded DEF Blocks, LostByOutdated
<1>4. GuardsHold <=> [][\A u \in Users : throttle[u].block # "on" /\ throttle'[u].block = "on"
                                       => failures'[u] >= MaxFailures]_vars
                  /\ [][ActiveAdmins # {} /\ ActiveAdmins' = {} =>
                       \E q \in Requests : LET u == req[q].user IN
                           /\ req[q].pc = "save" /\ req'[q] # req[q]
                           /\ <<req[q].seen.role, req[q].seen.status>>
                              # <<user[u].role, user[u].status>>]_vars
  BY DEF GuardsHold, BlockedByFailures, LastAdminGuarded
<1> QED BY <1>1, <1>2, <1>3, <1>4, InvHolds, PTL DEF Spec
=============================================================================
