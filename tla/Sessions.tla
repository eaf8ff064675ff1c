------------------------------- MODULE Sessions -------------------------------
(***************************************************************************)
(* Users, their passwords and their sessions: users/routes.ts and          *)
(* service.ts, auth/routes.ts and session.ts. Every request is a chain of  *)
(* database calls; a password is the number of the change that set it.     *)
(*                                                                         *)
(* The database is external: a call takes effect when it is answered, or   *)
(* fails and leaves the rows alone. Hashing takes the time between two     *)
(* calls. The sockets that revocations close are the module LiveSocket.    *)
(***************************************************************************)
EXTENDS Naturals, FiniteSets

CONSTANTS
  Users,       \* rows of the table User, present or not
  Tasks,       \* requests that can be under way at the same time
  MaxTasks,    \* bound: requests sent
  MaxCuts      \* bound: failed calls and restarts of the backend

ASSUME SessionsAssumption ==
  /\ Users # {} /\ MaxTasks \in Nat /\ MaxCuts \in Nat

VARIABLES
  users,      \* role, status and password of every user
  sessions,   \* the kinds of rows in Session: whose, and by which password
  tasks,      \* the requests under way
  begun,      \* requests sent so far
  passwords,  \* passwords set so far
  cuts,       \* failures so far
  raced,      \* history: two requests that change users overlapped
  unrevoked   \* history: users whose sessions were to be deleted and were not

sessionVars == <<users, sessions, tasks, begun, passwords, cuts, raced, unrevoked>>

NoUser == [there |-> FALSE, role |-> "USER", active |-> FALSE, password |-> 0]
NoTask == [op |-> "none", at |-> "none", user |-> CHOOSE u \in Users : TRUE,
           role |-> "same", status |-> "same", password |-> 0, clean |-> TRUE]

ActiveAdmins == {u \in Users : users[u].there /\ users[u].role = "ADMIN" /\ users[u].active}

UserRows == [there : BOOLEAN, role : {"ADMIN", "USER"}, active : BOOLEAN, password : Nat]
SessionRows == [user : Users, password : Nat, clean : BOOLEAN]
TaskStates ==
  [op : {"none", "login", "change", "update", "delete"},
   at : {"none", "find", "create", "target", "count", "store", "revoke", "erase"},
   user : Users, role : {"same", "ADMIN", "USER"}, status : {"same", "ACTIVE", "DISABLED"},
   password : Nat, clean : BOOLEAN]

SessionsTypeOK ==
  /\ users \in [Users -> UserRows]
  /\ sessions \subseteq SessionRows
  /\ tasks \in [Tasks -> TaskStates]
  /\ begun \in 0..MaxTasks /\ passwords \in Nat \ {0} /\ cuts \in 0..MaxCuts
  /\ raced \in BOOLEAN /\ unrevoked \subseteq Users

\* bootstrapAdmin has created the first administrator.
SessionsInit ==
  /\ \E admin \in Users : users = [u \in Users |->
       IF u = admin THEN [there |-> TRUE, role |-> "ADMIN", active |-> TRUE, password |-> 1]
       ELSE NoUser]
  /\ sessions = {}
  /\ tasks = [t \in Tasks |-> NoTask]
  /\ begun = 0 /\ passwords = 1 /\ cuts = 0
  /\ raced = FALSE /\ unrevoked = {}

-----------------------------------------------------------------------------
(***************************************************************************)
(* The steps.                                                              *)
(***************************************************************************)

Active(t) == tasks[t].op # "none"
GoesTo(t, stage) == tasks' = [tasks EXCEPT ![t].at = stage]
Ends(t) == tasks' = [tasks EXCEPT ![t] = NoTask]

\* A login or a change of the user's own password that another request for the
\* same user overlaps has no order with it: what it authenticates by may be old.
Unclean(u) == [t \in Tasks |->
  IF Active(t) /\ tasks[t].user = u THEN [tasks[t] EXCEPT !.clean = FALSE] ELSE tasks[t]]

\* getSession: a session is of use while its row is there and its user active.
Usable(s) == users[s.user].there /\ users[s.user].active

NewTask(op, stage, u, role, status, password) ==
  [op |-> op, at |-> stage, user |-> u, role |-> role, status |-> status, password |-> password,
   clean |-> TRUE]

\* A request about user u begins with its first call.
Begin(t, task) ==
  /\ ~Active(t) /\ begun < MaxTasks
  /\ begun' = begun + 1
  /\ tasks' = [Unclean(task.user) EXCEPT ![t] =
       [task EXCEPT !.clean = \A o \in Tasks : Active(o) => tasks[o].user # task.user]]
  /\ raced' = \/ raced
              \/ /\ task.op \in {"update", "delete"}
                 /\ \E o \in Tasks : tasks[o].op \in {"update", "delete"}

\* POST login; change-password is sent with a session.
BeginLogin(t) ==
  /\ \E u \in {v \in Users : users[v].there} :
       Begin(t, NewTask("login", "find", u, "same", "same", 0))
  /\ UNCHANGED <<users, sessions, passwords, cuts, unrevoked>>

BeginChange(t) ==
  /\ \E s \in sessions :
       Usable(s) /\ Begin(t, NewTask("change", "find", s.user, "same", "same", 0))
  /\ UNCHANGED <<users, sessions, passwords, cuts, unrevoked>>

\* PATCH and DELETE of a user by an administrator. Only what could remove an
\* administrator is preceded by the look at its target; nobody deletes himself.
BeginUpdate(t) ==
  /\ \E s \in sessions, u \in Users, role \in {"same", "ADMIN", "USER"},
        status \in {"same", "ACTIVE", "DISABLED"}, password \in {0, passwords + 1} :
       /\ Usable(s) /\ s.user \in ActiveAdmins /\ users[u].there
       /\ Begin(t, NewTask("update", IF role = "USER" \/ status = "DISABLED" THEN "target"
                                     ELSE "store", u, role, status, password))
       /\ passwords' = IF password = 0 THEN passwords ELSE password
  /\ UNCHANGED <<users, sessions, cuts, unrevoked>>

BeginDelete(t) ==
  /\ \E s \in sessions, u \in Users :
       /\ Usable(s) /\ s.user \in ActiveAdmins /\ users[u].there /\ u # s.user
       /\ Begin(t, NewTask("delete", "target", u, "same", "same", 0))
  /\ UNCHANGED <<users, sessions, passwords, cuts, unrevoked>>

\* POST users: an administrator adds one, in a transaction of its own.
CreateUser ==
  /\ begun < MaxTasks
  /\ \E s \in sessions, u \in Users, role \in {"ADMIN", "USER"} :
       /\ Usable(s) /\ s.user \in ActiveAdmins /\ ~users[u].there
       /\ \A t \in Tasks : Active(t) => tasks[t].user # u   \* ids are not used again
       /\ users' = [users EXCEPT ![u] =
            [there |-> TRUE, role |-> role, active |-> TRUE, password |-> passwords + 1]]
  /\ begun' = begun + 1 /\ passwords' = passwords + 1
  /\ UNCHANGED <<sessions, tasks, cuts, raced, unrevoked>>

\* The user is read and the password compared with the hash. Only a user who
\* knows the password gets further.
Find(t) ==
  /\ tasks[t].at = "find"
  /\ LET user == users[tasks[t].user] IN
       IF ~user.there \/ (tasks[t].op = "login" /\ ~user.active) THEN Ends(t) /\ UNCHANGED passwords
       ELSE IF tasks[t].op = "login"
            THEN /\ tasks' = [tasks EXCEPT ![t].at = "create", ![t].password = user.password]
                 /\ UNCHANGED passwords
            ELSE /\ tasks' = [tasks EXCEPT ![t].at = "store", ![t].password = passwords + 1]
                 /\ passwords' = passwords + 1
  /\ UNCHANGED <<users, sessions, begun, cuts, raced, unrevoked>>

\* createSession. A row for a user who is gone is refused.
CreateSession(t) ==
  /\ tasks[t].at = "create"
  /\ sessions' = IF users[tasks[t].user].there
                 THEN sessions \union {[user |-> tasks[t].user, password |-> tasks[t].password,
                                        clean |-> tasks[t].clean]}
                 ELSE sessions
  /\ Ends(t)
  /\ UNCHANGED <<users, begun, passwords, cuts, raced, unrevoked>>

\* Only the removal of an administrator has the administrators counted.
Target(t) ==
  /\ tasks[t].at = "target"
  /\ GoesTo(t, IF users[tasks[t].user].there /\ users[tasks[t].user].role = "ADMIN" THEN "count"
               ELSE IF tasks[t].op = "delete" THEN "revoke" ELSE "store")
  /\ UNCHANGED <<users, sessions, begun, passwords, cuts, raced, unrevoked>>

\* countAdmins: the last active one is not removed.
CountAdmins(t) ==
  /\ tasks[t].at = "count"
  /\ IF Cardinality(ActiveAdmins) <= 1 THEN Ends(t)
     ELSE GoesTo(t, IF tasks[t].op = "delete" THEN "revoke" ELSE "store")
  /\ UNCHANGED <<users, sessions, begun, passwords, cuts, raced, unrevoked>>

\* Faulty: only a change of role or status ends the user's sessions.
MustLogInAgainButForPassword(t) == tasks[t].status = "DISABLED" \/ tasks[t].role # "same"

\* What forces everyone logged in as the user to log in again.
MustLogInAgain(t) ==
  tasks[t].status = "DISABLED" \/ tasks[t].role # "same" \/ tasks[t].password # 0

\* The row is updated; a user who is gone is not.
Store(t) ==
  /\ tasks[t].at = "store"
  /\ LET task == tasks[t]
         user == users[task.user] IN
       IF ~user.there THEN Ends(t) /\ UNCHANGED users
       ELSE /\ users' = [users EXCEPT ![task.user] =
                 [there |-> TRUE,
                  role |-> IF task.role = "same" THEN user.role ELSE task.role,
                  active |-> IF task.status = "same" THEN user.active ELSE task.status = "ACTIVE",
                  password |-> IF task.password = 0 THEN user.password ELSE task.password]]
            /\ IF MustLogInAgain(t) THEN GoesTo(t, "revoke") ELSE Ends(t)
  /\ UNCHANGED <<sessions, begun, passwords, cuts, raced, unrevoked>>

\* destroyAllUserSessions. A change of the own password then logs in again.
Revoke(t) ==
  /\ tasks[t].at = "revoke"
  /\ sessions' = {s \in sessions : s.user # tasks[t].user}
  /\ CASE tasks[t].op = "update" -> Ends(t)
       [] tasks[t].op = "delete" -> GoesTo(t, "erase")
       [] tasks[t].op = "change" -> GoesTo(t, "create")
  /\ unrevoked' = unrevoked \ {tasks[t].user}
  /\ UNCHANGED <<users, begun, passwords, cuts, raced>>

\* The row is deleted, and with it the sessions that refer to it.
Erase(t) ==
  /\ tasks[t].at = "erase"
  /\ users' = [users EXCEPT ![tasks[t].user] = NoUser]
  /\ sessions' = {s \in sessions : s.user # tasks[t].user}
  /\ Ends(t)
  /\ UNCHANGED <<begun, passwords, cuts, raced, unrevoked>>

\* POST logout, or the session expires.
EndSession ==
  /\ \E s \in sessions : sessions' = sessions \ {s}
  /\ UNCHANGED <<users, tasks, begun, passwords, cuts, raced, unrevoked>>

\* A call fails: the request ends with an error, and what it did stays.
TaskFails(t) ==
  /\ Active(t) /\ cuts < MaxCuts
  /\ cuts' = cuts + 1
  /\ Ends(t)
  /\ unrevoked' = IF tasks[t].at = "revoke" THEN unrevoked \union {tasks[t].user} ELSE unrevoked
  /\ UNCHANGED <<users, sessions, begun, passwords, raced>>

\* A backend that starts deletes every session.
BackendRestarts ==
  /\ cuts < MaxCuts
  /\ cuts' = cuts + 1
  /\ sessions' = {} /\ unrevoked' = {}
  /\ tasks' = [t \in Tasks |-> NoTask]
  /\ UNCHANGED <<users, begun, passwords, raced>>

SessionsNext ==
  \/ \E t \in Tasks :
       \/ BeginLogin(t) \/ BeginChange(t) \/ BeginUpdate(t) \/ BeginDelete(t)
       \/ Find(t) \/ CreateSession(t) \/ Target(t) \/ CountAdmins(t)
       \/ Store(t) \/ Revoke(t) \/ Erase(t) \/ TaskFails(t)
  \/ CreateUser \/ EndSession \/ BackendRestarts

-----------------------------------------------------------------------------
(***************************************************************************)
(* What must hold.                                                         *)
(***************************************************************************)

\* A session that can be used was authenticated by the password its user has,
\* except while the request that changed the password is about to delete the
\* sessions, or after that deletion failed, or if the login overlapped another
\* request for the user. So neither a disabled user who is enabled again nor
\* one whose password was reset finds an old login still valid.
SessionsAreCurrent ==
  \A s \in sessions :
    Usable(s) /\ s.clean /\ s.user \notin unrevoked =>
      \/ s.password = users[s.user].password
      \/ \E t \in Tasks : tasks[t].at = "revoke" /\ tasks[t].user = s.user

\* There is an active administrator, unless two requests that change or delete
\* users overlapped, each of which may have counted the other's target.
AdminRemains == raced \/ ActiveAdmins # {}

\* What administrators decide is in force, and somebody may still decide.
AdminsDecide == SessionsAreCurrent /\ AdminRemains
=============================================================================
