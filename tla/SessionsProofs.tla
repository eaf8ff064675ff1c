--------------------------- MODULE SessionsProofs ---------------------------
(***************************************************************************)
(* Proofs about the users, their sessions and requests (Sessions) and about *)
(* the sockets of a session (LiveSocket), for any number of users, requests, *)
(* jobs and events.                                                        *)
(***************************************************************************)
EXTENDS Sessions, LiveSocket, FiniteSetTheorems, SequenceTheorems, TLAPS

-----------------------------------------------------------------------------
(***************************************************************************)
(* Users and sessions: a request relies on what it read as long as the     *)
(* lock of the users is its own.                                           *)
(***************************************************************************)

\* What a request does, and at which of its calls it can be.
Stage(task) ==
  /\ task.at = "none" <=> task.op = "none"
  /\ task.at \in {"find", "create"} => task.op \in {"login", "change"}
  /\ task.at \in {"target", "count"} => task.op \in {"update", "delete"}
  /\ task.at = "store" => task.op \in {"change", "update"}
  /\ task.at = "revoke" => task.op \in {"change", "update", "delete"}
  /\ task.at = "erase" => task.op = "delete"
  /\ task.op \in {"login", "change"} => task.role = "same" /\ task.status = "same"
  /\ task.op = "change" /\ task.at # "find" => task.password # 0
TaskStages == \A t \in Tasks : Stage(tasks[t])

\* A request overlapped by no other for its user is the only one for him.
CleanIsAlone ==
  \A t, o \in Tasks : Active(t) /\ tasks[t].clean /\ Active(o) /\ tasks[o].user = tasks[t].user
    => o = t

\* Who is about to get a session knows the password, unless others changed it.
MustKnow(task) == task.clean /\ (task.at = "create" \/ (task.at = "revoke" /\ task.op = "change"))
Knows(task) == users[task.user].there => task.password = users[task.user].password
KnowsPassword == \A t \in Tasks : MustKnow(tasks[t]) => Knows(tasks[t])

SessionsBelong == \A s \in sessions : users[s.user].there

Outdated(s) == s.clean /\ s.user \notin unrevoked /\ s.password # users[s.user].password
SessionsFollow ==
  \A s \in sessions : Outdated(s) =>
    \E t \in Tasks : tasks[t].at = "revoke" /\ tasks[t].user = s.user

\* Requests that may take the rights of an administrator, and those that will.
Decides(task) == task.op \in {"update", "delete"}
Removes(task) ==
  \/ task.op = "update" /\ task.at = "store" /\ (task.role = "USER" \/ task.status = "DISABLED")
  \/ task.op = "delete" /\ task.at \in {"revoke", "erase"}

OneDecides == ~raced => \A t, o \in Tasks : Decides(tasks[t]) /\ Decides(tasks[o]) => t = o
OtherAdmin(task) == \E u \in ActiveAdmins : u # task.user
AnotherAdmin == ~raced => \A t \in Tasks : Removes(tasks[t]) => OtherAdmin(tasks[t])

SessionsConsistent ==
  /\ SessionsTypeOK /\ TaskStages /\ CleanIsAlone /\ KnowsPassword /\ SessionsBelong
  /\ SessionsFollow /\ OneDecides /\ AnotherAdmin /\ AdminRemains

\* The invariant is what the runs check and more.
LEMMA ConsistentAdminsDecide == SessionsConsistent => AdminsDecide
<1> SUFFICES ASSUME SessionsConsistent PROVE SessionsAreCurrent /\ AdminRemains
  BY DEF AdminsDecide
<1> QED BY DEF SessionsConsistent, SessionsFollow, Outdated, SessionsAreCurrent

\* An ended request is none.
LEMMA NoTaskFields ==
  /\ NoTask \in TaskStates /\ NoTask.op = "none" /\ NoTask.at = "none"
  /\ Stage(NoTask) /\ ~MustKnow(NoTask) /\ ~Removes(NoTask) /\ ~Decides(NoTask)
<1>1. NoTask \in TaskStates /\ NoTask.op = "none" /\ NoTask.at = "none"
  BY SessionsAssumption DEF NoTask, TaskStates
<1> QED BY <1>1 DEF Stage, MustKnow, Removes, Decides

\* What a request has.
LEMMA TaskFields ==
  ASSUME SessionsConsistent, NEW t \in Tasks
  PROVE  /\ tasks[t] \in TaskStates /\ Stage(tasks[t])
         /\ tasks[t].user \in Users /\ tasks[t].password \in Nat
         /\ users[tasks[t].user] \in UserRows
<1>1. tasks[t] \in TaskStates /\ Stage(tasks[t])
  BY DEF SessionsConsistent, SessionsTypeOK, TaskStages
<1>2. tasks[t].user \in Users /\ tasks[t].password \in Nat
  BY <1>1 DEF TaskStates
<1> QED BY <1>1, <1>2 DEF SessionsConsistent, SessionsTypeOK

\* The first administrator, and no session yet.
LEMMA SessionsInitConsistent == SessionsInit => SessionsConsistent
<1> SUFFICES ASSUME SessionsInit PROVE SessionsConsistent
  OBVIOUS
<1>1. PICK someone \in Users : users = [u \in Users |->
        IF u = someone THEN [there |-> TRUE, role |-> "ADMIN", active |-> TRUE, password |-> 1]
        ELSE NoUser]
  BY DEF SessionsInit
<1>2. /\ NoUser \in UserRows
      /\ [there |-> TRUE, role |-> "ADMIN", active |-> TRUE, password |-> 1] \in UserRows
  BY DEF NoUser, UserRows
<1>3. \A t \in Tasks : tasks[t] = NoTask
  BY DEF SessionsInit
<1>4. SessionsTypeOK
  <2>1. users \in [Users -> UserRows] /\ tasks \in [Tasks -> TaskStates]
    BY <1>1, <1>2, NoTaskFields DEF SessionsInit
  <2>2. /\ sessions = {} /\ begun = 0 /\ passwords = 1 /\ cuts = 0
        /\ raced = FALSE /\ unrevoked = {}
    BY DEF SessionsInit
  <2>3. begun \in 0..MaxTasks /\ passwords \in Nat \ {0} /\ cuts \in 0..MaxCuts
    BY <2>2, SessionsAssumption
  <2>4. sessions \subseteq SessionRows /\ unrevoked \subseteq Users /\ raced \in BOOLEAN
    BY <2>2
  <2> QED BY <2>1, <2>3, <2>4, Zenon DEF SessionsTypeOK
<1>5. TaskStages /\ CleanIsAlone /\ KnowsPassword
  BY <1>3, NoTaskFields DEF TaskStages, CleanIsAlone, KnowsPassword, Active
<1>6. SessionsBelong /\ SessionsFollow
  BY DEF SessionsInit, SessionsBelong, SessionsFollow
<1>7. OneDecides /\ AnotherAdmin
  BY <1>3, NoTaskFields DEF OneDecides, AnotherAdmin
<1>8. someone \in ActiveAdmins
  BY <1>1 DEF ActiveAdmins
<1> QED BY <1>4, <1>5, <1>6, <1>7, <1>8 DEF SessionsConsistent, AdminRemains

SameTask(task, next) ==
  /\ next.op = task.op /\ next.user = task.user /\ next.clean = task.clean
  /\ next.role = task.role /\ next.status = task.status

\* A request that goes on or ends keeps what holds between requests.
LEMMA TaskMoves ==
  ASSUME SessionsConsistent, NEW t \in Tasks, NEW next \in TaskStates, Stage(next), Active(t),
         next = NoTask \/ SameTask(tasks[t], next),
         tasks' = [tasks EXCEPT ![t] = next], raced' = raced
  PROVE  /\ tasks' \in [Tasks -> TaskStates] /\ TaskStages' /\ CleanIsAlone' /\ OneDecides'
         /\ tasks'[t] = next /\ \A o \in Tasks : o # t => tasks'[o] = tasks[o]
<1> USE DEF SessionsConsistent
<1>1. /\ tasks' \in [Tasks -> TaskStates]
      /\ tasks'[t] = next /\ \A o \in Tasks : o # t => tasks'[o] = tasks[o]
  BY DEF SessionsTypeOK
<1>2. TaskStages'
  BY <1>1 DEF TaskStages, Stage
<1>3. \A o \in Tasks : tasks'[o].op # "none" =>
        /\ tasks[o].op = tasks'[o].op /\ tasks[o].user = tasks'[o].user
        /\ tasks[o].clean = tasks'[o].clean
  BY <1>1, NoTaskFields DEF SameTask
<1>4. CleanIsAlone'
  BY <1>3 DEF CleanIsAlone, Active
<1>5. \A o \in Tasks : Decides(tasks'[o]) => Decides(tasks[o])
  BY <1>3 DEF Decides
<1>6. OneDecides'
  BY <1>5 DEF OneDecides, Decides
<1> QED BY <1>1, <1>2, <1>4, <1>6

\* A call that only reads.
LEMMA ReadsOn ==
  ASSUME SessionsConsistent, NEW t \in Tasks, NEW next \in TaskStates, Stage(next), Active(t),
         next = NoTask \/ SameTask(tasks[t], next), tasks[t].at # "revoke",
         MustKnow(next) => Knows(next),
         ~raced /\ Removes(next) => OtherAdmin(next),
         tasks' = [tasks EXCEPT ![t] = next], passwords' \in Nat \ {0},
         UNCHANGED <<users, sessions, begun, cuts, raced, unrevoked>>
  PROVE  SessionsConsistent'
<1> USE DEF SessionsConsistent
<1>1. /\ tasks' \in [Tasks -> TaskStates] /\ TaskStages' /\ CleanIsAlone' /\ OneDecides'
      /\ tasks'[t] = next /\ \A o \in Tasks : o # t => tasks'[o] = tasks[o]
  BY TaskMoves
<1>2. SessionsTypeOK'
  BY <1>1 DEF SessionsTypeOK
<1>3. KnowsPassword'
  BY <1>1 DEF KnowsPassword, MustKnow, Knows
<1>4. SessionsBelong'
  BY DEF SessionsBelong
<1>5. SessionsFollow'
  BY <1>1 DEF SessionsFollow, Outdated
<1>6. AnotherAdmin'
  BY <1>1 DEF AnotherAdmin, Removes, OtherAdmin, ActiveAdmins
<1>7. AdminRemains'
  BY DEF AdminRemains, ActiveAdmins
<1> QED BY <1>1, <1>2, <1>3, <1>4, <1>5, <1>6, <1>7

\* A request that begins makes those for its user unclean, and is clean if it
\* is alone.
LEMMA Begins ==
  ASSUME SessionsConsistent, NEW t \in Tasks, NEW task \in TaskStates, Stage(task),
         task.at \in {"find", "target", "store"}, ~Removes(task), Begin(t, task),
         passwords' \in Nat \ {0}, UNCHANGED <<users, sessions, cuts, unrevoked>>
  PROVE  SessionsConsistent'
<1> USE DEF SessionsConsistent
<1> DEFINE alone == \A o \in Tasks : Active(o) => tasks[o].user # task.user
           mine == [task EXCEPT !.clean = alone]
<1>1. /\ ~Active(t) /\ begun' \in 0..MaxTasks
      /\ tasks' = [Unclean(task.user) EXCEPT ![t] = mine]
      /\ raced' = (raced \/ (task.op \in {"update", "delete"}
                             /\ \E o \in Tasks : tasks[o].op \in {"update", "delete"}))
  <2>1. ~Active(t) /\ begun < MaxTasks /\ begun' = begun + 1
    BY DEF Begin
  <2>2. begun' \in 0..MaxTasks
    BY <2>1, SessionsAssumption DEF SessionsTypeOK
  <2>3. tasks' = [Unclean(task.user) EXCEPT ![t] = mine]
    BY DEF Begin
  <2>4. raced' = (raced \/ (task.op \in {"update", "delete"}
                            /\ \E o \in Tasks : tasks[o].op \in {"update", "delete"}))
    BY Zenon DEF Begin
  <2> QED BY <2>1, <2>2, <2>3, <2>4
<1>2. /\ mine \in TaskStates /\ mine.clean = alone
      /\ mine.op = task.op /\ mine.at = task.at /\ mine.user = task.user
      /\ mine.role = task.role /\ mine.status = task.status /\ mine.password = task.password
  <2>1. PICK b \in BOOLEAN : b = alone
    BY Zenon
  <2> HIDE DEF alone
  <2> QED BY <2>1 DEF TaskStates
<1> HIDE DEF mine
<1>3. \A o \in Tasks : o # t =>
        /\ tasks'[o] = IF Active(o) /\ tasks[o].user = task.user
                       THEN [tasks[o] EXCEPT !.clean = FALSE] ELSE tasks[o]
        /\ tasks[o] \in TaskStates
  BY <1>1 DEF Unclean, SessionsTypeOK
<1>4. tasks'[t] = mine
  BY <1>1 DEF Unclean
<1>5. \A o \in Tasks : o # t =>
        /\ tasks'[o] \in TaskStates
        /\ tasks'[o].op = tasks[o].op /\ tasks'[o].at = tasks[o].at
        /\ tasks'[o].user = tasks[o].user /\ tasks'[o].password = tasks[o].password
        /\ tasks'[o].role = tasks[o].role /\ tasks'[o].status = tasks[o].status
        /\ tasks'[o].clean => tasks[o].clean /\ ~(Active(o) /\ tasks[o].user = task.user)
  <2> TAKE o \in Tasks
  <2> HAVE o # t
  <2>1. CASE Active(o) /\ tasks[o].user = task.user
    <3>1. tasks'[o] = [tasks[o] EXCEPT !.clean = FALSE] /\ tasks[o] \in TaskStates
      BY <1>3, <2>1
    <3> QED BY <3>1 DEF TaskStates
  <2>2. CASE ~(Active(o) /\ tasks[o].user = task.user)
    <3>1. tasks'[o] = tasks[o] /\ tasks[o] \in TaskStates
      BY <1>3, <2>2
    <3> QED BY <2>2, <3>1
  <2> QED BY <2>1, <2>2
<1>6. tasks[t].op = "none" /\ tasks[t].at = "none"
  BY <1>1, TaskFields DEF Active, Stage
<1>7. SessionsTypeOK'
  <2>1. tasks' \in [Tasks -> TaskStates]
    BY <1>1, <1>2, <1>4, <1>5 DEF Unclean
  <2>2. raced' \in BOOLEAN
    BY <1>1, Zenon
  <2> QED BY <1>1, <2>1, <2>2 DEF SessionsTypeOK
<1>8. TaskStages'
  <2> SUFFICES ASSUME NEW o \in Tasks PROVE Stage(tasks'[o])
    BY DEF TaskStages, Stage
  <2>1. Stage(tasks[o])
    BY DEF TaskStages
  <2> QED BY <1>2, <1>4, <1>5, <2>1 DEF Stage
<1>9. CleanIsAlone'
  <2> SUFFICES ASSUME NEW q \in Tasks, NEW o \in Tasks, Active(q)', tasks'[q].clean, Active(o)',
                      tasks'[o].user = tasks'[q].user
               PROVE  o = q
    BY DEF CleanIsAlone
  <2>1. CASE q = t /\ o # t
    BY <1>2, <1>4, <1>5, <2>1 DEF Active
  <2>2. CASE q # t /\ o = t
    BY <1>2, <1>4, <1>5, <2>2 DEF Active
  <2>3. CASE q # t /\ o # t
    BY <1>5, <2>3 DEF Active, CleanIsAlone
  <2> QED BY <2>1, <2>2, <2>3
<1>10. KnowsPassword'
  <2> SUFFICES ASSUME NEW o \in Tasks, MustKnow(tasks'[o]) PROVE Knows(tasks'[o])
    BY DEF KnowsPassword, MustKnow, Knows
  <2>1. o # t
    BY <1>2, <1>4 DEF MustKnow
  <2>2. MustKnow(tasks[o])
    BY <1>5, <2>1 DEF MustKnow
  <2> QED BY <1>5, <2>1, <2>2 DEF KnowsPassword, Knows
<1>11. SessionsBelong' /\ AdminRemains'
  BY <1>1 DEF SessionsBelong, AdminRemains, ActiveAdmins
<1>12. SessionsFollow'
  BY <1>5, <1>6 DEF SessionsFollow, Outdated
<1>13. OneDecides'
  <2> SUFFICES ASSUME ~raced', NEW q \in Tasks, NEW o \in Tasks,
                      Decides(tasks'[q]), Decides(tasks'[o])
               PROVE  q = o
    BY DEF OneDecides, Decides
  <2>1. ~raced /\ ~(Decides(task) /\ \E n \in Tasks : Decides(tasks[n]))
    BY <1>1 DEF Decides
  <2> QED BY <1>2, <1>4, <1>5, <2>1 DEF OneDecides, Decides
<1>14. AnotherAdmin'
  <2> SUFFICES ASSUME ~raced', NEW o \in Tasks, Removes(tasks'[o]) PROVE OtherAdmin(tasks'[o])
    BY DEF AnotherAdmin, Removes, OtherAdmin, ActiveAdmins
  <2>1. ~raced /\ o # t
    BY <1>1, <1>2, <1>4 DEF Removes
  <2>2. Removes(tasks[o])
    BY <1>5, <2>1 DEF Removes
  <2> QED BY <1>5, <2>1, <2>2 DEF AnotherAdmin, OtherAdmin, ActiveAdmins
<1> QED BY <1>7, <1>8, <1>9, <1>10, <1>11, <1>12, <1>13, <1>14

\* What a new request asks for has the types of requests.
LEMMA NewTaskFields ==
  ASSUME NEW op \in {"login", "change", "update", "delete"}, NEW stage \in {"find", "target", "store"},
         NEW u \in Users, NEW role \in {"same", "ADMIN", "USER"},
         NEW status \in {"same", "ACTIVE", "DISABLED"}, NEW password \in Nat
  PROVE  /\ NewTask(op, stage, u, role, status, password) \in TaskStates
         /\ NewTask(op, stage, u, role, status, password).at = stage
         /\ NewTask(op, stage, u, role, status, password).op = op
         /\ NewTask(op, stage, u, role, status, password).role = role
         /\ NewTask(op, stage, u, role, status, password).status = status
BY DEF NewTask, TaskStates

\* Every kind of request begins so.
LEMMA BeginStep ==
  ASSUME SessionsConsistent, NEW t \in Tasks,
         BeginLogin(t) \/ BeginChange(t) \/ BeginUpdate(t) \/ BeginDelete(t)
  PROVE  SessionsConsistent'
<1>0. passwords \in Nat \ {0} /\ \A s \in sessions : s.user \in Users
  BY DEF SessionsConsistent, SessionsTypeOK, SessionRows
<1>1. CASE BeginLogin(t)
  <2>1. PICK u \in Users : Begin(t, NewTask("login", "find", u, "same", "same", 0))
    BY <1>1 DEF BeginLogin
  <2> DEFINE task == NewTask("login", "find", u, "same", "same", 0)
  <2>2. task \in TaskStates /\ task.at = "find" /\ task.op = "login"
        /\ task.role = "same" /\ task.status = "same"
    BY NewTaskFields
  <2>3. UNCHANGED <<users, sessions, passwords, cuts, unrevoked>>
    BY <1>1 DEF BeginLogin
  <2> HIDE DEF task
  <2>4. Stage(task) /\ ~Removes(task)
    BY <2>2 DEF Stage, Removes
  <2>5. Begin(t, task)
    BY <2>1 DEF task
  <2> QED BY <1>0, <2>2, <2>3, <2>4, <2>5, Begins
<1>2. CASE BeginChange(t)
  <2>1. PICK u \in Users : Begin(t, NewTask("change", "find", u, "same", "same", 0))
    BY <1>0, <1>2 DEF BeginChange
  <2> DEFINE task == NewTask("change", "find", u, "same", "same", 0)
  <2>2. task \in TaskStates /\ task.at = "find" /\ task.op = "change"
        /\ task.role = "same" /\ task.status = "same"
    BY NewTaskFields
  <2>3. UNCHANGED <<users, sessions, passwords, cuts, unrevoked>>
    BY <1>2 DEF BeginChange
  <2> HIDE DEF task
  <2>4. Stage(task) /\ ~Removes(task)
    BY <2>2 DEF Stage, Removes
  <2>5. Begin(t, task)
    BY <2>1 DEF task
  <2> QED BY <1>0, <2>2, <2>3, <2>4, <2>5, Begins
<1>3. CASE BeginUpdate(t)
  <2>1. PICK u \in Users, role \in {"same", "ADMIN", "USER"},
             status \in {"same", "ACTIVE", "DISABLED"}, password \in {0, passwords + 1} :
          /\ Begin(t, NewTask("update", IF role = "USER" \/ status = "DISABLED" THEN "target"
                                        ELSE "store", u, role, status, password))
          /\ passwords' = IF password = 0 THEN passwords ELSE password
    BY <1>3 DEF BeginUpdate
  <2>2. PICK stage \in {"target", "store"} :
          stage = IF role = "USER" \/ status = "DISABLED" THEN "target" ELSE "store"
    OBVIOUS
  <2> DEFINE task == NewTask("update", stage, u, role, status, password)
  <2>3. password \in Nat /\ passwords' \in Nat \ {0}
    BY <1>0, <2>1
  <2>4. task \in TaskStates /\ task.at = stage /\ task.op = "update"
        /\ task.role = role /\ task.status = status
    BY <2>3 DEF NewTask, TaskStates
  <2>5. UNCHANGED <<users, sessions, cuts, unrevoked>>
    BY <1>3 DEF BeginUpdate
  <2>6. Begin(t, task)
    BY <2>1, <2>2
  <2> HIDE DEF task
  <2>7. Stage(task) /\ ~Removes(task)
    BY <2>2, <2>4 DEF Stage, Removes
  <2> QED BY <2>3, <2>4, <2>5, <2>6, <2>7, Begins
<1>4. CASE BeginDelete(t)
  <2>1. PICK u \in Users : Begin(t, NewTask("delete", "target", u, "same", "same", 0))
    BY <1>4 DEF BeginDelete
  <2> DEFINE task == NewTask("delete", "target", u, "same", "same", 0)
  <2>2. task \in TaskStates /\ task.at = "target" /\ task.op = "delete"
        /\ task.role = "same" /\ task.status = "same"
    BY NewTaskFields
  <2>3. UNCHANGED <<users, sessions, passwords, cuts, unrevoked>>
    BY <1>4 DEF BeginDelete
  <2> HIDE DEF task
  <2>4. Stage(task) /\ ~Removes(task)
    BY <2>2 DEF Stage, Removes
  <2>5. Begin(t, task)
    BY <2>1 DEF task
  <2> QED BY <1>0, <2>2, <2>3, <2>4, <2>5, Begins
<1> QED BY <1>1, <1>2, <1>3, <1>4

\* The user is read, and the password compared.
LEMMA FindStep ==
  ASSUME SessionsConsistent, NEW t \in Tasks, Find(t)
  PROVE  SessionsConsistent'
<1> DEFINE user == users[tasks[t].user]
<1>1. /\ tasks[t] \in TaskStates /\ Stage(tasks[t]) /\ tasks[t].at = "find"
      /\ user \in UserRows /\ passwords \in Nat \ {0}
  BY TaskFields DEF Find, SessionsConsistent, SessionsTypeOK
<1>2. /\ tasks[t].op \in {"login", "change"} /\ Active(t) /\ tasks[t].at # "revoke"
      /\ user.password \in Nat
  BY <1>1 DEF Stage, Active, UserRows
<1>3. UNCHANGED <<users, sessions, begun, cuts, raced, unrevoked>>
  BY DEF Find
<1>4. CASE ~user.there \/ (tasks[t].op = "login" /\ ~user.active)
  <2>1. tasks' = [tasks EXCEPT ![t] = NoTask] /\ passwords' \in Nat \ {0}
    BY <1>1, <1>4 DEF Find, Ends
  <2> QED BY <1>2, <1>3, <2>1, NoTaskFields, ReadsOn
<1>5. CASE ~(~user.there \/ (tasks[t].op = "login" /\ ~user.active)) /\ tasks[t].op = "login"
  <2> DEFINE next == [[tasks[t] EXCEPT !.at = "create"] EXCEPT !.password = user.password]
  <2>1. tasks' = [tasks EXCEPT ![t] = next] /\ passwords' = passwords
    <3>1. /\ tasks' = [tasks EXCEPT ![t].at = "create", ![t].password = user.password]
          /\ passwords' = passwords
      BY <1>5 DEF Find
    <3> QED BY <3>1 DEF SessionsConsistent, SessionsTypeOK
  <2>2. /\ next \in TaskStates /\ next.at = "create" /\ next.password = user.password
        /\ SameTask(tasks[t], next)
    BY <1>1, <1>2 DEF TaskStates, SameTask
  <2> HIDE DEF next
  <2>3. Stage(next) /\ ~Removes(next)
    BY <1>1, <1>5, <2>2 DEF Stage, SameTask, Removes
  <2>4. Knows(next)
    BY <2>2 DEF Knows, SameTask
  <2> QED BY <1>1, <1>2, <1>3, <2>1, <2>2, <2>3, <2>4, ReadsOn
<1>6. CASE ~(~user.there \/ (tasks[t].op = "login" /\ ~user.active)) /\ tasks[t].op # "login"
  <2> DEFINE next == [[tasks[t] EXCEPT !.at = "store"] EXCEPT !.password = passwords + 1]
  <2>1. tasks' = [tasks EXCEPT ![t] = next] /\ passwords' = passwords + 1
    <3>1. /\ tasks' = [tasks EXCEPT ![t].at = "store", ![t].password = passwords + 1]
          /\ passwords' = passwords + 1
      BY <1>6 DEF Find
    <3> QED BY <3>1 DEF SessionsConsistent, SessionsTypeOK
  <2>2. /\ next \in TaskStates /\ next.at = "store" /\ next.password = passwords + 1
        /\ SameTask(tasks[t], next)
    <3>1. PICK n \in Nat : n = passwords + 1
      BY <1>1
    <3> QED BY <1>1, <3>1 DEF TaskStates, SameTask
  <2> HIDE DEF next
  <2>3. tasks[t].op = "change" /\ next.op = "change"
    BY <1>2, <1>6, <2>2 DEF SameTask
  <2>4. Stage(next) /\ ~Removes(next) /\ ~MustKnow(next)
    BY <1>1, <2>2, <2>3 DEF Stage, SameTask, Removes, MustKnow
  <2>5. passwords' \in Nat \ {0}
    BY <1>1, <2>1
  <2> QED BY <1>2, <1>3, <2>1, <2>2, <2>4, <2>5, ReadsOn
<1> QED BY <1>4, <1>5, <1>6

\* A request that goes to another of its calls.
LEMMA GoesToFields ==
  ASSUME SessionsConsistent, NEW t \in Tasks, NEW stage \in {"count", "store", "revoke", "erase", "create"},
         GoesTo(t, stage)
  PROVE  \E next \in TaskStates :
           /\ tasks' = [tasks EXCEPT ![t] = next] /\ SameTask(tasks[t], next)
           /\ next.at = stage /\ next.password = tasks[t].password
<1> DEFINE next == [tasks[t] EXCEPT !.at = stage]
<1>1. tasks[t] \in TaskStates
  BY TaskFields
<1>2. tasks' = [tasks EXCEPT ![t] = next]
  BY DEF GoesTo
<1>3. /\ next \in TaskStates /\ SameTask(tasks[t], next)
      /\ next.at = stage /\ next.password = tasks[t].password
  BY <1>1 DEF TaskStates, SameTask
<1> HIDE DEF next
<1> QED BY <1>2, <1>3

\* Whoever is no active administrator is not the last one.
LEMMA TargetStep ==
  ASSUME SessionsConsistent, NEW t \in Tasks, Target(t)
  PROVE  SessionsConsistent'
<1> DEFINE user == users[tasks[t].user]
           stage == IF user.there /\ user.role = "ADMIN" THEN "count"
                    ELSE IF tasks[t].op = "delete" THEN "revoke" ELSE "store"
<1>1. /\ Stage(tasks[t]) /\ tasks[t].at = "target"
      /\ passwords \in Nat \ {0}
  BY TaskFields DEF Target, SessionsConsistent, SessionsTypeOK
<1>2. /\ tasks[t].op \in {"update", "delete"} /\ Active(t) /\ tasks[t].at # "revoke"
  BY <1>1 DEF Stage, Active
<1>3. UNCHANGED <<users, sessions, begun, cuts, raced, unrevoked, passwords>>
  BY DEF Target
<1>4. GoesTo(t, stage)
  BY DEF Target
<1>5. /\ stage \in {"count", "store", "revoke", "erase", "create"}
      /\ stage = "count" \/ (stage = "revoke" /\ tasks[t].op = "delete")
                         \/ (stage = "store" /\ tasks[t].op = "update")
      /\ stage # "count" => tasks[t].user \notin ActiveAdmins
  BY <1>2 DEF ActiveAdmins
<1> HIDE DEF stage, user
<1>6. PICK next \in TaskStates :
        /\ tasks' = [tasks EXCEPT ![t] = next] /\ SameTask(tasks[t], next)
        /\ next.at = stage /\ next.password = tasks[t].password
  BY <1>4, <1>5, GoesToFields
<1>7. Stage(next) /\ ~MustKnow(next)
  BY <1>1, <1>2, <1>5, <1>6 DEF Stage, SameTask, MustKnow
<1>8. ASSUME ~raced, Removes(next) PROVE OtherAdmin(next)
  <2>1. tasks[t].user \notin ActiveAdmins /\ next.user = tasks[t].user
    BY <1>5, <1>6, <1>8 DEF Removes, SameTask
  <2>2. ActiveAdmins # {}
    BY <1>8 DEF SessionsConsistent, AdminRemains
  <2> QED BY <2>1, <2>2 DEF OtherAdmin
<1> QED BY <1>1, <1>2, <1>3, <1>6, <1>7, <1>8, ReadsOn

\* An administrator is removed only where there is another one.
LEMMA CountAdminsStep ==
  ASSUME SessionsConsistent, NEW t \in Tasks, CountAdmins(t)
  PROVE  SessionsConsistent'
<1> DEFINE stage == IF tasks[t].op = "delete" THEN "revoke" ELSE "store"
<1>1. /\ Stage(tasks[t]) /\ tasks[t].at = "count"
      /\ passwords \in Nat \ {0}
  BY TaskFields DEF CountAdmins, SessionsConsistent, SessionsTypeOK
<1>2. /\ tasks[t].op \in {"update", "delete"} /\ Active(t) /\ tasks[t].at # "revoke"
  BY <1>1 DEF Stage, Active
<1>3. UNCHANGED <<users, sessions, begun, cuts, raced, unrevoked, passwords>>
  BY DEF CountAdmins
<1>4. CASE Cardinality(ActiveAdmins) <= 1
  <2>1. tasks' = [tasks EXCEPT ![t] = NoTask]
    BY <1>4 DEF CountAdmins, Ends
  <2> QED BY <1>1, <1>2, <1>3, <2>1, NoTaskFields, ReadsOn
<1>5. CASE ~(Cardinality(ActiveAdmins) <= 1)
  <2>1. GoesTo(t, stage)
    BY <1>5 DEF CountAdmins
  <2>2. /\ stage \in {"count", "store", "revoke", "erase", "create"}
        /\ (stage = "revoke" /\ tasks[t].op = "delete") \/ (stage = "store" /\ tasks[t].op = "update")
    BY <1>2
  <2> HIDE DEF stage
  <2>3. PICK next \in TaskStates :
          /\ tasks' = [tasks EXCEPT ![t] = next] /\ SameTask(tasks[t], next)
          /\ next.at = stage /\ next.password = tasks[t].password
    BY <2>1, <2>2, GoesToFields
  <2>4. Stage(next) /\ ~MustKnow(next)
    BY <1>1, <1>2, <2>2, <2>3 DEF Stage, SameTask, MustKnow
  <2>5. OtherAdmin(next)
    <3> SUFFICES ASSUME \A u \in ActiveAdmins : u = next.user PROVE FALSE
      BY DEF OtherAdmin
    <3>1. ActiveAdmins = {} \/ ActiveAdmins = {next.user}
      OBVIOUS
    <3>2. Cardinality(ActiveAdmins) = 0 \/ Cardinality(ActiveAdmins) = 1
      BY <3>1, FS_EmptySet, FS_Singleton
    <3> QED BY <1>5, <3>2
  <2> QED BY <1>1, <1>2, <1>3, <2>3, <2>4, <2>5, ReadsOn
<1> QED BY <1>4, <1>5

\* The request that creates a session knows the password by which it does.
LEMMA CreateSessionStep ==
  ASSUME SessionsConsistent, NEW t \in Tasks, CreateSession(t)
  PROVE  SessionsConsistent'
<1> USE DEF SessionsConsistent
<1> DEFINE u == tasks[t].user
           row == [user |-> u, password |-> tasks[t].password, clean |-> tasks[t].clean]
<1>1. /\ tasks[t] \in TaskStates /\ Stage(tasks[t]) /\ tasks[t].at = "create"
      /\ row \in SessionRows
  BY TaskFields DEF CreateSession, TaskStates, SessionRows
<1>2. Active(t)
  BY <1>1 DEF Stage, Active
<1>3. /\ tasks' = [tasks EXCEPT ![t] = NoTask]
      /\ UNCHANGED <<users, begun, passwords, cuts, raced, unrevoked>>
      /\ sessions' = IF users[u].there THEN sessions \union {row} ELSE sessions
  BY DEF CreateSession, Ends
<1>4. /\ tasks' \in [Tasks -> TaskStates] /\ TaskStages' /\ CleanIsAlone' /\ OneDecides'
      /\ tasks'[t] = NoTask /\ \A o \in Tasks : o # t => tasks'[o] = tasks[o]
  BY <1>2, <1>3, NoTaskFields, TaskMoves
<1>5. SessionsTypeOK'
  BY <1>1, <1>3, <1>4 DEF SessionsTypeOK
<1>6. KnowsPassword'
  BY <1>3, <1>4, NoTaskFields DEF KnowsPassword, MustKnow, Knows
<1>7. SessionsBelong'
  BY <1>3 DEF SessionsBelong
<1>8. SessionsFollow'
  <2> SUFFICES ASSUME NEW s \in sessions', Outdated(s)'
               PROVE  \E o \in Tasks : tasks'[o].at = "revoke" /\ tasks'[o].user = s.user
    BY DEF SessionsFollow
  <2>1. CASE s \in sessions
    <3>1. PICK o \in Tasks : tasks[o].at = "revoke" /\ tasks[o].user = s.user
      BY <1>3, <2>1 DEF SessionsFollow, Outdated
    <3> QED BY <1>1, <1>4, <3>1
  <2>2. CASE s = row /\ users[u].there
    <3>1. MustKnow(tasks[t])
      BY <1>1, <2>2 DEF MustKnow, Outdated
    <3>2. tasks[t].password = users[u].password
      BY <2>2, <3>1 DEF KnowsPassword, Knows
    <3> QED BY <1>3, <2>2, <3>2 DEF Outdated
  <2> QED BY <1>3, <2>1, <2>2
<1>9. AnotherAdmin'
  BY <1>3, <1>4, NoTaskFields DEF AnotherAdmin, Removes, OtherAdmin, ActiveAdmins
<1>10. AdminRemains'
  BY <1>3 DEF AdminRemains, ActiveAdmins
<1> QED BY <1>4, <1>5, <1>6, <1>7, <1>8, <1>9, <1>10

\* A request that fails before it has deleted the sessions leaves them
\* unrevoked.
LEMMA TaskFailsStep ==
  ASSUME SessionsConsistent, NEW t \in Tasks, TaskFails(t)
  PROVE  SessionsConsistent'
<1> USE DEF SessionsConsistent
<1>1. /\ Active(t) /\ cuts' \in 0..MaxCuts
      /\ tasks' = [tasks EXCEPT ![t] = NoTask]
      /\ unrevoked' = IF tasks[t].at = "revoke" THEN unrevoked \union {tasks[t].user} ELSE unrevoked
      /\ UNCHANGED <<users, sessions, begun, passwords, raced>>
  BY SessionsAssumption DEF TaskFails, Ends, SessionsTypeOK
<1>2. /\ tasks' \in [Tasks -> TaskStates] /\ TaskStages' /\ CleanIsAlone' /\ OneDecides'
      /\ tasks'[t] = NoTask /\ \A o \in Tasks : o # t => tasks'[o] = tasks[o]
  BY <1>1, NoTaskFields, TaskMoves
<1>3. SessionsTypeOK'
  BY <1>1, <1>2, TaskFields DEF SessionsTypeOK
<1>4. KnowsPassword'
  BY <1>1, <1>2, NoTaskFields DEF KnowsPassword, MustKnow, Knows
<1>5. SessionsBelong'
  BY <1>1 DEF SessionsBelong
<1>6. SessionsFollow'
  <2> SUFFICES ASSUME NEW s \in sessions, Outdated(s)'
               PROVE  \E o \in Tasks : tasks'[o].at = "revoke" /\ tasks'[o].user = s.user
    BY <1>1 DEF SessionsFollow
  <2>1. Outdated(s)
    BY <1>1 DEF Outdated
  <2>2. PICK o \in Tasks : tasks[o].at = "revoke" /\ tasks[o].user = s.user
    BY <2>1 DEF SessionsFollow
  <2>3. o # t
    BY <1>1, <2>2 DEF Outdated
  <2> QED BY <1>2, <2>2, <2>3
<1>7. AnotherAdmin'
  BY <1>1, <1>2, NoTaskFields DEF AnotherAdmin, Removes, OtherAdmin, ActiveAdmins
<1>8. AdminRemains'
  BY <1>1 DEF AdminRemains, ActiveAdmins
<1> QED BY <1>2, <1>3, <1>4, <1>5, <1>6, <1>7, <1>8

\* The sessions are deleted; the request ends, or goes on.
LEMMA RevokeStep ==
  ASSUME SessionsConsistent, NEW t \in Tasks, Revoke(t)
  PROVE  SessionsConsistent'
<1> USE DEF SessionsConsistent
<1> DEFINE u == tasks[t].user
<1>1. /\ tasks[t] \in TaskStates /\ Stage(tasks[t]) /\ tasks[t].at = "revoke"
  BY TaskFields DEF Revoke
<1>2. /\ tasks[t].op \in {"change", "update", "delete"} /\ Active(t)
  BY <1>1 DEF Stage, Active
<1>3. /\ sessions' = {s \in sessions : s.user # u} /\ unrevoked' = unrevoked \ {u}
      /\ UNCHANGED <<users, begun, passwords, cuts, raced>>
  BY DEF Revoke
<1>4. \E next \in TaskStates :
        /\ tasks' = [tasks EXCEPT ![t] = next]
        /\ next = NoTask \/ SameTask(tasks[t], next)
        /\ Stage(next)
        /\ MustKnow(next) =>
             MustKnow(tasks[t]) /\ next.password = tasks[t].password /\ next.user = u
        /\ Removes(next) => Removes(tasks[t]) /\ next.user = u
  <2>1. CASE tasks[t].op = "update"
    <3>1. tasks' = [tasks EXCEPT ![t] = NoTask]
      BY <2>1 DEF Revoke, Ends
    <3> QED BY <3>1, NoTaskFields
  <2>2. CASE tasks[t].op = "delete"
    <3>1. GoesTo(t, "erase")
      BY <2>2 DEF Revoke
    <3>2. PICK next \in TaskStates :
            /\ tasks' = [tasks EXCEPT ![t] = next] /\ SameTask(tasks[t], next)
            /\ next.at = "erase" /\ next.password = tasks[t].password
      BY <3>1, GoesToFields
    <3>3. Stage(next) /\ ~MustKnow(next)
      BY <2>2, <3>2 DEF Stage, MustKnow, SameTask
    <3>4. Removes(tasks[t]) /\ next.user = u
      BY <1>1, <2>2, <3>2 DEF Removes, SameTask
    <3> QED BY <3>2, <3>3, <3>4
  <2>3. CASE tasks[t].op = "change"
    <3>1. GoesTo(t, "create")
      BY <2>3 DEF Revoke
    <3>2. PICK next \in TaskStates :
            /\ tasks' = [tasks EXCEPT ![t] = next] /\ SameTask(tasks[t], next)
            /\ next.at = "create" /\ next.password = tasks[t].password
      BY <3>1, GoesToFields
    <3>3. Stage(next) /\ ~Removes(next) /\ next.user = u
      BY <1>1, <2>3, <3>2 DEF Stage, Removes, SameTask
    <3>4. MustKnow(next) => MustKnow(tasks[t])
      BY <1>1, <2>3, <3>2 DEF MustKnow, SameTask
    <3> QED BY <3>2, <3>3, <3>4
  <2> QED BY <1>2, <2>1, <2>2, <2>3
<1>5. PICK next \in TaskStates :
        /\ tasks' = [tasks EXCEPT ![t] = next]
        /\ next = NoTask \/ SameTask(tasks[t], next)
        /\ Stage(next)
        /\ MustKnow(next) =>
             MustKnow(tasks[t]) /\ next.password = tasks[t].password /\ next.user = u
        /\ Removes(next) => Removes(tasks[t]) /\ next.user = u
  BY <1>4
<1>6. /\ tasks' \in [Tasks -> TaskStates] /\ TaskStages' /\ CleanIsAlone' /\ OneDecides'
      /\ tasks'[t] = next /\ \A o \in Tasks : o # t => tasks'[o] = tasks[o]
  BY <1>2, <1>3, <1>5, TaskMoves
<1>7. SessionsTypeOK'
  BY <1>3, <1>6 DEF SessionsTypeOK
<1>8. KnowsPassword'
  <2>1. \A o \in Tasks : MustKnow(tasks'[o]) => Knows(tasks'[o])
    BY <1>5, <1>6 DEF KnowsPassword, Knows
  <2> QED BY <1>3, <2>1 DEF KnowsPassword, MustKnow, Knows
<1>9. SessionsBelong'
  BY <1>3 DEF SessionsBelong
<1>10. SessionsFollow'
  <2> SUFFICES ASSUME NEW s \in sessions, s.user # u, Outdated(s)'
               PROVE  \E o \in Tasks : tasks'[o].at = "revoke" /\ tasks'[o].user = s.user
    BY <1>3 DEF SessionsFollow
  <2>1. PICK o \in Tasks : tasks[o].at = "revoke" /\ tasks[o].user = s.user
    BY <1>3 DEF SessionsFollow, Outdated
  <2> QED BY <1>6, <2>1
<1>11. AnotherAdmin'
  BY <1>3, <1>5, <1>6 DEF AnotherAdmin, Removes, OtherAdmin, ActiveAdmins
<1>12. AdminRemains'
  BY <1>3 DEF AdminRemains, ActiveAdmins
<1> QED BY <1>6, <1>7, <1>8, <1>9, <1>10, <1>11, <1>12

\* Sessions that end of themselves leave everything else alone.
LEMMA EndSessionStep ==
  ASSUME SessionsConsistent, EndSession
  PROVE  SessionsConsistent'
<1> USE DEF SessionsConsistent
<1>1. /\ sessions' \subseteq sessions
      /\ UNCHANGED <<users, tasks, begun, passwords, cuts, raced, unrevoked>>
  BY DEF EndSession
<1>2. SessionsTypeOK'
  BY <1>1 DEF SessionsTypeOK
<1>3. TaskStages' /\ CleanIsAlone'
  BY <1>1 DEF TaskStages, CleanIsAlone, Active, Stage
<1>4. KnowsPassword' /\ SessionsBelong'
  BY <1>1 DEF KnowsPassword, MustKnow, Knows, SessionsBelong
<1>5. SessionsFollow'
  BY <1>1 DEF SessionsFollow, Outdated
<1>6. OneDecides' /\ AnotherAdmin' /\ AdminRemains'
  BY <1>1 DEF OneDecides, Decides, AnotherAdmin, Removes, OtherAdmin, ActiveAdmins, AdminRemains
<1> QED BY <1>2, <1>3, <1>4, <1>5, <1>6

\* A backend that starts has no requests and deletes every session.
LEMMA BackendRestartsStep ==
  ASSUME SessionsConsistent, BackendRestarts
  PROVE  SessionsConsistent'
<1> USE DEF SessionsConsistent
<1>1. /\ cuts' \in 0..MaxCuts /\ sessions' = {} /\ unrevoked' = {}
      /\ tasks' = [t \in Tasks |-> NoTask]
      /\ UNCHANGED <<users, begun, passwords, raced>>
  BY SessionsAssumption DEF BackendRestarts, SessionsTypeOK
<1>2. \A t \in Tasks : tasks'[t] = NoTask
  BY <1>1
<1>3. tasks' \in [Tasks -> TaskStates]
  BY <1>1, NoTaskFields
<1>4. SessionsTypeOK'
  BY <1>1, <1>3 DEF SessionsTypeOK
<1>5. TaskStages' /\ CleanIsAlone'
  BY <1>2, NoTaskFields DEF TaskStages, CleanIsAlone, Active, Stage
<1>6. KnowsPassword' /\ SessionsBelong' /\ SessionsFollow'
  BY <1>1, <1>2, NoTaskFields DEF KnowsPassword, MustKnow, SessionsBelong, SessionsFollow
<1>7. OneDecides' /\ AnotherAdmin' /\ AdminRemains'
  BY <1>1, <1>2, NoTaskFields
     DEF OneDecides, Decides, AnotherAdmin, Removes, ActiveAdmins, AdminRemains
<1> QED BY <1>4, <1>5, <1>6, <1>7

\* The row is deleted, with the sessions that refer to it.
LEMMA EraseStep ==
  ASSUME SessionsConsistent, NEW t \in Tasks, Erase(t)
  PROVE  SessionsConsistent'
<1> USE DEF SessionsConsistent
<1> DEFINE u == tasks[t].user
<1>1. /\ tasks[t] \in TaskStates /\ Stage(tasks[t]) /\ tasks[t].at = "erase"
      /\ u \in Users
  BY TaskFields DEF Erase
<1>2. /\ tasks[t].op = "delete" /\ Active(t) /\ Removes(tasks[t])
  BY <1>1 DEF Stage, Active, Removes
<1>3. /\ users' = [users EXCEPT ![u] = NoUser]
      /\ sessions' = {s \in sessions : s.user # u}
      /\ tasks' = [tasks EXCEPT ![t] = NoTask]
      /\ UNCHANGED <<begun, passwords, cuts, raced, unrevoked>>
  BY DEF Erase, Ends
<1>4. /\ tasks' \in [Tasks -> TaskStates] /\ TaskStages' /\ CleanIsAlone' /\ OneDecides'
      /\ tasks'[t] = NoTask /\ \A o \in Tasks : o # t => tasks'[o] = tasks[o]
  BY <1>2, <1>3, NoTaskFields, TaskMoves
<1>5. NoUser \in UserRows /\ ~NoUser.there
  BY DEF NoUser, UserRows
<1>6. /\ users' \in [Users -> UserRows]
      /\ users'[u] = NoUser /\ \A v \in Users : v # u => users'[v] = users[v]
  BY <1>1, <1>3, <1>5 DEF SessionsTypeOK
<1>7. SessionsTypeOK'
  BY <1>3, <1>4, <1>6 DEF SessionsTypeOK
<1>8. KnowsPassword'
  <2> SUFFICES ASSUME NEW o \in Tasks, MustKnow(tasks'[o]), users'[tasks'[o].user].there
               PROVE  tasks'[o].password = users'[tasks'[o].user].password
    BY DEF KnowsPassword, MustKnow, Knows
  <2>1. o # t /\ tasks'[o] = tasks[o] /\ tasks[o].user # u
    BY <1>4, <1>5, <1>6, NoTaskFields
  <2> QED BY <1>6, <2>1, TaskFields DEF KnowsPassword, Knows
<1>9. \A s \in sessions' : s \in sessions /\ s.user # u /\ s.user \in Users
  BY <1>3 DEF SessionsTypeOK, SessionRows
<1>10. SessionsBelong'
  BY <1>6, <1>9 DEF SessionsBelong
<1>11. SessionsFollow'
  <2> SUFFICES ASSUME NEW s \in sessions', Outdated(s)'
               PROVE  \E o \in Tasks : tasks'[o].at = "revoke" /\ tasks'[o].user = s.user
    BY DEF SessionsFollow
  <2>1. Outdated(s)
    BY <1>3, <1>6, <1>9 DEF Outdated
  <2>2. PICK o \in Tasks : tasks[o].at = "revoke" /\ tasks[o].user = s.user
    BY <1>9, <2>1 DEF SessionsFollow
  <2> QED BY <1>1, <1>4, <2>2
<1>12. ASSUME ~raced PROVE ActiveAdmins' # {}
  <2>1. PICK v \in ActiveAdmins : v # u
    BY <1>2, <1>12 DEF AnotherAdmin, OtherAdmin
  <2> QED BY <1>6, <2>1 DEF ActiveAdmins
<1>13. AnotherAdmin'
  <2> SUFFICES ASSUME ~raced, NEW o \in Tasks, Removes(tasks'[o]) PROVE FALSE
    BY <1>3 DEF AnotherAdmin, Removes
  <2>1. o # t /\ Removes(tasks[o])
    BY <1>4, NoTaskFields
  <2>2. Decides(tasks[o]) /\ Decides(tasks[t])
    BY <1>2, <2>1 DEF Decides, Removes
  <2> QED BY <2>1, <2>2 DEF OneDecides
<1>14. AdminRemains'
  BY <1>3, <1>12 DEF AdminRemains
<1> QED BY <1>4, <1>7, <1>8, <1>10, <1>11, <1>13, <1>14

\* A new user has no sessions, and no request is under way for it.
LEMMA CreateUserStep ==
  ASSUME SessionsConsistent, CreateUser
  PROVE  SessionsConsistent'
<1> USE DEF SessionsConsistent
<1>1. PICK u \in Users, role \in {"ADMIN", "USER"} :
        /\ ~users[u].there
        /\ \A t \in Tasks : Active(t) => tasks[t].user # u
        /\ users' = [users EXCEPT ![u] =
             [there |-> TRUE, role |-> role, active |-> TRUE, password |-> passwords + 1]]
  BY DEF CreateUser
<1>2. /\ begun' \in 0..MaxTasks /\ passwords' \in Nat \ {0} /\ passwords + 1 \in Nat
      /\ UNCHANGED <<sessions, tasks, cuts, raced, unrevoked>>
  BY SessionsAssumption DEF CreateUser, SessionsTypeOK
<1> DEFINE new == [there |-> TRUE, role |-> role, active |-> TRUE, password |-> passwords + 1]
<1>3. new \in UserRows
  BY <1>2 DEF UserRows
<1>4. users' = [users EXCEPT ![u] = new]
  BY <1>1
<1> HIDE DEF new
<1>5. /\ users' \in [Users -> UserRows] /\ \A v \in Users : v # u => users'[v] = users[v]
  BY <1>3, <1>4 DEF SessionsTypeOK
<1>6. SessionsTypeOK'
  BY <1>2, <1>5 DEF SessionsTypeOK
<1>7. TaskStages' /\ CleanIsAlone' /\ OneDecides'
  BY <1>2 DEF TaskStages, Stage, CleanIsAlone, Active, OneDecides, Decides
<1>8. \A t \in Tasks : Active(t) => users'[tasks[t].user] = users[tasks[t].user]
  BY <1>1, <1>5, TaskFields
<1>9. KnowsPassword'
  <2> SUFFICES ASSUME NEW t \in Tasks, MustKnow(tasks[t]), users'[tasks[t].user].there
               PROVE  tasks[t].password = users'[tasks[t].user].password
    BY <1>2 DEF KnowsPassword, MustKnow, Knows
  <2>1. Active(t)
    BY TaskFields DEF MustKnow, Stage, Active
  <2> QED BY <1>8, <2>1 DEF KnowsPassword, Knows
<1>10. \A s \in sessions : s.user \in Users /\ s.user # u /\ users'[s.user] = users[s.user]
  <2>1. \A s \in sessions : s.user \in Users /\ users[s.user].there
    BY DEF SessionsTypeOK, SessionRows, SessionsBelong
  <2> QED BY <1>1, <1>5, <2>1
<1>11. SessionsBelong' /\ SessionsFollow'
  BY <1>2, <1>10 DEF SessionsBelong, SessionsFollow, Outdated
<1>12. ActiveAdmins \subseteq ActiveAdmins'
  BY <1>1, <1>5 DEF ActiveAdmins
<1>13. AnotherAdmin' /\ AdminRemains'
  BY <1>2, <1>12 DEF AnotherAdmin, Removes, OtherAdmin, AdminRemains
<1> QED BY <1>6, <1>7, <1>9, <1>11, <1>13

\* The row is updated; what outdates sessions then deletes them.
LEMMA StoreStep ==
  ASSUME SessionsConsistent, NEW t \in Tasks, Store(t)
  PROVE  SessionsConsistent'
<1> USE DEF SessionsConsistent
<1> DEFINE u == tasks[t].user
<1>1. /\ tasks[t] \in TaskStates /\ Stage(tasks[t]) /\ tasks[t].at = "store"
      /\ u \in Users /\ users[u] \in UserRows /\ passwords \in Nat \ {0}
  BY TaskFields DEF Store, SessionsTypeOK
<1>2. /\ tasks[t].op \in {"update", "change"} /\ Active(t) /\ tasks[t].at # "revoke"
      /\ tasks[t].op = "change" => tasks[t].role = "same" /\ tasks[t].status = "same"
                                   /\ tasks[t].password # 0
  BY <1>1 DEF Stage, Active
<1>3. UNCHANGED <<sessions, begun, passwords, cuts, raced, unrevoked>>
  BY DEF Store
<1>4. CASE ~users[u].there
  <2>1. tasks' = [tasks EXCEPT ![t] = NoTask] /\ UNCHANGED users
    BY <1>4 DEF Store, Ends
  <2> QED BY <1>1, <1>2, <1>3, <2>1, NoTaskFields, ReadsOn
<1>5. CASE users[u].there
  <2> DEFINE row == [there |-> TRUE,
                     role |-> IF tasks[t].role = "same" THEN users[u].role ELSE tasks[t].role,
                     active |-> IF tasks[t].status = "same" THEN users[u].active
                                ELSE tasks[t].status = "ACTIVE",
                     password |-> IF tasks[t].password = 0 THEN users[u].password
                                  ELSE tasks[t].password]
  <2>1. users' = [users EXCEPT ![u] = row]
    BY <1>5 DEF Store
  <2>2. row \in UserRows
    <3>1. PICK active \in BOOLEAN : active = IF tasks[t].status = "same" THEN users[u].active
                                              ELSE tasks[t].status = "ACTIVE"
      <4>1. users[u].active \in BOOLEAN
        BY <1>1 DEF UserRows
      <4> QED BY <4>1, Zenon
    <3>2. PICK role \in {"ADMIN", "USER"} :
            role = IF tasks[t].role = "same" THEN users[u].role ELSE tasks[t].role
      <4>1. /\ users[u].role \in {"ADMIN", "USER"}
            /\ tasks[t].role # "same" => tasks[t].role \in {"ADMIN", "USER"}
        BY <1>1 DEF UserRows, TaskStates
      <4> QED BY <4>1
    <3>3. PICK password \in Nat :
            password = IF tasks[t].password = 0 THEN users[u].password ELSE tasks[t].password
      <4>1. users[u].password \in Nat /\ tasks[t].password \in Nat
        BY <1>1 DEF UserRows, TaskStates
      <4> QED BY <4>1
    <3>4. row = [there |-> TRUE, role |-> role, active |-> active, password |-> password]
      BY <3>1, <3>2, <3>3, Zenon
    <3> HIDE DEF row
    <3> QED BY <3>4 DEF UserRows
  <2>3. /\ row.there
        /\ tasks[t].password # 0 => row.password = tasks[t].password
        /\ tasks[t].password = 0 => row.password = users[u].password
        /\ tasks[t].role # "USER" /\ users[u].role = "ADMIN" => row.role = "ADMIN"
        /\ tasks[t].status # "DISABLED" /\ users[u].active => row.active
    BY <1>1 DEF TaskStates
  <2> HIDE DEF row
  <2>4. /\ users' \in [Users -> UserRows]
        /\ users'[u] = row /\ \A v \in Users : v # u => users'[v] = users[v]
    BY <1>1, <2>1, <2>2 DEF SessionsTypeOK
  <2>5. \E next \in TaskStates :
          /\ tasks' = [tasks EXCEPT ![t] = next]
          /\ next = NoTask \/ SameTask(tasks[t], next)
          /\ Stage(next) /\ ~Removes(next)
          /\ MustKnow(next) => next.user = u /\ next.password = row.password
          /\ tasks[t].password # 0 => next.at = "revoke" /\ next.user = u
    <3>1. CASE MustLogInAgain(t)
      <4>1. GoesTo(t, "revoke")
        BY <1>5, <3>1 DEF Store
      <4>2. PICK next \in TaskStates :
              /\ tasks' = [tasks EXCEPT ![t] = next] /\ SameTask(tasks[t], next)
              /\ next.at = "revoke" /\ next.password = tasks[t].password
        BY <4>1, GoesToFields
      <4>3. Stage(next) /\ ~Removes(next) /\ next.user = u
        BY <1>1, <1>2, <4>2 DEF Stage, Removes, SameTask
      <4>4. MustKnow(next) => next.password = row.password
        BY <1>2, <2>3, <4>2 DEF MustKnow, SameTask
      <4> QED BY <4>2, <4>3, <4>4
    <3>2. CASE ~MustLogInAgain(t)
      <4>1. tasks' = [tasks EXCEPT ![t] = NoTask]
        BY <1>5, <3>2 DEF Store, Ends
      <4>2. tasks[t].password = 0
        BY <3>2 DEF MustLogInAgain
      <4> QED BY <4>1, <4>2, NoTaskFields
    <3> QED BY <3>1, <3>2
  <2>6. PICK next \in TaskStates :
          /\ tasks' = [tasks EXCEPT ![t] = next]
          /\ next = NoTask \/ SameTask(tasks[t], next)
          /\ Stage(next) /\ ~Removes(next)
          /\ MustKnow(next) => next.user = u /\ next.password = row.password
          /\ tasks[t].password # 0 => next.at = "revoke" /\ next.user = u
    BY <2>5
  <2>7. /\ tasks' \in [Tasks -> TaskStates] /\ TaskStages' /\ CleanIsAlone' /\ OneDecides'
        /\ tasks'[t] = next /\ \A o \in Tasks : o # t => tasks'[o] = tasks[o]
    BY <1>2, <1>3, <2>6, TaskMoves
  <2>8. SessionsTypeOK'
    BY <1>3, <2>4, <2>7 DEF SessionsTypeOK
  <2>9. KnowsPassword'
    <3> SUFFICES ASSUME NEW o \in Tasks, MustKnow(tasks'[o]), users'[tasks'[o].user].there
                 PROVE  tasks'[o].password = users'[tasks'[o].user].password
      BY DEF KnowsPassword, MustKnow, Knows
    <3>1. CASE o = t
      BY <2>4, <2>6, <2>7, <3>1
    <3>2. CASE o # t
      <4>1. tasks'[o] = tasks[o] /\ MustKnow(tasks[o])
        BY <2>7, <3>2
      <4>2. Active(o) /\ tasks[o].clean
        BY <4>1, TaskFields DEF MustKnow, Stage, Active
      <4>3. tasks[o].user # u
        BY <1>2, <3>2, <4>2 DEF CleanIsAlone
      <4> QED BY <2>4, <4>1, <4>3, TaskFields DEF KnowsPassword, Knows
    <3> QED BY <3>1, <3>2
  <2>10. \A s \in sessions : s.user \in Users /\ users[s.user].there
    BY DEF SessionsTypeOK, SessionRows, SessionsBelong
  <2>11. SessionsBelong'
    BY <1>3, <2>3, <2>4, <2>10 DEF SessionsBelong
  <2>12. SessionsFollow'
    <3> SUFFICES ASSUME NEW s \in sessions, Outdated(s)'
                 PROVE  \E o \in Tasks : tasks'[o].at = "revoke" /\ tasks'[o].user = s.user
      BY <1>3 DEF SessionsFollow
    <3>1. CASE s.user = u /\ tasks[t].password # 0
      BY <2>6, <2>7, <3>1
    <3>2. CASE ~(s.user = u /\ tasks[t].password # 0)
      <4>1. users'[s.user].password = users[s.user].password
        BY <2>3, <2>4, <2>10, <3>2
      <4>2. PICK o \in Tasks : tasks[o].at = "revoke" /\ tasks[o].user = s.user
        BY <1>3, <4>1 DEF SessionsFollow, Outdated
      <4> QED BY <1>2, <2>7, <4>2
    <3> QED BY <3>1, <3>2
  <2>13. CASE Removes(tasks[t])
    <3>1. ~raced => ActiveAdmins' # {}
      <4> SUFFICES ASSUME ~raced PROVE ActiveAdmins' # {}
        OBVIOUS
      <4>1. PICK v \in ActiveAdmins : v # u
        BY <2>13 DEF AnotherAdmin, OtherAdmin
      <4> QED BY <2>4, <4>1 DEF ActiveAdmins
    <3>2. AnotherAdmin'
      <4> SUFFICES ASSUME ~raced, NEW o \in Tasks, Removes(tasks'[o]) PROVE FALSE
        BY <1>3 DEF AnotherAdmin, Removes
      <4>1. o # t /\ Removes(tasks[o])
        BY <2>6, <2>7
      <4>2. Decides(tasks[o]) /\ Decides(tasks[t])
        BY <2>13, <4>1 DEF Decides, Removes
      <4> QED BY <4>1, <4>2 DEF OneDecides
    <3> QED BY <1>3, <2>7, <2>8, <2>9, <2>11, <2>12, <3>1, <3>2 DEF AdminRemains
  <2>14. CASE ~Removes(tasks[t])
    <3>1. tasks[t].role # "USER" /\ tasks[t].status # "DISABLED"
      BY <1>1, <1>2, <2>14 DEF Removes
    <3>2. ActiveAdmins \subseteq ActiveAdmins'
      BY <2>3, <2>4, <3>1 DEF ActiveAdmins
    <3>3. \A o \in Tasks : Removes(tasks'[o]) => Removes(tasks[o]) /\ tasks'[o] = tasks[o]
      BY <2>6, <2>7
    <3>4. AnotherAdmin'
      BY <1>3, <3>2, <3>3 DEF AnotherAdmin, Removes, OtherAdmin
    <3>5. AdminRemains'
      BY <1>3, <3>2 DEF AdminRemains
    <3> QED BY <2>7, <2>8, <2>9, <2>11, <2>12, <3>4, <3>5
  <2> QED BY <2>13, <2>14
<1> QED BY <1>4, <1>5

\* Every step of requests and of the database keeps the invariant.
LEMMA SessionsStep ==
  ASSUME SessionsConsistent, [SessionsNext]_sessionVars
  PROVE  SessionsConsistent'
<1>1. CASE UNCHANGED sessionVars
  <2>1. UNCHANGED <<users, sessions, tasks, begun, passwords, cuts, raced, unrevoked>>
    BY <1>1 DEF sessionVars
  <2>2. SessionsTypeOK'
    BY <2>1 DEF SessionsConsistent, SessionsTypeOK
  <2>3. TaskStages' /\ CleanIsAlone' /\ KnowsPassword' /\ SessionsBelong' /\ SessionsFollow'
    BY <2>1 DEF SessionsConsistent, TaskStages, Stage, CleanIsAlone, Active, KnowsPassword,
                MustKnow, Knows, SessionsBelong, SessionsFollow, Outdated
  <2>4. OneDecides' /\ AnotherAdmin' /\ AdminRemains'
    BY <2>1 DEF SessionsConsistent, OneDecides, Decides, AnotherAdmin, Removes, OtherAdmin,
                ActiveAdmins, AdminRemains
  <2> QED BY <2>2, <2>3, <2>4 DEF SessionsConsistent
<1> QED BY <1>1, BeginStep, FindStep, CreateSessionStep, TargetStep, CountAdminsStep, StoreStep,
           RevokeStep, EraseStep, TaskFailsStep, CreateUserStep, EndSessionStep,
           BackendRestartsStep DEF SessionsNext

-----------------------------------------------------------------------------
(***************************************************************************)
(* The socket: what a job was let through for is due, and no job gets past *)
(* the session once the listeners were told.                               *)
(***************************************************************************)

\* The sessions are gone before the listeners are told.
SessionOver == revoked \/ telling => ~session

\* Who may see the account may see all of its events so far.
AllDue == admin \/ assigned => due = 1..happened

\* A batch holds events that happened; only the first job runs.
JobsGathered == \A i \in 1..Len(jobs) : jobs[i].events \subseteq 1..happened
OthersWait == \A i \in 2..Len(jobs) : jobs[i].at = "queued"

\* A job that read a role that may see everything, or that has been let through,
\* has events that are due.
LetThrough(job) == (job.at = "session" /\ job.role) \/ job.at \in {"act", "read"}
FirstAllowed == jobs # <<>> /\ LetThrough(jobs[1]) => jobs[1].events \subseteq due

\* Once the listeners were told, no job of an open socket has read the session.
RevokedWaits == revoked /\ link = "open" /\ jobs # <<>> => jobs[1].at = "queued"

SentDue == sent \ {0} \subseteq due

SocketConsistent ==
  /\ SocketTypeOK /\ SessionOver /\ AllDue /\ JobsGathered /\ OthersWait /\ FirstAllowed
  /\ RevokedWaits /\ SentDue

JobsFit == jobs \in Seq(Jobs) /\ JobsGathered /\ OthersWait /\ FirstAllowed

\* What the types say of the single variables.
LEMMA SocketFields ==
  ASSUME SocketTypeOK
  PROVE  /\ admin \in BOOLEAN /\ assigned \in BOOLEAN /\ session \in BOOLEAN
         /\ changing \in BOOLEAN /\ telling \in BOOLEAN /\ revoked \in BOOLEAN /\ timer \in BOOLEAN
         /\ jobs \in Seq(Jobs) /\ Len(jobs) \in Nat /\ Len(jobs) <= MaxJobs
         /\ happened \in Nat /\ happened <= MaxEvents
<1>1. /\ {admin, assigned, session, changing, telling, revoked, timer} \subseteq BOOLEAN
      /\ jobs \in Seq(Jobs) /\ Len(jobs) \in 0..MaxJobs /\ happened \in 0..MaxEvents
  BY DEF SocketTypeOK
<1>2. Len(jobs) \in Nat /\ Len(jobs) <= MaxJobs /\ happened \in Nat /\ happened <= MaxEvents
  BY <1>1, LiveSocketAssumption
<1> QED BY <1>1, <1>2, Zenon

\* A queue that stays, while more happens or becomes due.
LEMMA JobsStay ==
  ASSUME SocketConsistent, jobs' = jobs, due \subseteq due', happened' \in Nat, happened <= happened'
  PROVE  JobsFit'
<1> USE DEF SocketConsistent
<1>1. JobsGathered'
  BY SocketFields DEF JobsGathered
<1>2. OthersWait' /\ FirstAllowed'
  BY DEF OthersWait, FirstAllowed, LetThrough
<1> QED BY <1>1, <1>2, SocketFields DEF JobsFit

\* A job joins the queue.
LEMMA JobsAppended ==
  ASSUME SocketConsistent, NEW job \in Jobs, job.at = "queued", job.events \subseteq 1..happened,
         jobs' = Append(jobs, job), due' = due, happened' = happened
  PROVE  /\ JobsFit' /\ Len(jobs') = Len(jobs) + 1
         /\ jobs'[1].at = "queued" \/ (jobs # <<>> /\ jobs'[1] = jobs[1])
<1> USE DEF SocketConsistent
<1>1. jobs \in Seq(Jobs) /\ Len(jobs) \in Nat
  BY SocketFields
<1>2. /\ jobs' \in Seq(Jobs) /\ Len(jobs') = Len(jobs) + 1
      /\ \A i \in 1..Len(jobs) : jobs'[i] = jobs[i]
      /\ jobs'[Len(jobs) + 1] = job
  <2> DEFINE after == Append(jobs, job)
  <2>1. /\ after \in Seq(Jobs) /\ Len(after) = Len(jobs) + 1
        /\ \A i \in 1..Len(jobs) : after[i] = jobs[i] /\ after[Len(jobs) + 1] = job
    BY <1>1, AppendProperties
  <2>2. after[Len(jobs) + 1] = job
    BY <1>1, AppendProperties
  <2>3. jobs' = after
    OBVIOUS
  <2> HIDE DEF after
  <2> QED BY <2>1, <2>2, <2>3
<1>3. ASSUME NEW i \in 1..Len(jobs') PROVE i \in 1..Len(jobs) \/ i = Len(jobs) + 1
  BY <1>1, <1>2
<1>4. JobsGathered'
  BY <1>2, <1>3 DEF JobsGathered
<1>5. OthersWait'
  <2>1. ASSUME NEW i \in 2..Len(jobs') PROVE jobs'[i].at = "queued"
    <3>1. i \in 2..Len(jobs) \/ i = Len(jobs) + 1
      BY <1>1, <1>2
    <3> QED BY <1>1, <1>2, <3>1 DEF OthersWait
  <2> QED BY <2>1 DEF OthersWait
<1>6. jobs'[1].at = "queued" \/ (jobs # <<>> /\ jobs'[1] = jobs[1])
  <2>1. CASE Len(jobs) = 0
    BY <1>2, <2>1
  <2>2. CASE Len(jobs) > 0
    BY <1>1, <1>2, <2>2
  <2> QED BY <1>1, <2>1, <2>2
<1>7. FirstAllowed'
  BY <1>6 DEF FirstAllowed, LetThrough
<1> QED BY <1>2, <1>4, <1>5, <1>6, <1>7 DEF JobsFit

\* The first job is done.
LEMMA JobsShifted ==
  ASSUME SocketConsistent, jobs # <<>>, jobs' = Tail(jobs), due' = due, happened' = happened
  PROVE  /\ JobsFit' /\ Len(jobs') \in 0..MaxJobs
         /\ jobs' # <<>> => jobs'[1].at = "queued"
<1> USE DEF SocketConsistent
<1>1. jobs \in Seq(Jobs) /\ Len(jobs) \in Nat /\ Len(jobs) <= MaxJobs /\ Len(jobs) > 0
  BY SocketFields
<1>2. /\ jobs' \in Seq(Jobs) /\ Len(jobs') = Len(jobs) - 1
      /\ \A i \in 1..Len(jobs') : jobs'[i] = jobs[i + 1]
  BY <1>1
<1>3. ASSUME NEW i \in 1..Len(jobs')
      PROVE  i + 1 \in 1..Len(jobs) /\ i + 1 \in 2..Len(jobs) /\ jobs'[i].at = "queued"
  <2>1. i + 1 \in 1..Len(jobs) /\ i + 1 \in 2..Len(jobs)
    BY <1>1, <1>2
  <2> QED BY <1>2, <2>1 DEF OthersWait
<1>4. JobsGathered'
  BY <1>2, <1>3 DEF JobsGathered
<1>5. OthersWait'
  <2>1. ASSUME NEW i \in 2..Len(jobs') PROVE jobs'[i].at = "queued"
    <3>1. i \in 1..Len(jobs')
      BY <1>1, <1>2
    <3> QED BY <1>3, <3>1
  <2> QED BY <2>1 DEF OthersWait
<1>6. jobs' # <<>> => jobs'[1].at = "queued"
  <2>1. jobs' # <<>> => 1 \in 1..Len(jobs')
    BY <1>1, <1>2
  <2> QED BY <1>3, <2>1
<1>7. FirstAllowed'
  BY <1>6 DEF FirstAllowed, LetThrough
<1>8. Len(jobs') \in 0..MaxJobs
  BY <1>1, <1>2, LiveSocketAssumption
<1> QED BY <1>2, <1>4, <1>5, <1>6, <1>7, <1>8 DEF JobsFit

\* The first job goes on.
LEMMA FirstGoesOn ==
  ASSUME SocketConsistent, jobs # <<>>, NEW job \in Jobs, jobs' = [jobs EXCEPT ![1] = job],
         job.events = jobs[1].events, LetThrough(job) => job.events \subseteq due,
         due' = due, happened' = happened
  PROVE  JobsFit' /\ Len(jobs') = Len(jobs) /\ jobs'[1] = job
<1> USE DEF SocketConsistent
<1>1. jobs \in Seq(Jobs) /\ Len(jobs) \in Nat /\ 1 \in 1..Len(jobs)
  BY SocketFields
<1>2. /\ jobs' \in Seq(Jobs) /\ Len(jobs') = Len(jobs)
      /\ \A i \in 1..Len(jobs) : jobs'[i] = IF i = 1 THEN job ELSE jobs[i]
  <2> DEFINE after == [jobs EXCEPT ![1] = job]
  <2>1. /\ after \in Seq(Jobs) /\ Len(after) = Len(jobs)
        /\ \A i \in 1..Len(jobs) : after[i] = IF i = 1 THEN job ELSE jobs[i]
    BY <1>1, ExceptSeq
  <2>2. jobs' = after
    OBVIOUS
  <2> HIDE DEF after
  <2> QED BY <2>1, <2>2
<1>3. JobsGathered'
  BY <1>1, <1>2 DEF JobsGathered
<1>4. OthersWait'
  BY <1>1, <1>2 DEF OthersWait
<1>5. jobs'[1] = job
  BY <1>1, <1>2
<1>6. FirstAllowed'
  BY <1>5 DEF FirstAllowed, LetThrough
<1> QED BY <1>2, <1>3, <1>4, <1>5, <1>6 DEF JobsFit

\* A new socket's queue.
LEMMA JobsAnew ==
  ASSUME jobs' = <<>> \/ jobs' = <<Job("history", {})>>
  PROVE  JobsFit' /\ Len(jobs') \in 0..MaxJobs /\ (jobs' # <<>> => jobs'[1].at = "queued")
<1>1. Job("history", {}) \in Jobs
  BY DEF Job, Jobs
<1>2. CASE jobs' = <<>>
  <2>1. jobs' \in Seq(Jobs) /\ Len(jobs') = 0
    BY <1>2
  <2> QED BY <1>2, <2>1, LiveSocketAssumption DEF JobsFit, JobsGathered, OthersWait, FirstAllowed
<1>3. CASE jobs' = <<Job("history", {})>>
  <2>1. jobs' \in Seq(Jobs) /\ Len(jobs') = 1 /\ jobs'[1] = Job("history", {})
    BY <1>1, <1>3
  <2>2. jobs'[1].at = "queued" /\ jobs'[1].events = {}
    BY <2>1 DEF Job
  <2>3. JobsGathered' /\ OthersWait' /\ FirstAllowed'
    BY <2>1, <2>2 DEF JobsGathered, OthersWait, FirstAllowed
  <2> QED BY <2>1, <2>2, <2>3, LiveSocketAssumption DEF JobsFit
<1> QED BY <1>2, <1>3

Links == {"none", "opening", "open", "closed"}

\* Steps of the socket leave alone what is due.
LEMMA SocketKept ==
  ASSUME SocketConsistent, UNCHANGED <<permission, happened, due>>,
         link' \in Links, JobsFit', Len(jobs') \in 0..MaxJobs, batch' \subseteq 1..happened,
         timer' \in BOOLEAN, sent' \ {0} \subseteq due, ran' \in Nat,
         connections' \in 0..MaxSockets, extras' \in 0..MaxExtras,
         revoked /\ link' = "open" /\ jobs' # <<>> => jobs'[1].at = "queued"
  PROVE  SocketConsistent'
<1> USE DEF SocketConsistent
<1>1. /\ admin' = admin /\ assigned' = assigned /\ session' = session /\ changing' = changing
      /\ telling' = telling /\ revoked' = revoked /\ rights' = rights
      /\ happened' = happened /\ due' = due
  BY DEF permission
<1>2. {admin, assigned, session, changing, telling, revoked, timer}' \subseteq BOOLEAN
  BY <1>1, SocketFields
<1>3. sent' \subseteq 0..happened' /\ due' \subseteq 1..happened' /\ happened' \in 0..MaxEvents
      /\ rights' \in 0..MaxRights /\ batch' \subseteq 1..happened'
  <2>1. due \subseteq 1..happened /\ happened \in Nat /\ happened \in 0..MaxEvents /\ rights \in 0..MaxRights
    BY SocketFields DEF SocketTypeOK
  <2>2. ASSUME NEW n \in sent' PROVE n \in 0..happened
    <3>1. n = 0 \/ n \in 1..happened
      BY <2>1
    <3> QED BY <2>1, <3>1
  <2> QED BY <1>1, <2>1, <2>2
<1>4. SocketTypeOK'
  BY <1>2, <1>3 DEF SocketTypeOK, JobsFit, Links
<1>5. SessionOver' /\ AllDue' /\ RevokedWaits' /\ SentDue'
  BY <1>1 DEF SessionOver, AllDue, RevokedWaits, SentDue
<1> QED BY <1>4, <1>5 DEF JobsFit

\* What a step of the socket may leave as it is.
LEMMA SocketAsIs ==
  ASSUME SocketConsistent
  PROVE  /\ link \in Links /\ Len(jobs) \in 0..MaxJobs /\ batch \subseteq 1..happened
         /\ timer \in BOOLEAN /\ sent \ {0} \subseteq due /\ ran \in Nat
         /\ connections \in 0..MaxSockets /\ extras \in 0..MaxExtras
         /\ (jobs' = jobs /\ due' = due /\ happened' = happened => JobsFit')
<1>1. due \subseteq due /\ happened \in Nat /\ happened <= happened
  BY SocketFields DEF SocketConsistent
<1>2. jobs' = jobs /\ due' = due /\ happened' = happened => JobsFit'
  BY <1>1, JobsStay
<1>3. timer \in BOOLEAN
  BY SocketFields DEF SocketConsistent
<1> QED BY <1>2, <1>3 DEF SocketConsistent, SocketTypeOK, SentDue, Links

\* Commands, checks and failed calls stay within their bound.
LEMMA ExtraCounted ==
  SocketTypeOK /\ extras < MaxExtras /\ extras' = extras + 1 => extras' \in 0..MaxExtras
BY LiveSocketAssumption DEF SocketTypeOK

\* A socket closes.
LEMMA ClosedIs == Closed => link' \in Links /\ link' # "open" /\ batch' \subseteq 1..happened /\ timer' \in BOOLEAN
BY DEF Closed, Links

\* A job is queued, or the socket closes.
LEMMA RunStep ==
  ASSUME SocketConsistent, NEW job \in Jobs, job.at = "queued", job.events \subseteq 1..happened,
         Run(job), link = "open", UNCHANGED <<permission, traffic, connections>>,
         extras' \in 0..MaxExtras
  PROVE  SocketConsistent'
<1> USE DEF SocketConsistent
<1>1. /\ UNCHANGED <<permission, happened, due>> /\ sent' = sent /\ ran' = ran /\ connections' = connections
      /\ due' = due /\ happened' = happened
  BY DEF traffic
<1>2. CASE Closed /\ jobs' = jobs
  BY <1>1, <1>2, SocketAsIs, ClosedIs, SocketKept
<1>3. CASE /\ Len(jobs) < MaxJobs /\ jobs' = Append(jobs, job) /\ link' = link
           /\ (batch' = {} /\ timer' = FALSE) \/ (batch' = batch /\ timer' = timer)
  <2>1. /\ JobsFit' /\ Len(jobs') = Len(jobs) + 1
        /\ jobs'[1].at = "queued" \/ (jobs # <<>> /\ jobs'[1] = jobs[1])
    BY <1>1, <1>3, JobsAppended
  <2>2. Len(jobs') \in 0..MaxJobs
    BY <1>3, <2>1, SocketFields, LiveSocketAssumption
  <2>3. revoked /\ link' = "open" /\ jobs' # <<>> => jobs'[1].at = "queued"
    BY <1>3, <2>1 DEF RevokedWaits
  <2>4. batch' \subseteq 1..happened /\ timer' \in BOOLEAN
    BY <1>3, SocketAsIs
  <2> QED BY <1>1, <1>3, <2>1, <2>2, <2>3, <2>4, SocketAsIs, SocketKept
<1>4. \/ Closed /\ jobs' = jobs
      \/ /\ Len(jobs) < MaxJobs /\ jobs' = Append(jobs, job) /\ link' = link
         /\ (batch' = {} /\ timer' = FALSE) \/ (batch' = batch /\ timer' = timer)
  <2>1. ~(Len(jobs) >= MaxJobs) => Len(jobs) < MaxJobs
    BY SocketFields, LiveSocketAssumption
  <2> QED BY <2>1 DEF Run
<1> QED BY <1>2, <1>3, <1>4

\* The timer of the batch, a command and a check queue a job.
LEMMA QueueingStep == SocketConsistent /\ (BatchTimer \/ Ask) => SocketConsistent'
<1> SUFFICES ASSUME SocketConsistent, BatchTimer \/ Ask PROVE SocketConsistent'
  OBVIOUS
<1>1. batch \subseteq 1..happened /\ batch \subseteq 1..MaxEvents
  BY SocketAsIs, SocketFields, LiveSocketAssumption DEF SocketConsistent
<1>2. CASE BatchTimer
  <2>1. /\ Job("batch", batch) \in Jobs /\ Job("batch", batch).at = "queued"
        /\ Job("batch", batch).events \subseteq 1..happened
    BY <1>1 DEF Job, Jobs
  <2>2. UNCHANGED <<permission, traffic, connections>> /\ extras' \in 0..MaxExtras
    BY <1>2, SocketAsIs DEF BatchTimer, bounds
  <2> QED BY <1>2, <2>1, <2>2, RunStep DEF BatchTimer
<1>3. CASE Ask
  <2>1. PICK kind \in {"command", "check"} : Run(Job(kind, {}))
    BY <1>3 DEF Ask
  <2>2. /\ Job(kind, {}) \in Jobs /\ Job(kind, {}).at = "queued"
        /\ Job(kind, {}).events \subseteq 1..happened
    BY DEF Job, Jobs
  <2>3. UNCHANGED <<permission, traffic, connections>> /\ extras' \in 0..MaxExtras
    BY <1>3, ExtraCounted DEF Ask, SocketConsistent
  <2> QED BY <1>3, <2>1, <2>2, <2>3, RunStep DEF Ask
<1> QED BY <1>2, <1>3

\* A socket is connected and opened, or left.
LEMMA LinkStep == SocketConsistent /\ (Connect \/ Open \/ Leave) => SocketConsistent'
<1> SUFFICES ASSUME SocketConsistent, Connect \/ Open \/ Leave PROVE SocketConsistent'
  OBVIOUS
<1>1. /\ UNCHANGED <<permission, happened, due>> /\ sent' = sent /\ ran' = ran
      /\ due' = due /\ happened' = happened
  BY DEF Connect, Open, Leave, traffic
<1>2. connections' \in 0..MaxSockets
  BY LiveSocketAssumption DEF Connect, Open, Leave, bounds, SocketConsistent, SocketTypeOK
<1>3. extras' \in 0..MaxExtras
  BY SocketAsIs DEF Connect, Open, Leave, bounds
<1>4. CASE Connect \/ Open
  <2>1. jobs' = <<>> \/ jobs' = <<Job("history", {})>>
    BY <1>4 DEF Connect, Open
  <2>2. link' \in Links /\ batch' = batch /\ timer' = timer
    BY <1>4 DEF Connect, Open, Links
  <2> QED BY <1>1, <1>2, <1>3, <2>1, <2>2, JobsAnew, SocketAsIs, SocketKept
<1>5. CASE Leave
  BY <1>1, <1>2, <1>3, <1>5, ClosedIs, SocketAsIs, SocketKept DEF Leave
<1> QED BY <1>4, <1>5

\* The first job reads the session, or finds the socket or the session gone.
LEMMA ReadSessionStep == SocketConsistent /\ ReadSession => SocketConsistent'
<1> SUFFICES ASSUME SocketConsistent, ReadSession PROVE SocketConsistent'
  OBVIOUS
<1> USE DEF SocketConsistent
<1>1. /\ jobs # <<>> /\ jobs[1].at = "queued" /\ UNCHANGED <<permission, happened, due>>
      /\ sent' = sent /\ ran' = ran /\ connections' = connections /\ extras' = extras
      /\ due' = due /\ happened' = happened
  BY DEF ReadSession, traffic, bounds
<1>2. CASE jobs' = Tail(jobs) /\ (Closed \/ UNCHANGED <<link, batch, timer>>)
  <2>1. JobsFit' /\ Len(jobs') \in 0..MaxJobs /\ (jobs' # <<>> => jobs'[1].at = "queued")
    BY <1>1, <1>2, JobsShifted
  <2>2. link' \in Links /\ batch' \subseteq 1..happened /\ timer' \in BOOLEAN
    BY <1>2, ClosedIs, SocketAsIs
  <2> QED BY <1>1, <2>1, <2>2, SocketAsIs, SocketKept
<1>3. CASE /\ session /\ jobs' = [jobs EXCEPT ![1].at = "session", ![1].role = admin]
           /\ UNCHANGED <<link, batch, timer>>
  <2> DEFINE job == [[jobs[1] EXCEPT !.at = "session"] EXCEPT !.role = admin]
  <2>1. jobs \in Seq(Jobs) /\ 1 \in 1..Len(jobs) /\ admin \in BOOLEAN
    BY <1>1, SocketFields
  <2>2. jobs[1] \in Jobs /\ jobs[1].events \subseteq 1..happened
    BY <2>1 DEF JobsGathered
  <2>3. job \in Jobs /\ job.at = "session" /\ job.role = admin /\ job.events = jobs[1].events
    BY <2>1, <2>2 DEF Jobs
  <2>4. jobs' = [jobs EXCEPT ![1] = job]
    BY <1>3, <2>1
  <2> HIDE DEF job
  <2>5. LetThrough(job) => job.events \subseteq due
    BY <2>2, <2>3 DEF LetThrough, AllDue
  <2>6. JobsFit' /\ Len(jobs') = Len(jobs) /\ jobs'[1] = job
    BY <1>1, <2>3, <2>4, <2>5, FirstGoesOn
  <2>7. ~revoked
    BY <1>3 DEF SessionOver
  <2> QED BY <1>1, <1>3, <2>6, <2>7, SocketAsIs, SocketKept
<1> QED BY <1>2, <1>3 DEF ReadSession, NextJob

\* With a job past the session, an open socket was not revoked.
LEMMA ActsUnrevoked ==
  ASSUME SocketConsistent, jobs # <<>>, jobs[1].at # "queued"
  PROVE  ~(revoked /\ link = "open")
BY DEF SocketConsistent, RevokedWaits

\* The job that goes to a stage.
LEMMA StageFits ==
  ASSUME SocketConsistent, jobs # <<>>, NEW stage \in {"act", "read"}, JobGoesTo(stage),
         jobs[1].events \subseteq due, due' = due, happened' = happened
  PROVE  JobsFit' /\ Len(jobs') \in 0..MaxJobs
<1> USE DEF SocketConsistent
<1> DEFINE job == [jobs[1] EXCEPT !.at = stage]
<1>1. jobs \in Seq(Jobs) /\ 1 \in 1..Len(jobs) /\ Len(jobs) \in 0..MaxJobs
  BY SocketFields, SocketAsIs
<1>2. jobs[1] \in Jobs
  BY <1>1
<1>3. job \in Jobs /\ job.events = jobs[1].events
  BY <1>2 DEF Jobs
<1>4. jobs' = [jobs EXCEPT ![1] = job]
  BY <1>1 DEF JobGoesTo
<1> HIDE DEF job
<1>5. JobsFit' /\ Len(jobs') = Len(jobs)
  BY <1>3, <1>4, FirstGoesOn
<1> QED BY <1>1, <1>5

\* The first job is let through, or the socket closes.
LEMMA CheckAccessStep == SocketConsistent /\ CheckAccess => SocketConsistent'
<1> SUFFICES ASSUME SocketConsistent, CheckAccess PROVE SocketConsistent'
  OBVIOUS
<1> USE DEF SocketConsistent
<1>1. /\ jobs # <<>> /\ jobs[1].at = "session" /\ UNCHANGED <<permission, happened, due>>
      /\ sent' = sent /\ ran' = ran /\ connections' = connections /\ extras' = extras
      /\ due' = due /\ happened' = happened
  BY DEF CheckAccess, traffic, bounds
<1>2. CASE jobs' = Tail(jobs) /\ Closed
  BY <1>1, <1>2, JobsShifted, ClosedIs, SocketAsIs, SocketKept
<1>3. CASE /\ jobs[1].role \/ assigned
           /\ JobGoesTo("act") /\ UNCHANGED <<link, batch, timer>>
  <2>1. jobs[1].events \subseteq 1..happened
    <3>1. 1 \in 1..Len(jobs)
      BY <1>1, SocketFields
    <3> QED BY <3>1 DEF JobsGathered
  <2>2. jobs[1].events \subseteq due
    BY <1>1, <1>3, <2>1 DEF FirstAllowed, LetThrough, AllDue
  <2>3. JobsFit' /\ Len(jobs') \in 0..MaxJobs
    BY <1>1, <1>3, <2>2, StageFits
  <2>4. ~(revoked /\ link' = "open")
    BY <1>1, <1>3, ActsUnrevoked
  <2> QED BY <1>1, <1>3, <2>3, <2>4, SocketAsIs, SocketKept
<1> QED BY <1>2, <1>3 DEF CheckAccess, NextJob

\* The action of the first job, and the history that was read.
LEMMA ActStep == SocketConsistent /\ (ActOn \/ SendRead) => SocketConsistent'
<1> SUFFICES ASSUME SocketConsistent, ActOn \/ SendRead PROVE SocketConsistent'
  OBVIOUS
<1> USE DEF SocketConsistent
<1>1. /\ jobs # <<>> /\ jobs[1].at \in {"act", "read"} /\ UNCHANGED <<permission, happened, due>>
      /\ link' = link /\ batch' = batch /\ timer' = timer
      /\ connections' = connections /\ extras' = extras
      /\ due' = due /\ happened' = happened
  BY DEF ActOn, SendRead, bounds
<1>2. jobs[1].events \subseteq due
  BY <1>1 DEF FirstAllowed, LetThrough
<1>3. ~(revoked /\ link = "open")
  BY <1>1, ActsUnrevoked
<1>4. JobsFit' /\ Len(jobs') \in 0..MaxJobs
  <2>1. CASE jobs' = Tail(jobs)
    BY <1>1, <2>1, JobsShifted
  <2>2. CASE JobGoesTo("read")
    BY <1>1, <1>2, <2>2, StageFits
  <2> QED BY <2>1, <2>2 DEF ActOn, SendRead, NextJob
<1>5. sent' \ {0} \subseteq due
  <2>1. sent \ {0} \subseteq due
    BY DEF SentDue
  <2>2. sent' = sent \/ sent' = sent \union jobs[1].events \/ sent' = sent \union {0}
    BY DEF ActOn, SendRead
  <2> QED BY <1>2, <2>1, <2>2
<1>6. ran' \in Nat
  <2>1. ran \in Nat
    BY SocketAsIs
  <2> QED BY <2>1 DEF ActOn, SendRead
<1> QED BY <1>1, <1>3, <1>4, <1>5, <1>6, SocketAsIs, SocketKept

\* A job fails, which closes its socket.
LEMMA JobFailsStep == SocketConsistent /\ JobFails => SocketConsistent'
<1> SUFFICES ASSUME SocketConsistent, JobFails PROVE SocketConsistent'
  OBVIOUS
<1>1. /\ jobs # <<>> /\ jobs' = Tail(jobs) /\ UNCHANGED <<permission, happened, due>>
      /\ sent' = sent /\ ran' = ran /\ connections' = connections
      /\ due' = due /\ happened' = happened
  BY DEF JobFails, NextJob, traffic
<1>2. extras' \in 0..MaxExtras
  BY ExtraCounted DEF JobFails, SocketConsistent
<1>3. link' \in Links /\ batch' \subseteq 1..happened /\ timer' \in BOOLEAN
  BY ClosedIs, SocketAsIs DEF JobFails
<1>4. JobsFit' /\ Len(jobs') \in 0..MaxJobs /\ (jobs' # <<>> => jobs'[1].at = "queued")
  BY <1>1, JobsShifted
<1> QED BY <1>1, <1>2, <1>3, <1>4, SocketAsIs, SocketKept

\* What the user may see changes: nothing that was due is not.
LEMMA RightsStep == SocketConsistent /\ (SetAssignments \/ ChangeRole) => SocketConsistent'
<1> SUFFICES ASSUME SocketConsistent, SetAssignments \/ ChangeRole PROVE SocketConsistent'
  OBVIOUS
<1> USE DEF SocketConsistent
<1>1. /\ session' = session /\ telling' = telling /\ revoked' = revoked /\ link' = link /\ jobs' = jobs
      /\ batch' = batch /\ timer' = timer /\ sent' = sent /\ ran' = ran /\ happened' = happened
      /\ connections' = connections /\ extras' = extras
      /\ rights < MaxRights /\ rights' = rights + 1
  BY DEF SetAssignments, ChangeRole, bounds
<1>2. /\ (admin' \/ assigned') => due' = 1..happened
      /\ due' = 1..happened \/ due' = due
  BY DEF SetAssignments, ChangeRole
<1>3. due \subseteq 1..happened /\ happened \in Nat
  BY SocketFields DEF SocketTypeOK
<1>4. due \subseteq due' /\ due' \subseteq 1..happened
  BY <1>2, <1>3
<1>5. JobsFit'
  BY <1>1, <1>3, <1>4, JobsStay
<1>6. admin' \in BOOLEAN /\ assigned' \in BOOLEAN /\ changing' \in BOOLEAN
  BY SocketFields, Zenon DEF SetAssignments, ChangeRole
<1>7. {admin, assigned, session, changing, telling, revoked, timer}' \subseteq BOOLEAN
  BY <1>1, <1>6, SocketFields
<1>8. rights' \in 0..MaxRights
  BY <1>1, LiveSocketAssumption DEF SocketTypeOK
<1>9. SocketTypeOK'
  BY <1>1, <1>4, <1>5, <1>7, <1>8 DEF SocketTypeOK, JobsFit
<1>10. SessionOver' /\ AllDue' /\ RevokedWaits' /\ SentDue'
  BY <1>1, <1>2, <1>4 DEF SessionOver, AllDue, RevokedWaits, SentDue
<1> QED BY <1>5, <1>9, <1>10 DEF JobsFit

\* The session is deleted, and the listeners are told.
LEMMA RevocationStep == SocketConsistent /\ (DeleteSessions \/ TellRevoked) => SocketConsistent'
<1> SUFFICES ASSUME SocketConsistent, DeleteSessions \/ TellRevoked PROVE SocketConsistent'
  OBVIOUS
<1> USE DEF SocketConsistent
<1>1. /\ admin' = admin /\ assigned' = assigned /\ changing' = changing /\ jobs' = jobs
      /\ sent' = sent /\ ran' = ran /\ happened' = happened /\ due' = due
      /\ connections' = connections /\ extras' = extras
  BY DEF DeleteSessions, TellRevoked, traffic, bounds
<1>2. JobsFit'
  BY <1>1, SocketAsIs
<1>3. link' \in Links /\ batch' \subseteq 1..happened /\ timer' \in BOOLEAN
  BY ClosedIs, SocketAsIs DEF DeleteSessions, TellRevoked
<1>4. session' \in BOOLEAN /\ telling' \in BOOLEAN /\ revoked' \in BOOLEAN
  BY SocketFields DEF DeleteSessions, TellRevoked
<1>5. rights' \in 0..MaxRights
  <2>1. rights \in 0..MaxRights
    BY DEF SocketTypeOK
  <2>2. rights' = rights \/ (rights < MaxRights /\ rights' = rights + 1)
    BY DEF DeleteSessions, TellRevoked
  <2> QED BY <2>1, <2>2, LiveSocketAssumption
<1>6. {admin, assigned, session, changing, telling, revoked, timer}' \subseteq BOOLEAN
  BY <1>1, <1>3, <1>4, SocketFields
<1>7. SocketTypeOK'
  BY <1>1, <1>2, <1>3, <1>5, <1>6 DEF SocketTypeOK, JobsFit, Links
<1>8. SessionOver'
  BY DEF SessionOver, DeleteSessions, TellRevoked
<1>9. RevokedWaits'
  BY <1>1 DEF RevokedWaits, DeleteSessions, TellRevoked, Closed
<1>10. AllDue' /\ SentDue'
  BY <1>1 DEF AllDue, SentDue
<1> QED BY <1>2, <1>7, <1>8, <1>9, <1>10 DEF JobsFit

\* An event happens.
LEMMA HappenStep == SocketConsistent /\ Happen => SocketConsistent'
<1> SUFFICES ASSUME SocketConsistent, Happen PROVE SocketConsistent'
  OBVIOUS
<1> USE DEF SocketConsistent
<1>1. /\ happened < MaxEvents /\ happened' = happened + 1
      /\ due' = IF admin \/ assigned THEN due \union {happened'} ELSE due
      /\ UNCHANGED permission /\ link' = link /\ jobs' = jobs /\ sent' = sent /\ ran' = ran
      /\ connections' = connections /\ extras' = extras
      /\ \/ batch' = batch \union {happened'} /\ timer' = TRUE
         \/ batch' = batch /\ timer' = timer
  BY DEF Happen, bounds
<1>2. /\ admin' = admin /\ assigned' = assigned /\ session' = session /\ changing' = changing
      /\ telling' = telling /\ revoked' = revoked /\ rights' = rights
  BY <1>1 DEF permission
<1>3. /\ happened \in Nat /\ happened' \in Nat /\ happened <= happened' /\ happened' \in 0..MaxEvents
      /\ 1..happened' = (1..happened) \union {happened'} /\ 0..happened \subseteq 0..happened'
  BY <1>1, SocketFields, LiveSocketAssumption
<1>4. due \subseteq due' /\ due' \subseteq 1..happened' /\ batch' \subseteq 1..happened' /\ sent' \subseteq 0..happened'
  BY <1>1, <1>3 DEF SocketTypeOK
<1>5. JobsFit'
  BY <1>1, <1>3, <1>4, JobsStay
<1>6. {admin, assigned, session, changing, telling, revoked, timer}' \subseteq BOOLEAN
  <2>1. timer' \in BOOLEAN
    BY <1>1, SocketFields
  <2> QED BY <1>2, <2>1, SocketFields
<1>7. SocketTypeOK'
  <2>1. /\ link' \in Links /\ Len(jobs') \in 0..MaxJobs /\ ran' \in Nat /\ rights' \in 0..MaxRights
        /\ connections' \in 0..MaxSockets /\ extras' \in 0..MaxExtras
    BY <1>1, <1>2 DEF SocketTypeOK, Links
  <2> QED BY <1>3, <1>4, <1>5, <1>6, <2>1 DEF SocketTypeOK, JobsFit, Links
<1>8. AllDue'
  BY <1>1, <1>2, <1>3 DEF AllDue
<1>9. SessionOver' /\ RevokedWaits' /\ SentDue'
  BY <1>1, <1>2, <1>4 DEF SessionOver, RevokedWaits, SentDue
<1> QED BY <1>5, <1>7, <1>8, <1>9 DEF JobsFit

\* A step of the socket keeps all of it ...
LEMMA SocketStep == SocketConsistent /\ [SocketNext]_socketVars => SocketConsistent'
<1> SUFFICES ASSUME SocketConsistent, [SocketNext]_socketVars PROVE SocketConsistent'
  OBVIOUS
<1>1. CASE UNCHANGED socketVars
  BY <1>1 DEF socketVars, SocketConsistent, SocketTypeOK, SessionOver, AllDue, JobsGathered,
     OthersWait, FirstAllowed, RevokedWaits, SentDue
<1>2. CASE SetAssignments \/ ChangeRole \/ DeleteSessions \/ TellRevoked \/ Happen
  BY <1>2, RightsStep, RevocationStep, HappenStep
<1>3. CASE Connect \/ Open \/ Leave \/ BatchTimer \/ Ask
  BY <1>3, LinkStep, QueueingStep
<1>4. CASE ReadSession \/ CheckAccess \/ ActOn \/ SendRead \/ JobFails
  BY <1>4, ReadSessionStep, CheckAccessStep, ActStep, JobFailsStep
<1> QED BY <1>1, <1>2, <1>3, <1>4 DEF SocketNext

\* ... and sends and executes nothing after the listeners were told.
LEMMA NothingRevoked ==
  ASSUME SocketConsistent, [SocketNext]_socketVars
  PROVE  [sent' # sent \/ ran' # ran => ~revoked]_socketVars
<1> SUFFICES ASSUME SocketNext, sent' # sent \/ ran' # ran PROVE ~revoked
  BY DEF socketVars
<1>1. ActOn \/ SendRead
  BY DEF SocketNext, SetAssignments, ChangeRole, DeleteSessions, TellRevoked, Happen, Connect,
     Open, Leave, BatchTimer, Ask, ReadSession, CheckAccess, JobFails, traffic
<1>2. jobs # <<>> /\ jobs[1].at # "queued" /\ link = "open"
  BY <1>1 DEF ActOn, SendRead
<1> QED BY <1>2, ActsUnrevoked

\* A socket that nobody has opened.
LEMMA SocketInitConsistent == SocketInit => SocketConsistent
<1> SUFFICES ASSUME SocketInit PROVE SocketConsistent
  OBVIOUS
<1>1. /\ admin \in BOOLEAN /\ assigned \in BOOLEAN /\ session = TRUE /\ changing = FALSE
      /\ telling = FALSE /\ revoked = FALSE /\ link = "none" /\ jobs = <<>> /\ batch = {} /\ timer = FALSE
      /\ sent = {} /\ ran = 0 /\ happened = 0 /\ due = {} /\ rights = 0 /\ connections = 0 /\ extras = 0
  BY DEF SocketInit
<1>2. jobs \in Seq(Jobs) /\ Len(jobs) = 0 /\ Len(jobs) \in 0..MaxJobs
  BY <1>1, LiveSocketAssumption
<1>3. {admin, assigned, session, changing, telling, revoked, timer} \subseteq BOOLEAN
  BY <1>1
<1>4. /\ happened \in 0..MaxEvents /\ rights \in 0..MaxRights /\ connections \in 0..MaxSockets
      /\ extras \in 0..MaxExtras /\ ran \in Nat
  BY <1>1, LiveSocketAssumption
<1>5. SocketTypeOK
  <2>1. batch \subseteq 1..happened /\ sent \subseteq 0..happened /\ due \subseteq 1..happened
        /\ link \in {"none", "opening", "open", "closed"}
    BY <1>1
  <2> QED BY <1>2, <1>3, <1>4, <2>1 DEF SocketTypeOK
<1>6. SessionOver /\ JobsGathered /\ OthersWait /\ FirstAllowed /\ RevokedWaits /\ SentDue
  BY <1>1, <1>2 DEF SessionOver, JobsGathered, OthersWait, FirstAllowed, RevokedWaits, SentDue
<1>7. AllDue
  <2>1. 1..happened = {}
    BY <1>1
  <2> QED BY <1>1, <2>1 DEF AllDue
<1> QED BY <1>5, <1>6, <1>7 DEF SocketConsistent

=============================================================================
