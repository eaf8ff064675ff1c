------------------------------ MODULE UserTable ------------------------------
(***************************************************************************)
(* The admins' table of users (pages/UsersPage.tsx). A button sends its    *)
(* request and, once that is answered, reads the list again; a second      *)
(* button need not wait for the first. Readings of the list under way are  *)
(* shared (pendingReads, lib/api.ts) until a request that changes          *)
(* something is sent or answered. The field with a user's Minecraft name   *)
(* saves on its own, and follows the list.                                 *)
(***************************************************************************)
EXTENDS Naturals

CONSTANTS
  Named,      \* the users there are or may be created
  Field,      \* the one of them in whose field the admin types
  MaxClicks,  \* bound: requests
  MaxFetches, \* bound: readings of the list
  MaxTyped,   \* bound: changes in the field
  MaxLosses,  \* bound: requests that fail or whose answer is lost
  Gone,       \* no such user
  Unfetched   \* no list was shown yet

ASSUME UserTableAssumption ==
  /\ Field \in Named
  /\ MaxClicks \in Nat /\ MaxFetches \in Nat \ {0}
  /\ MaxTyped \in Nat /\ MaxLosses \in Nat

Clicks  == 0..MaxClicks  \* the first load is number 0
Fetches == 1..MaxFetches
NoFetch == 0

\* A user's status, and the Minecraft name: 0 is the first, n the n-th typed.
Person == [active : BOOLEAN, name : 0..MaxTyped]
Table  == [Named -> Person \union {Gone}]

\* No user and no list are told from one.
ASSUME NobodyAssumption == Gone \notin Person /\ Unfetched \notin Table

VARIABLES
  userRows,  \* the users in the database
  users,     \* the list shown, or Unfetched
  clicks,    \* what each click waits for, in order
  clicked,   \* clicks so far
  fetches,   \* the readings of the list, in order
  shared,    \* the reading new readers join (pendingReads), or NoFetch
  field,     \* the name in the field
  typed,     \* ghost: the name the admin typed last, or saw first
  known,     \* ghost: the changes the list shown is said to hold
  changes,   \* changes of the database so far
  outdated,  \* ghost: an older list, or row, was shown after a newer one
  losses     \* failures so far

tableVars == <<userRows, users, clicks, clicked, fetches, shared, field, typed, known, changes,
               outdated, losses>>

\* A click: sent, carried out (after "since" changes), answered, reading the
\* list, over.
Click == [does : {"load", "create", "toggle", "remove", "name", "restart"}, of : Named,
          to : Person, at : {"unused", "sent", "done", "answered", "reading", "over"},
          since : Clicks, fetch : {NoFetch} \union Fetches]

Fetch == [at : {"unused", "asked", "read", "over"}, rows : Table, holds : Clicks]

TableTypeOK ==
  /\ userRows \in Table
  /\ users \in Table \union {Unfetched}
  /\ clicks \in [Clicks -> Click]
  /\ clicked \in Clicks
  /\ fetches \in [Fetches -> Fetch]
  /\ shared \in {NoFetch} \union Fetches
  /\ {field, typed} \subseteq 0..MaxTyped
  /\ {known, changes} \subseteq Clicks
  /\ outdated \in BOOLEAN
  /\ losses \in 0..MaxLosses

\* The page is opened and reads the list.
TableInit ==
  /\ userRows = [u \in Named |-> IF u = Field THEN [active |-> TRUE, name |-> 0] ELSE Gone]
  /\ users = Unfetched
  /\ clicks = [c \in Clicks |->
       [does |-> "load", of |-> Field, to |-> [active |-> TRUE, name |-> 0],
        at |-> IF c = 0 THEN "reading" ELSE "unused", since |-> 0,
        fetch |-> IF c = 0 THEN 1 ELSE NoFetch]]
  /\ clicked = 0
  /\ fetches = [f \in Fetches |->
       [at |-> IF f = 1 THEN "asked" ELSE "unused", rows |-> userRows, holds |-> 0]]
  /\ shared = 1
  /\ field = 0 /\ typed = 0 /\ known = 0 /\ changes = 0 /\ outdated = FALSE /\ losses = 0

-----------------------------------------------------------------------------
UnderWay(does, u) ==
  \E c \in Clicks : clicks[c].does = does /\ clicks[c].of = u
                    /\ clicks[c].at \notin {"unused", "over"}

Shows(u) == users # Unfetched /\ users[u] # Gone

\* A request that changes something is sent: readings under way are no longer
\* shared (clearApiReadCache).
Sends(does, u, person) ==
  /\ clicked < MaxClicks
  /\ clicked' = clicked + 1
  /\ clicks' = [clicks EXCEPT ![clicked'] =
       [does |-> does, of |-> u, to |-> person, at |-> "sent", since |-> 0, fetch |-> NoFetch]]
  /\ shared' = NoFetch
  /\ UNCHANGED <<userRows, users, fetches, field, typed, known, changes, outdated, losses>>

\* The form, for one user at a time. A user created is none of those before.
CreateUser(u) ==
  /\ \A other \in Named : ~UnderWay("create", other)
  /\ u # Field /\ \A c \in Clicks : clicks[c].does = "create" => clicks[c].of # u
  /\ Sends("create", u, [active |-> TRUE, name |-> 0])

\* The button says what the list shows the opposite of.
ToggleStatus(u) ==
  /\ Shows(u)
  /\ Sends("toggle", u, [users[u] EXCEPT !.active = ~@])

DeleteUser(u) ==
  /\ Shows(u)
  /\ Sends("remove", u, users[u])

RestartAll ==
  /\ \A u \in Named : ~UnderWay("restart", u)
  /\ Sends("restart", Field, [active |-> TRUE, name |-> 0])

SaveName ==
  /\ Shows(Field)
  /\ field # users[Field].name
  /\ ~UnderWay("name", Field)
  /\ Sends("name", Field, [users[Field] EXCEPT !.name = field])

\* The admin types into the field.
TypesName ==
  /\ Shows(Field)
  /\ ~UnderWay("name", Field)
  /\ typed < MaxTyped
  /\ typed' = typed + 1
  /\ field' = typed'
  /\ UNCHANGED <<userRows, users, clicks, clicked, fetches, shared, known, changes, outdated,
                 losses>>

-----------------------------------------------------------------------------
\* What a request makes of the rows. A change writes only what it names.
Altered(k) ==
  CASE k.does = "create"  -> [userRows EXCEPT ![k.of] = k.to]
    [] k.does = "remove"  -> [userRows EXCEPT ![k.of] = Gone]
    [] k.does = "toggle"  -> [userRows EXCEPT ![k.of].active = k.to.active]
    [] k.does = "name"    -> [userRows EXCEPT ![k.of].name = k.to.name]
    [] k.does = "restart" -> userRows

\* The backend carries a request out, and answers a name with the new row.
TableChanged(c) ==
  /\ clicks[c].at = "sent"
  /\ clicks[c].does \in {"toggle", "remove", "name"} => userRows[clicks[c].of] # Gone
  /\ userRows' = Altered(clicks[c])
  /\ changes' = changes + 1
  /\ clicks' = [clicks EXCEPT ![c].at = "done", ![c].since = changes',
                  ![c].to = IF clicks[c].does = "name" THEN userRows'[clicks[c].of] ELSE @]
  /\ UNCHANGED <<users, clicked, fetches, shared, field, typed, known, outdated, losses>>

\* The answer is an error: the user is gone, the last admin, a name taken, or the
\* audit log fails, after the change. It is shown and the list left alone.
Refused(c) ==
  /\ clicks[c].at \in {"sent", "done"}
  /\ IF clicks[c].at = "sent" /\ userRows[clicks[c].of] = Gone
     THEN UNCHANGED losses
     ELSE losses < MaxLosses /\ losses' = losses + 1
  /\ clicks' = [clicks EXCEPT ![c].at = "over"]
  /\ shared' = NoFetch
  /\ UNCHANGED <<userRows, users, clicked, fetches, field, typed, known, changes, outdated>>

\* The answer is lost or takes too long.
AnswerLost(c) ==
  /\ clicks[c].at \in {"sent", "done"}
  /\ losses < MaxLosses
  /\ losses' = losses + 1
  /\ clicks' = [clicks EXCEPT ![c].at = "over"]
  /\ UNCHANGED <<userRows, users, clicked, fetches, shared, field, typed, known, changes, outdated>>

-----------------------------------------------------------------------------
\* The list shown becomes another one: a user who appears, or whose name is
\* another than before, gets a field that says so (the effect of
\* MinecraftUsernameField).
ListBecomes(list) ==
  /\ users' = list
  /\ IF list[Field] = Gone \/ (Shows(Field) /\ users[Field].name = list[Field].name)
     THEN UNCHANGED <<field, typed>>
     ELSE /\ field' = list[Field].name
          /\ typed' = IF Shows(Field) THEN typed ELSE list[Field].name

\* Faulty: readings begun before the answer may still be joined.
RequestAnsweredSharingOn(c) ==
  /\ clicks[c].at = "done"
  /\ IF clicks[c].does = "name" /\ Shows(clicks[c].of)
     THEN /\ ListBecomes([users EXCEPT ![clicks[c].of] = clicks[c].to])
          /\ known' = IF clicks[c].since > known THEN clicks[c].since ELSE known
          /\ outdated' = (outdated \/ clicks[c].since < known)
     ELSE UNCHANGED <<users, field, typed, known, outdated>>
  /\ clicks' = [clicks EXCEPT ![c].at =
                  IF clicks[c].does \in {"name", "restart"} THEN "over" ELSE "answered"]
  /\ UNCHANGED <<userRows, clicked, fetches, shared, changes, losses>>

\* The answer: readings are no longer shared. A saved name is put into the list
\* (onSaved); the other buttons go on to read it.
RequestAnswered(c) ==
  /\ clicks[c].at = "done"
  /\ IF clicks[c].does = "name" /\ Shows(clicks[c].of)
     THEN /\ ListBecomes([users EXCEPT ![clicks[c].of] = clicks[c].to])
          /\ known' = IF clicks[c].since > known THEN clicks[c].since ELSE known
          /\ outdated' = (outdated \/ clicks[c].since < known)
     ELSE UNCHANGED <<users, field, typed, known, outdated>>
  /\ clicks' = [clicks EXCEPT ![c].at =
                  IF clicks[c].does \in {"name", "restart"} THEN "over" ELSE "answered"]
  /\ shared' = NoFetch
  /\ UNCHANGED <<userRows, clicked, fetches, changes, losses>>

\* load: it joins the reading under way or begins one.
ReadsList(c) ==
  /\ clicks[c].at = "answered"
  /\ \E f \in Fetches :
       /\ IF shared # NoFetch
          THEN f = shared /\ UNCHANGED fetches
          ELSE /\ fetches[f].at = "unused"
               /\ \A e \in 1..(f - 1) : fetches[e].at # "unused"
               /\ fetches' = [fetches EXCEPT ![f].at = "asked"]
       /\ shared' = f
       /\ clicks' = [clicks EXCEPT ![c].at = "reading", ![c].fetch = f]
  /\ UNCHANGED <<userRows, users, clicked, field, typed, known, changes, outdated, losses>>

\* The backend reads the rows.
TableRead(f) ==
  /\ fetches[f].at = "asked"
  /\ fetches' = [fetches EXCEPT ![f] = [at |-> "read", rows |-> userRows, holds |-> changes]]
  /\ UNCHANGED <<userRows, users, clicks, clicked, shared, field, typed, known, changes, outdated,
                 losses>>

\* The reading is over for all who joined it.
FetchOver(f) ==
  /\ fetches' = [fetches EXCEPT ![f].at = "over"]
  /\ clicks' = [c \in Clicks |-> IF clicks[c].at = "reading" /\ clicks[c].fetch = f
                                 THEN [clicks[c] EXCEPT !.at = "over"] ELSE clicks[c]]
  /\ shared' = IF shared = f THEN NoFetch ELSE shared

TableArrives(f) ==
  /\ fetches[f].at = "read"
  /\ FetchOver(f)
  /\ ListBecomes(fetches[f].rows)
  /\ known' = fetches[f].holds
  /\ outdated' = (outdated \/ fetches[f].holds < known)
  /\ UNCHANGED <<userRows, clicked, changes, losses>>

TableLost(f) ==
  /\ fetches[f].at \in {"asked", "read"}
  /\ losses < MaxLosses
  /\ losses' = losses + 1
  /\ FetchOver(f)
  /\ UNCHANGED <<userRows, users, clicked, field, typed, known, changes, outdated>>

TableNext ==
  \/ \E u \in Named : CreateUser(u) \/ ToggleStatus(u) \/ DeleteUser(u)
  \/ RestartAll \/ SaveName \/ TypesName
  \/ \E c \in Clicks : TableChanged(c) \/ Refused(c) \/ AnswerLost(c) \/ RequestAnswered(c) \/ ReadsList(c)
  \/ \E f \in Fetches : TableRead(f) \/ TableArrives(f) \/ TableLost(f)

-----------------------------------------------------------------------------
(***************************************************************************)
(* What must hold.                                                         *)
(***************************************************************************)

\* The list a button reads after its request holds what the request changed,
\* although readings are shared.
ReloadsAfterwards ==
  \A c \in Clicks : clicks[c].at = "reading" /\ fetches[clicks[c].fetch].at = "read" =>
    fetches[clicks[c].fetch].holds >= clicks[c].since

\* When nothing is under way the list shown is the one in the database. Excused
\* are failed requests, and an older list, or the row that answers a saved name,
\* that arrives after a newer list.
TableTrue ==
  (\A c \in Clicks : clicks[c].at \in {"unused", "over"}) /\ losses = 0 /\ ~outdated =>
    users = userRows

\* With the same excuses, lists and answers that come while the admin types
\* leave the name in the field alone.
DraftKept == Shows(Field) /\ losses = 0 /\ ~outdated => field = typed

\* All three at any time.
UsersAsShown == ReloadsAfterwards /\ TableTrue /\ DraftKept
=============================================================================
