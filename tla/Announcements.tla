---------------------------- MODULE Announcements ----------------------------
(***************************************************************************)
(* The announcement the website has for its users: each release of the     *)
(* backend may have a newer one (profile/updates.ts), and every tab of a   *)
(* user shows it until the user has opened it in one of them               *)
(* (useWebsiteUpdates.ts).                                                 *)
(***************************************************************************)
EXTENDS Naturals

CONSTANTS
  UserTabs,       \* tabs of one user
  MaxReleases,    \* bound: announcements
  MaxMisses       \* bound: failed calls and reloads of a tab

ASSUME AnnouncementsAssumption == MaxReleases \in Nat \ {0} /\ MaxMisses \in Nat

VARIABLES
  released,     \* the announcement of the backend
  lastSeen,     \* the one the user has acknowledged, 0 for none
  news,         \* of each tab: the announcement it has and whether it is unread,
                \* the pendingRead and the dialog
  reading,      \* its GET: the revision is still that of its start, the answer
  marking,      \* its PATCH: the announcement, the answer
  misses,
  displayed     \* history: announcements a dialog has shown

newsVars == <<released, lastSeen, news, reading, marking, misses, displayed>>

Releases == 1..MaxReleases
OrNone == 0..MaxReleases
NoNews == [of |-> 0, unread |-> FALSE, pendingRead |-> 0, open |-> FALSE]
NoReading == [state |-> "none", fresh |-> FALSE, of |-> 0, unread |-> FALSE]
NoMarking == [state |-> "none", of |-> 0]

TabNews == [of : OrNone, unread : BOOLEAN, pendingRead : OrNone, open : BOOLEAN]
Readings == [state : {"none", "sent", "ok"}, fresh : BOOLEAN, of : OrNone, unread : BOOLEAN]
Markings == [state : {"none", "sent", "ok", "changed"}, of : OrNone]

NewsTypeOK ==
  /\ released \in Releases /\ lastSeen \in OrNone
  /\ news \in [UserTabs -> TabNews]
  /\ reading \in [UserTabs -> Readings]
  /\ marking \in [UserTabs -> Markings]
  /\ misses \in 0..MaxMisses /\ displayed \subseteq Releases

NewsInit ==
  /\ released = 1 /\ lastSeen = 0
  /\ news = [t \in UserTabs |-> NoNews]
  /\ reading = [t \in UserTabs |-> NoReading]
  /\ marking = [t \in UserTabs |-> NoMarking]
  /\ misses = 0 /\ displayed = {}

Miss == misses < MaxMisses /\ misses' = misses + 1

-----------------------------------------------------------------------------
(***************************************************************************)
(* A tab.                                                                  *)
(***************************************************************************)

CanRead(state, t) == marking[t] = NoMarking /\ state.of # 0
                     /\ (state.unread \/ state.pendingRead # 0)

\* read: the announcement counts as read at once, and the server is told.
ReadNow(t, state) ==
  IF CanRead(state, t)
  THEN /\ news' = [news EXCEPT ![t] = [state EXCEPT !.unread = FALSE, !.pendingRead = state.of]]
       /\ marking' = [marking EXCEPT ![t] = [state |-> "sent", of |-> state.of]]
       /\ reading' = [reading EXCEPT ![t].fresh = FALSE]
  ELSE /\ news' = [news EXCEPT ![t] = state]
       /\ UNCHANGED <<marking, reading>>

Shown(state) == displayed' = displayed \union (IF state.open THEN {state.of} \ {0} ELSE {})

\* refresh, at a login, a focus and by an opened dialog without data.
RefreshNews(t) ==
  /\ reading[t] = NoReading /\ marking[t] = NoMarking
  /\ reading' = [reading EXCEPT ![t] = [state |-> "sent", fresh |-> TRUE, of |-> 0, unread |-> FALSE]]
  /\ UNCHANGED <<released, lastSeen, news, marking, misses, displayed>>

\* show, close and retry.
OpenDialog(t) ==
  LET opened == [news[t] EXCEPT !.open = TRUE]
  IN /\ ~news[t].open \/ CanRead(news[t], t)
     /\ ReadNow(t, opened)
     /\ Shown(opened)
     /\ UNCHANGED <<released, lastSeen, misses>>

CloseDialog(t) ==
  /\ news[t].open
  /\ news' = [news EXCEPT ![t].open = FALSE]
  /\ UNCHANGED <<released, lastSeen, reading, marking, misses, displayed>>

\* The answer of a refresh counts unless the tab has read something since. What
\* is pending is not shown as unread again.
NewsAnswers(t) ==
  LET answer == reading[t]
      same == news[t].pendingRead = answer.of
      state == [news[t] EXCEPT !.of = answer.of, !.unread = answer.unread /\ ~same,
                               !.pendingRead = IF same THEN @ ELSE 0]
      taken == [reading EXCEPT ![t] = NoReading]
  IN /\ answer.state = "ok"
     /\ IF ~answer.fresh
        THEN reading' = taken /\ UNCHANGED <<news, marking, displayed>>
        ELSE /\ Shown(state)
             /\ reading' = taken
             /\ IF state.open /\ CanRead(state, t)
                THEN /\ news' = [news EXCEPT ![t] = [state EXCEPT !.unread = FALSE,
                                                                  !.pendingRead = state.of]]
                     /\ marking' = [marking EXCEPT ![t] = [state |-> "sent", of |-> state.of]]
                ELSE news' = [news EXCEPT ![t] = state] /\ UNCHANGED marking
     /\ UNCHANGED <<released, lastSeen, misses>>

\* The server has taken the mark, or has another announcement by now, or
\* there is no answer and the mark stays pending.
MarkAnswers(t) ==
  /\ marking[t].state \in {"ok", "changed"}
  /\ news' = [news EXCEPT ![t] = IF marking[t].state = "ok" THEN [@ EXCEPT !.pendingRead = 0]
                                 ELSE [NoNews EXCEPT !.open = news[t].open]]
  /\ marking' = [marking EXCEPT ![t] = NoMarking]
  /\ UNCHANGED <<released, lastSeen, reading, misses, displayed>>

MarkFails(t) ==
  /\ marking[t] # NoMarking /\ Miss
  /\ marking' = [marking EXCEPT ![t] = NoMarking]
  /\ UNCHANGED <<released, lastSeen, news, reading, displayed>>

NewsFails(t) ==
  /\ reading[t] # NoReading /\ Miss
  /\ reading' = [reading EXCEPT ![t] = NoReading]
  /\ UNCHANGED <<released, lastSeen, news, marking, displayed>>

\* The tab is loaded again; what it has sent was served before, or never will be.
ReloadTab(t) ==
  /\ news[t] # NoNews /\ Miss
  /\ news' = [news EXCEPT ![t] = NoNews]
  /\ reading' = [reading EXCEPT ![t] = NoReading]
  /\ marking' = [marking EXCEPT ![t] = NoMarking]
  /\ UNCHANGED <<released, lastSeen, displayed>>

-----------------------------------------------------------------------------
(***************************************************************************)
(* The server.                                                             *)
(***************************************************************************)

\* getWebsiteUpdate
ServeNews(t) ==
  /\ reading[t].state = "sent"
  /\ reading' = [reading EXCEPT ![t].state = "ok", ![t].of = released,
                                ![t].unread = lastSeen # released]
  /\ UNCHANGED <<released, lastSeen, news, marking, misses, displayed>>

\* Faulty: whatever is the announcement by now is marked.
ServeMarkAnyway(t) ==
  /\ marking[t].state = "sent"
  /\ lastSeen' = released
  /\ marking' = [marking EXCEPT ![t].state = "ok"]
  /\ UNCHANGED <<released, news, reading, misses, displayed>>

\* readWebsiteUpdate: only the announcement the backend has is marked.
ServeMark(t) ==
  /\ marking[t].state = "sent"
  /\ lastSeen' = IF marking[t].of = released THEN released ELSE lastSeen
  /\ marking' = [marking EXCEPT ![t].state = IF marking[t].of = released THEN "ok" ELSE "changed"]
  /\ UNCHANGED <<released, news, reading, misses, displayed>>

\* A new release is deployed.
Release ==
  /\ released < MaxReleases /\ released' = released + 1
  /\ UNCHANGED <<lastSeen, news, reading, marking, misses, displayed>>

NewsNext ==
  \/ \E t \in UserTabs :
       \/ RefreshNews(t) \/ OpenDialog(t) \/ CloseDialog(t) \/ NewsAnswers(t) \/ NewsFails(t)
       \/ MarkAnswers(t) \/ MarkFails(t) \/ ReloadTab(t) \/ ServeNews(t) \/ ServeMark(t)
  \/ Release

NewsSpec == NewsInit /\ [][NewsNext]_newsVars

-----------------------------------------------------------------------------
\* "A stale tab must not acknowledge a newer announcement it never displayed":
\* whichever tab marks it, and however late, an announcement that counts as
\* read was shown to the user.
DisplayedBeforeRead == lastSeen # 0 => lastSeen \in displayed
=============================================================================
