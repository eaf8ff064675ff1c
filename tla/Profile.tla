------------------------------- MODULE Profile -------------------------------
(***************************************************************************)
(* The dashboard preferences in a tab of the browser: edits are shown at   *)
(* once and sent one after the other, the page is refreshed whenever the   *)
(* window gets the focus, and users sign out and in                        *)
(* (useDashboardPreferences.ts, lib/api.ts, lib/auth.tsx); and the server  *)
(* that applies the edits, also those of the user's other devices          *)
(* (profile/routes.ts, profile/service.ts).                                *)
(*                                                                         *)
(* What a user's preferences are is abstracted to the number of edits the  *)
(* server has applied to them. The import of preferences that browsers     *)
(* kept before the server did is left out, and so is another tab that      *)
(* changes the session behind the back of this one.                        *)
(***************************************************************************)
EXTENDS Naturals, Sequences

CONSTANTS
  Owners,         \* users with preferences
  Reads,          \* bound: GETs of the preferences on their way at a time
  MaxPatches,     \* bound: edits of this tab and of other devices
  MaxSessions,    \* bound: logins
  MaxFailures     \* bound: lost or failed calls, logins revoked

ASSUME ProfileAssumption == {MaxPatches, MaxSessions, MaxFailures} \subseteq Nat

VARIABLES
  applied,    \* server: edits applied to the preferences of each user
  logins,   \* server: of each login the user, and whether it is valid
  cookie,     \* browser: the session, 0 without one
  run,        \* the user's run of useDashboardPreferences, or NoRun
  patch,      \* the PATCH of the run, none when it is not saving
  reads,      \* GETs on their way
  leaving,    \* the answer to a logout is awaited
  made,       \* edits made
  failures,   \* lost or failed calls, logins revoked
  acked       \* history: edits the server had applied when it acknowledged
              \* the last one of this run

profileVars == <<applied, logins, cookie, run, patch, reads, leaving, made, failures, acked>>

\* Preferences as a server sent them: whose, and after how many edits.
Preferences == [of : Owners, at : Nat]
NoPreferences == [at |-> 0]
NoRun == [version |-> 0]
NoPatch == [state |-> "none", session |-> 0, answer |-> NoPreferences]
\* versions are those of the run's refreshes that wait for the answer.
NoRead == [state |-> "none", session |-> 0, answer |-> NoPreferences,
           shared |-> FALSE, versions |-> {}]

SessionIds == 0..MaxSessions
Answers == Preferences \union {NoPreferences}
Logins == [user : Owners, valid : BOOLEAN]
Runs == [user : Owners, confirmed : Answers, pending : Nat, version : Nat]
PatchCalls == [state : {"none", "sent", "ok", "refused", "unauthorized"}, session : SessionIds,
               answer : Answers]
ReadCalls == [state : {"none", "sent", "ok", "unauthorized"}, session : SessionIds,
              answer : Answers, shared : BOOLEAN, versions : SUBSET Nat]

ProfileTypeOK ==
  /\ applied \in [Owners -> Nat]
  /\ logins \in Seq(Logins) /\ Len(logins) \in SessionIds
  /\ cookie \in 0..Len(logins)
  /\ run \in Runs \union {NoRun}
  /\ patch \in PatchCalls
  /\ reads \in [Reads -> ReadCalls]
  /\ leaving \in BOOLEAN
  /\ made \in 0..MaxPatches /\ failures \in 0..MaxFailures /\ acked \in Nat

ProfileInit ==
  /\ applied = [u \in Owners |-> 0]
  /\ logins = <<>> /\ cookie = 0
  /\ run = NoRun /\ patch = NoPatch /\ reads = [r \in Reads |-> NoRead]
  /\ leaving = FALSE /\ made = 0 /\ failures = 0 /\ acked = 0

server == <<applied, logins>>
HasRun == run # NoRun

Failure == failures < MaxFailures /\ failures' = failures + 1

\* clearApiReadCache: no refresh joins a GET that is on its way.
Cleared == [r \in Reads |-> [reads[r] EXCEPT !.shared = FALSE]]

-----------------------------------------------------------------------------
(***************************************************************************)
(* Refreshes.                                                              *)
(***************************************************************************)

\* refresh, when the page starts or the window gets the focus: it joins the GET
\* that is on its way, or sends one.
Refresh ==
  LET joins(r) == reads[r].shared
      sends(r) == /\ reads[r] = NoRead
                  /\ \A other \in Reads : ~reads[other].shared
  IN /\ HasRun /\ cookie # 0
     /\ \E r \in Reads :
          \/ /\ joins(r)
             /\ reads' = [reads EXCEPT ![r].versions = @ \union {run.version}]
          \/ /\ sends(r)
             /\ reads' = [reads EXCEPT ![r] =
                  [state |-> "sent", session |-> cookie, answer |-> NoPreferences,
                   shared |-> TRUE, versions |-> {run.version}]]
     /\ UNCHANGED <<server, cookie, run, patch, leaving, made, failures, acked>>

\* getPreferences
ServeRead(r) ==
  LET session == logins[reads[r].session]
  IN /\ reads[r].state = "sent"
     /\ reads' = IF session.valid
                 THEN [reads EXCEPT ![r].state = "ok",
                         ![r].answer = [of |-> session.user, at |-> applied[session.user]]]
                 ELSE [reads EXCEPT ![r].state = "unauthorized"]
     /\ UNCHANGED <<server, cookie, run, patch, leaving, made, failures, acked>>

\* Faulty: a refresh that was started before a write is taken for newer.
ReadAnswersAnyhow(r) ==
  /\ reads[r].state = "ok"
  /\ reads' = [reads EXCEPT ![r] = NoRead]
  /\ run' = IF HasRun /\ reads[r].versions # {}
            THEN [run EXCEPT !.confirmed = reads[r].answer] ELSE run
  /\ UNCHANGED <<server, cookie, patch, leaving, made, failures, acked>>

\* "A completed write is newer than a refresh started before that write."
ReadAnswers(r) ==
  /\ reads[r].state = "ok"
  /\ reads' = [reads EXCEPT ![r] = NoRead]
  /\ run' = IF HasRun /\ run.version \in reads[r].versions
            THEN [run EXCEPT !.confirmed = reads[r].answer] ELSE run
  /\ UNCHANGED <<server, cookie, patch, leaving, made, failures, acked>>

ReadFails(r) ==
  /\ reads[r] # NoRead
  /\ Failure
  /\ reads' = [reads EXCEPT ![r] = NoRead]
  /\ UNCHANGED <<server, cookie, run, patch, leaving, made, acked>>

-----------------------------------------------------------------------------
(***************************************************************************)
(* Edits.                                                                  *)
(***************************************************************************)

Send == [state |-> "sent", session |-> cookie, answer |-> NoPreferences]

\* update, and the flush it starts; and retry, which flushes as well. What the
\* browser sends has the cookie it has by then.
Update ==
  /\ HasRun /\ run.confirmed # NoPreferences /\ made < MaxPatches
  /\ made' = made + 1
  /\ run' = [run EXCEPT !.pending = @ + 1]
  /\ patch' = IF patch = NoPatch THEN Send ELSE patch
  /\ reads' = IF patch = NoPatch THEN Cleared ELSE reads
  /\ UNCHANGED <<server, cookie, leaving, failures, acked>>

Retry ==
  /\ HasRun /\ run.pending > 0 /\ patch = NoPatch
  /\ patch' = Send
  /\ reads' = Cleared
  /\ UNCHANGED <<server, cookie, run, leaving, made, failures, acked>>

Valid(session) == session # 0 /\ logins[session].valid

\* updatePreferences: only a session of the owner edits. An edit that no longer
\* fits the accounts or rights of the user is refused.
PatchServed(answer) ==
  /\ patch.state = "sent"
  /\ patch' = answer
  /\ UNCHANGED <<logins, cookie, run, reads, leaving, made, acked>>

ServePatch ==
  LET owner == logins[patch.session].user
  IN /\ Valid(patch.session) /\ owner = run.user
     /\ PatchServed([patch EXCEPT !.state = "ok", !.answer = [of |-> owner, at |-> applied[owner] + 1]])
     /\ applied' = [applied EXCEPT ![owner] = @ + 1]
     /\ UNCHANGED failures

RefusePatch ==
  /\ PatchServed([patch EXCEPT !.state = "refused"])
  /\ Failure
  /\ UNCHANGED applied

RejectPatch ==
  /\ ~Valid(patch.session)
  /\ PatchServed([patch EXCEPT !.state = "unauthorized"])
  /\ UNCHANGED <<applied, failures>>

\* The edit is confirmed, and the next one sent.
PatchAnswers ==
  /\ patch.state = "ok"
  /\ run' = [run EXCEPT !.pending = @ - 1, !.confirmed = patch.answer, !.version = @ + 1]
  /\ acked' = patch.answer.at
  /\ reads' = Cleared
  /\ patch' = IF run.pending > 1 THEN Send ELSE NoPatch
  /\ UNCHANGED <<server, cookie, leaving, made, failures>>

\* A refused edit is given up; a later edit or retry sends the others.
PatchRefused ==
  /\ patch.state = "refused"
  /\ run' = [run EXCEPT !.pending = @ - 1]
  /\ reads' = Cleared
  /\ patch' = NoPatch
  /\ UNCHANGED <<server, cookie, leaving, made, failures, acked>>

\* The call or its answer is lost: the edit stays pending, and a retry may
\* apply it again.
PatchFails ==
  /\ patch # NoPatch
  /\ Failure
  /\ patch' = NoPatch
  /\ UNCHANGED <<server, cookie, run, reads, leaving, made, acked>>

\* Another device of the user.
EditElsewhere(u) ==
  /\ made < MaxPatches
  /\ made' = made + 1
  /\ applied' = [applied EXCEPT ![u] = @ + 1]
  /\ UNCHANGED <<logins, cookie, run, patch, reads, leaving, failures, acked>>

-----------------------------------------------------------------------------
(***************************************************************************)
(* Sessions.                                                               *)
(***************************************************************************)

\* setUser: the old run is cancelled, its calls are nobody's any more.
Ended ==
  /\ run' = NoRun
  /\ patch' = NoPatch
  /\ acked' = 0
Orphaned == [r \in Reads |-> [reads[r] EXCEPT !.shared = FALSE, !.versions = {}]]

\* A login answers, and its user's run starts: after an expired session also
\* before the answer to a logout.
Login(u) ==
  /\ ~HasRun /\ Len(logins) < MaxSessions
  /\ logins' = Append(logins, [user |-> u, valid |-> TRUE])
  /\ cookie' = Len(logins) + 1
  /\ run' = [user |-> u, confirmed |-> NoPreferences, pending |-> 0, version |-> 0]
  /\ reads' = Cleared
  /\ UNCHANGED <<applied, patch, leaving, made, failures, acked>>

\* logout is sent, served ...
Logout ==
  /\ HasRun /\ ~leaving
  /\ leaving' = TRUE
  /\ logins' = [logins EXCEPT ![cookie].valid = FALSE]
  /\ reads' = Cleared
  /\ UNCHANGED <<applied, cookie, run, patch, made, failures, acked>>

\* ... and answered, whoever is signed in by then.
LoggedOut ==
  /\ leaving /\ leaving' = FALSE
  /\ cookie' = 0
  /\ Ended
  /\ reads' = Orphaned
  /\ UNCHANGED <<server, made, failures>>

\* The server ends the session, as after a change of the password.
RevokeLogin ==
  /\ Valid(cookie)
  /\ Failure
  /\ logins' = [logins EXCEPT ![cookie].valid = FALSE]
  /\ UNCHANGED <<applied, cookie, run, patch, reads, leaving, made, acked>>

\* A call is not authorized: with the session the browser still has, it signs
\* the user out. "A stale request from a previous login must not sign out the
\* new user."
Expires(session) == session = cookie /\ HasRun

ReadUnauthorized(r) ==
  /\ reads[r].state = "unauthorized"
  /\ IF Expires(reads[r].session)
     THEN Ended /\ reads' = [Orphaned EXCEPT ![r] = NoRead]
     ELSE reads' = [Cleared EXCEPT ![r] = NoRead] /\ UNCHANGED <<run, patch, acked>>
  /\ UNCHANGED <<server, cookie, leaving, made, failures>>

\* Without that the edit is given up like a refused one.
PatchUnauthorized ==
  /\ patch.state = "unauthorized"
  /\ IF Expires(patch.session)
     THEN Ended /\ reads' = Orphaned
     ELSE /\ run' = [run EXCEPT !.pending = @ - 1]
          /\ reads' = Cleared /\ patch' = NoPatch /\ UNCHANGED acked
  /\ UNCHANGED <<server, cookie, leaving, made, failures>>

ProfileNext ==
  \/ Refresh \/ Update \/ Retry \/ ServePatch \/ RefusePatch \/ RejectPatch
  \/ PatchAnswers \/ PatchRefused \/ PatchUnauthorized \/ PatchFails
  \/ Logout \/ LoggedOut \/ RevokeLogin
  \/ \E r \in Reads : ServeRead(r) \/ ReadAnswers(r) \/ ReadFails(r) \/ ReadUnauthorized(r)
  \/ \E u \in Owners : Login(u) \/ EditElsewhere(u)

ProfileSpec == ProfileInit /\ [][ProfileNext]_profileVars

-----------------------------------------------------------------------------
\* What the dashboard shows is the signed-in user's own, and no answer of a
\* refresh takes back an edit the server has acknowledged: not one that was
\* asked before the edit, not one that joined a GET asked before, not one of
\* the user before.
AcknowledgedShown ==
  HasRun /\ run.confirmed # NoPreferences =>
    /\ run.confirmed.of = run.user
    /\ run.confirmed.at >= acked
=============================================================================
