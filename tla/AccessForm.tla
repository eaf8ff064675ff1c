------------------------------- MODULE AccessForm -------------------------------
(***************************************************************************)
(* The settings of an account (components/AccountSettingsPanel.tsx) and    *)
(* the users with access to it (AccessUsernameInput.tsx). Save writes what *)
(* the form had when it was pressed by two requests, the settings (PATCH)  *)
(* and then the access (PUT, accounts/routes.ts), and has the page read    *)
(* the account again; the form itself is filled once, from the account the *)
(* page had when the panel was opened. Users are added by name: a lookup   *)
(* answers later, when the form may have changed or be gone.               *)
(*                                                                         *)
(* The user is the account's creator, or an admin.                         *)
(***************************************************************************)
EXTENDS Naturals, FiniteSets

CONSTANTS
  Me,          \* the user of the form
  Others,      \* other users
  Settings,    \* what the settings may say
  MaxEdits,    \* bound: changes and lookups by the user
  MaxSaves,    \* bound: saves
  MaxPanels,   \* bound: openings of the panel
  MaxForeign   \* bound: writes by other users

ASSUME AccessFormAssumption ==
  /\ Me \notin Others
  /\ {MaxEdits, MaxSaves, MaxPanels, MaxForeign} \subseteq Nat

AllUsers == Others \union {Me}

VARIABLES
  isAdmin,  \* the user's role
  row,      \* the account in the database: settings and access
  loaded,   \* account: as the page has it
  reads,    \* readings of it under way: asked, or answered with a row
  panel,    \* the panel shown, or 0
  form,     \* its settings and its users
  lookups,  \* lookups under way
  saving,   \* the panel's Save is disabled
  said,     \* the panel's message: "", "saved" or "error"
  submitted,\* saves under way
  pressed,  \* ghost: the form as it was at the panel's last save
  overtaken,\* ghost: another save or user wrote since
  panels,   \* panels opened so far
  edits, savesMade, foreign \* counters of the bounds

counters == <<panels, edits, savesMade, foreign>>
formVars == <<isAdmin, row, loaded, reads, panel, form, lookups, saving, said, submitted, pressed,
              overtaken, counters>>

AccountRow == [setting : Settings, users : SUBSET AllUsers]
Asked == [setting |-> 0, users |-> {}]
NotSaved == Asked

FormTypeOK ==
  /\ isAdmin \in BOOLEAN
  /\ {row, loaded} \subseteq AccountRow
  /\ reads \subseteq AccountRow \union {Asked}
  /\ panel \in 0..MaxPanels /\ panels \in 0..MaxPanels
  /\ form \in AccountRow \union {NotSaved}
  /\ lookups \subseteq [user : AllUsers, new : BOOLEAN, shown : BOOLEAN, found : BOOLEAN]
  /\ saving \in BOOLEAN
  /\ said \in {"", "saved", "error"}
  /\ submitted \subseteq [n : 1..MaxSaves, panel : 1..MaxPanels, what : AccountRow,
                      at : {"patch", "put", "allowed", "done"}]
  /\ pressed \in AccountRow \union {NotSaved}
  /\ overtaken \in BOOLEAN
  /\ edits \in 0..MaxEdits /\ savesMade \in 0..MaxSaves /\ foreign \in 0..MaxForeign

FormInit ==
  /\ isAdmin \in BOOLEAN
  /\ row \in [setting : Settings, users : {{}, {Me}}]
  /\ isAdmin \/ Me \in row.users
  /\ loaded = row /\ reads = {}
  /\ panel = 0 /\ panels = 0 /\ form = NotSaved /\ lookups = {}
  /\ saving = FALSE /\ said = "" /\ submitted = {} /\ pressed = NotSaved /\ overtaken = FALSE
  /\ edits = 0 /\ savesMade = 0 /\ foreign = 0

\* canAccessAccount, and canManageAssignments of the creator.
MayWrite == isAdmin \/ Me \in row.users

-----------------------------------------------------------------------------
\* The tab is opened: the form is filled with what the page has.
OpensPanel ==
  /\ panel = 0 /\ panels < MaxPanels
  /\ panels' = panels + 1
  /\ panel' = panels'
  /\ form' = loaded
  /\ saving' = FALSE /\ said' = "" /\ pressed' = NotSaved /\ overtaken' = FALSE
  /\ UNCHANGED <<isAdmin, row, loaded, reads, lookups, submitted, edits, savesMade, foreign>>

\* Another tab or page: what the panel had is gone, and what its lookups would
\* add to; its saves go on.
ClosesPanel ==
  /\ panel # 0
  /\ panel' = 0
  /\ form' = NotSaved /\ lookups' = {}
  /\ saving' = FALSE /\ said' = "" /\ pressed' = NotSaved /\ overtaken' = FALSE
  /\ UNCHANGED <<isAdmin, row, loaded, reads, submitted, counters>>

Edits ==
  /\ panel # 0 /\ edits < MaxEdits
  /\ edits' = edits + 1
  /\ UNCHANGED <<isAdmin, row, loaded, reads, panel, saving, said, submitted, pressed, overtaken,
                 panels, savesMade, foreign>>

\* The fields are not disabled while a save is under way.
EditsSetting(s) ==
  /\ Edits
  /\ form' = [form EXCEPT !.setting = s]
  /\ UNCHANGED lookups

\* The button beside a user: users cannot remove themselves unless they are admins.
MayRemove(u) == u \in form.users /\ (u # Me \/ isAdmin) /\ ~saving

\* removeUser.
RemoveUser(u) ==
  /\ Edits
  /\ MayRemove(u)
  /\ form' = [form EXCEPT !.users = @ \ {u}]
  /\ UNCHANGED lookups

\* add of AccessUsernameInput: one lookup at a time; its answer compares with the
\* users of now.
AsksLookup(u) ==
  /\ Edits
  /\ ~saving /\ ~\E l \in lookups : l.shown
  /\ lookups' = lookups \union {[user |-> u, new |-> u \notin form.users,
                                    shown |-> TRUE, found |-> FALSE]}
  /\ UNCHANGED form

\* The input is left for another category: its lookup goes on.
LeavesInput ==
  /\ \E l \in lookups : l.shown
  /\ lookups' = {[l EXCEPT !.shown = FALSE] : l \in lookups}
  /\ UNCHANGED <<isAdmin, row, loaded, reads, panel, form, saving, said, submitted, pressed,
                 overtaken, counters>>

\* The route of the lookup: who may still manage the account finds the user.
UserFound(l) ==
  /\ ~l.found /\ MayWrite
  /\ lookups' = (lookups \ {l}) \union {[l EXCEPT !.found = TRUE]}
  /\ UNCHANGED <<isAdmin, row, loaded, reads, panel, form, saving, said, submitted, pressed,
                 overtaken, counters>>

\* onAdd, for a user that was found: also while a save is under way.
LookupAnswered(l) ==
  /\ l.found
  /\ lookups' = lookups \ {l}
  /\ form' = IF l.new THEN [form EXCEPT !.users = @ \union {l.user}] ELSE form
  /\ UNCHANGED <<isAdmin, row, loaded, reads, panel, saving, said, submitted, pressed, overtaken,
                 counters>>

\* The name is unknown, or the request failed.
LookupFails(l) ==
  /\ lookups' = lookups \ {l}
  /\ UNCHANGED <<isAdmin, row, loaded, reads, panel, form, saving, said, submitted, pressed,
                 overtaken, counters>>

-----------------------------------------------------------------------------
\* saveSettings.
SaveSettings ==
  /\ panel # 0 /\ ~saving /\ savesMade < MaxSaves
  /\ savesMade' = savesMade + 1
  /\ saving' = TRUE /\ said' = "" /\ pressed' = form /\ overtaken' = FALSE
  /\ submitted' = submitted \union {[n |-> savesMade', panel |-> panel, what |-> form,
                                        at |-> "patch"]}
  /\ UNCHANGED <<isAdmin, row, loaded, reads, panel, form, lookups, panels, edits, foreign>>

GoesOnTo(s, at) == submitted' = (submitted \ {s}) \union {[s EXCEPT !.at = at]}

\* An earlier panel's save overtakes the one the form reports of.
Overtakes(s) == overtaken' = (overtaken \/ (panel # 0 /\ s.panel # panel))

Patched(s) ==
  /\ s.at = "patch" /\ MayWrite
  /\ row' = [row EXCEPT !.setting = s.what.setting]
  /\ GoesOnTo(s, "put")
  /\ Overtakes(s)
  /\ UNCHANGED <<isAdmin, loaded, reads, panel, form, lookups, saving, said, pressed, counters>>

\* Faulty: the answer does not wait for the access to be written.
AllowedAndDone(s) ==
  /\ s.at = "put" /\ MayWrite
  /\ GoesOnTo(s, "done")
  /\ UNCHANGED <<isAdmin, row, loaded, reads, panel, form, lookups, saving, said, pressed,
                 overtaken, counters>>

\* The route of the assignments: first the right to manage them is read ...
Allowed(s) ==
  /\ s.at = "put" /\ MayWrite
  /\ GoesOnTo(s, "allowed")
  /\ UNCHANGED <<isAdmin, row, loaded, reads, panel, form, lookups, saving, said, pressed,
                 overtaken, counters>>

\* ... then setAssignments replaces them; a creator who is no admin stays.
AssignmentsSet(s) ==
  /\ s.at = "allowed"
  /\ row' = [row EXCEPT !.users = IF isAdmin THEN s.what.users ELSE s.what.users \union {Me}]
  /\ GoesOnTo(s, "done")
  /\ Overtakes(s)
  /\ UNCHANGED <<isAdmin, loaded, reads, panel, form, lookups, saving, said, pressed, counters>>

\* Both were answered: the panel says so, and the page reads the account again.
SaveAnswered(s) ==
  /\ s.at = "done"
  /\ submitted' = submitted \ {s}
  /\ said' = IF s.panel = panel THEN "saved" ELSE said
  /\ saving' = (saving /\ s.panel # panel)
  /\ reads' = reads \union {Asked}
  /\ UNCHANGED <<isAdmin, row, loaded, panel, form, lookups, pressed, overtaken, counters>>

\* One of them is refused or lost, before or after it was carried out.
SaveFails(s) ==
  /\ submitted' = submitted \ {s}
  /\ said' = IF s.panel = panel THEN "error" ELSE said
  /\ saving' = (saving /\ s.panel # panel)
  /\ UNCHANGED <<isAdmin, row, loaded, reads, panel, form, lookups, pressed, overtaken, counters>>

-----------------------------------------------------------------------------
\* load of the page: the row is read ...
AccountRead ==
  /\ Asked \in reads
  /\ reads' = IF MayWrite THEN (reads \ {Asked}) \union {row} ELSE reads \ {Asked}
  /\ UNCHANGED <<isAdmin, row, loaded, panel, form, lookups, saving, said, submitted, pressed,
                 overtaken, counters>>

\* ... and shown; the open form keeps what it has.
AccountShown(r) ==
  /\ r # Asked
  /\ reads' = reads \ {r}
  /\ loaded' = r
  /\ UNCHANGED <<isAdmin, row, panel, form, lookups, saving, said, submitted, pressed, overtaken,
                 counters>>

\* Another admin, or another tab, writes settings or access.
OtherUserWrites ==
  /\ foreign < MaxForeign
  /\ foreign' = foreign + 1
  /\ \/ \E s \in Settings \ {row.setting} : row' = [row EXCEPT !.setting = s]
     \/ \E S \in SUBSET AllUsers \ {row.users} : row' = [row EXCEPT !.users = S]
  /\ overtaken' = (panel # 0)
  /\ UNCHANGED <<isAdmin, loaded, reads, panel, form, lookups, saving, said, submitted, pressed,
                 panels, edits, savesMade>>

FormNext ==
  \/ OpensPanel \/ ClosesPanel \/ LeavesInput \/ SaveSettings \/ AccountRead \/ OtherUserWrites
  \/ \E s \in Settings : EditsSetting(s)
  \/ \E u \in AllUsers : RemoveUser(u) \/ AsksLookup(u)
  \/ \E l \in lookups : UserFound(l) \/ LookupAnswered(l) \/ LookupFails(l)
  \/ \E s \in submitted : \/ Patched(s) \/ Allowed(s) \/ AssignmentsSet(s)
                           \/ SaveAnswered(s) \/ SaveFails(s)
  \/ \E r \in reads : AccountShown(r)

-----------------------------------------------------------------------------
(***************************************************************************)
(* What must hold.                                                         *)
(***************************************************************************)

\* When a panel says "Settings saved", the account has the settings and the
\* users the form had when Save was pressed, through both requests and with
\* every lookup, edit and closed panel in between, unless another user or the
\* save of a closed panel wrote since; and a creator who is not an admin loses
\* access only by another user's write ("must never accidentally remove their
\* own access", accounts/routes.ts).
SavedAsPressed ==
  /\ [](panel # 0 /\ said = "saved" /\ ~overtaken =>
          /\ row.setting = pressed.setting
          /\ row.users = IF isAdmin THEN pressed.users ELSE pressed.users \union {Me})
  /\ [][ ~isAdmin /\ Me \in row.users /\ foreign' = foreign => Me \in row'.users ]_formVars
=============================================================================
