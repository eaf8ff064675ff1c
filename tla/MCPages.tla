------------------------------- MODULE MCPages -------------------------------
\* The console and six parts of the website's pages, which share no state, in
\* one instance: every behaviour exercises one of them, which focus names, and
\* leaves the others as they began.
EXTENDS MCConsoleStream, DashboardView, DashboardOrder, AccountNote, AccountPage, AccessForm,
        UserTable

VARIABLE focus

onlyStream == svars
onlyCards == <<dashVars, orderVars, textVars>>
onlyForms == <<pageVars, formVars, tableVars>>
pagesVars == <<focus, onlyStream, onlyCards, onlyForms>>

Uploaders_ == <<1, 3, 1>>

\* Of an idle part one initial state is enough.
PagesInit ==
  /\ focus \in {"console", "card", "order", "note", "page", "form", "users"}
  /\ StreamInit /\ DashInit /\ OrderInit /\ TextInit /\ PageInit /\ FormInit /\ TableInit
  /\ focus # "note" => noteRow = 0
  /\ row.setting = 1
  /\ isAdmin = (row.users = {})
  /\ focus # "form" => isAdmin

PagesNext ==
  /\ focus' = focus
  /\ \/ focus = "console" /\ StreamNext /\ UNCHANGED <<onlyCards, onlyForms>>
     \/ focus = "card" /\ DashNext /\ UNCHANGED <<onlyStream, orderVars, textVars, onlyForms>>
     \/ focus = "order" /\ OrderNext /\ UNCHANGED <<onlyStream, dashVars, textVars, onlyForms>>
     \/ focus = "note" /\ NoteFieldNext /\ UNCHANGED <<onlyStream, dashVars, orderVars, onlyForms>>
     \/ focus = "page" /\ PageNext /\ UNCHANGED <<onlyStream, onlyCards, formVars, tableVars>>
     \/ focus = "form" /\ FormNext /\ UNCHANGED <<onlyStream, onlyCards, pageVars, tableVars>>
     \/ focus = "users" /\ TableNext /\ UNCHANGED <<onlyStream, onlyCards, pageVars, formVars>>

\* The fairness of FairStreamSpec.
PagesSpec ==
  /\ PagesInit /\ [][PagesNext]_pagesVars
  /\ WF_svars(focus = "console" /\ TimerFires /\ UNCHANGED stream)
  /\ WF_svars(focus = "console" /\ Saving /\ UNCHANGED stream)
  /\ \A f \in Flushers : WF_svars(focus = "console" /\ Flushing(f) /\ UNCHANGED stream)

\* The variables have the types the modules give them; those of an idle part
\* are as they began.
PagesTypeOK ==
  /\ focus = "console" => StreamTypeOK
  /\ focus = "card" => DashTypeOK
  /\ focus = "order" => OrderTypeOK
  /\ focus = "note" => TextTypeOK
  /\ focus = "page" => PageTypeOK
  /\ focus = "form" => FormTypeOK
  /\ focus = "users" => TableTypeOK
=============================================================================
