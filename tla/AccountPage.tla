------------------------------ MODULE AccountPage ------------------------------
(***************************************************************************)
(* The page of one account (pages/AccountDetailPage.tsx): the browser may  *)
(* go from one account to another without unmounting it, or leave and come *)
(* back, while its requests are under way. Their answers compare the       *)
(* account they were sent for with the one shown (accountIdRef); a change  *)
(* of account resets the rest. A command goes to the bot by                *)
(* commands/service.ts.                                                    *)
(***************************************************************************)
EXTENDS Naturals, FiniteSets

CONSTANTS
  Accounts,  \* the accounts the browser goes to
  Elsewhere, \* another page
  Commands,  \* texts of commands; 0 is no text
  Nobody,    \* no account
  MaxVisits, \* bound: navigations
  MaxAsks    \* bound: requests other than those of the navigations

ASSUME AccountPageAssumption ==
  /\ Elsewhere \notin Accounts /\ Nobody \notin Accounts /\ Elsewhere # Nobody
  /\ 0 \notin Commands
  /\ MaxVisits \in Nat /\ MaxAsks \in Nat

VARIABLES
  id,             \* the account of the page, or Elsewhere
  visit,          \* ghost: navigations so far
  mount,          \* the instance of the page: answers of a former one do nothing
  shownAccount,   \* account: the one that was loaded
  error,          \* the account and the request the error shown came from
  command,        \* the text in the input
  sendingCommand,
  commandError,   \* the account the error under the input is about
  asked,          \* requests under way
  sentTo,         \* ghost: <<account, text>> the bot has sent
  freed,          \* ghost: the Send button was freed by an earlier visit's answer
  asks            \* requests so far

shownVars == <<shownAccount, error>>
inputVars == <<command, sendingCommand, commandError, freed>>
pageVars == <<id, visit, mount, shownVars, inputVars, asked, sentTo, asks>>

NoError == [of |-> Nobody, kind |-> "none"]
RequestOf == [kind : {"load", "command", "action", "delete"}, of : Accounts, visit : 0..MaxVisits,
              mount : 0..MaxVisits, text : Commands \union {0}, at : {"sent", "executed", "recorded"}]

PageTypeOK ==
  /\ id \in Accounts \union {Elsewhere}
  /\ {visit, mount} \subseteq 0..MaxVisits
  /\ shownAccount \in Accounts \union {Nobody}
  /\ error \in [of : Accounts \union {Nobody}, kind : {"none", "load", "action"}]
  /\ command \in Commands \union {0}
  /\ {sendingCommand, freed} \subseteq BOOLEAN
  /\ commandError \in Accounts \union {Nobody}
  /\ asked \subseteq RequestOf
  /\ sentTo \subseteq Accounts \X Commands
  /\ asks \in 0..MaxAsks

PageInit ==
  /\ id = Elsewhere /\ visit = 0 /\ mount = 0
  /\ shownAccount = Nobody /\ error = NoError
  /\ command = 0 /\ sendingCommand = FALSE /\ commandError = Nobody /\ freed = FALSE
  /\ asked = {} /\ sentTo = {} /\ asks = 0

-----------------------------------------------------------------------------
AskFor(kind, a, text) == [kind |-> kind, of |-> a, visit |-> visit', mount |-> mount',
                          text |-> text, at |-> "sent"]

\* The browser goes to an account: the effect resets the page and loads it.
Opens(a) ==
  /\ a # id /\ visit < MaxVisits
  /\ visit' = visit + 1
  /\ id' = a
  /\ mount' = IF id = Elsewhere THEN visit' ELSE mount
  /\ shownAccount' = Nobody /\ error' = NoError
  /\ sendingCommand' = FALSE /\ commandError' = Nobody /\ command' = 0 /\ freed' = FALSE
  /\ asked' = asked \union {AskFor("load", a, 0)}
  /\ UNCHANGED <<sentTo, asks>>

\* It leaves for another page.
Leaves ==
  /\ id # Elsewhere
  /\ id' = Elsewhere
  /\ shownAccount' = Nobody /\ error' = NoError
  /\ sendingCommand' = FALSE /\ commandError' = Nobody /\ command' = 0 /\ freed' = FALSE
  /\ UNCHANGED <<visit, mount, asked, sentTo, asks>>

\* A request the user makes of the account shown.
Asks(kind, text) ==
  /\ id # Elsewhere /\ shownAccount = id
  /\ asks < MaxAsks
  /\ asks' = asks + 1
  /\ UNCHANGED <<id, visit, mount, sentTo>>
  /\ asked' = asked \union {AskFor(kind, id, text)}

\* onUpdated of the settings; runAction and handleCleanSpawner; handleDelete.
Requests(kind) ==
  /\ kind \in {"load", "action", "delete"}
  /\ Asks(kind, 0)
  /\ UNCHANGED <<shownVars, inputVars>>

TypesCommand(text) ==
  /\ shownAccount = id /\ text # command
  /\ command' = text
  /\ UNCHANGED <<id, visit, mount, shownVars, sendingCommand, commandError, freed, asked, sentTo,
                 asks>>

\* Faulty: an empty text is sent too.
SendsCommandAny ==
  /\ ~sendingCommand
  /\ Asks("command", command)
  /\ sendingCommand' = TRUE /\ commandError' = Nobody
  /\ UNCHANGED <<shownVars, command, freed>>

\* handleSendCommand.
SendsCommand ==
  /\ command # 0 /\ ~sendingCommand
  /\ Asks("command", command)
  /\ sendingCommand' = TRUE /\ commandError' = Nobody
  /\ UNCHANGED <<shownVars, command, freed>>

-----------------------------------------------------------------------------
Answered(r) ==
  /\ r \in asked
  /\ asked' = asked \ {r}
  /\ UNCHANGED <<visit, sentTo, asks>>

OfThisPage(r) == id # Elsewhere /\ r.mount = mount
StillShown(r) == OfThisPage(r) /\ r.of = id

\* Faulty: an answer shows whatever account the page is at.
LoadAnsweredAnyway(r, ok) ==
  /\ r.kind = "load" /\ Answered(r)
  /\ IF OfThisPage(r)
     THEN IF ok THEN shownAccount' = r.of /\ error' = NoError
          ELSE error' = [of |-> r.of, kind |-> "load"] /\ UNCHANGED shownAccount
     ELSE UNCHANGED shownVars
  /\ UNCHANGED <<id, mount, inputVars>>

\* load: its answer counts if the account is still the one shown.
LoadAnswered(r, ok) ==
  /\ r.kind = "load" /\ Answered(r)
  /\ IF StillShown(r)
     THEN IF ok THEN shownAccount' = r.of /\ error' = NoError
          ELSE error' = [of |-> r.of, kind |-> "load"] /\ UNCHANGED shownAccount
     ELSE UNCHANGED shownVars
  /\ UNCHANGED <<id, mount, inputVars>>

\* An error of an action is shown wherever the page is by now.
ActionAnswered(r, ok) ==
  /\ r.kind = "action" /\ Answered(r)
  /\ error' = IF ~ok /\ OfThisPage(r) THEN [of |-> r.of, kind |-> "action"] ELSE error
  /\ UNCHANGED <<id, mount, shownAccount, inputVars>>

\* A deleted account's answer leads to the dashboard, wherever the browser is.
DeleteAnswered(r, ok) ==
  /\ r.kind = "delete"
  /\ \/ /\ ok /\ Answered(r)
        /\ id' = Elsewhere
        /\ shownAccount' = Nobody /\ error' = NoError
        /\ sendingCommand' = FALSE /\ commandError' = Nobody /\ command' = 0 /\ freed' = FALSE
        /\ UNCHANGED mount
     \/ /\ ~ok /\ Answered(r)
        /\ error' = IF OfThisPage(r) THEN [of |-> r.of, kind |-> "action"] ELSE error
        /\ UNCHANGED <<id, mount, shownAccount, inputVars>>

\* executeCommand: the user may, the account is online, and the bot sends it.
Executed(r) ==
  /\ r \in asked /\ r.kind = "command" /\ r.at = "sent"
  /\ asked' = (asked \ {r}) \union {[r EXCEPT !.at = "executed"]}
  /\ sentTo' = sentTo \union {<<r.of, r.text>>}
  /\ UNCHANGED <<id, visit, mount, shownVars, inputVars, asks>>

\* The route records the command that was sent before it answers; what fails at
\* the record is reported as an error, although the bot has sent the command.
Recorded(r) ==
  /\ r.at = "executed"
  /\ asked' = (asked \ {r}) \union {[r EXCEPT !.at = "recorded"]}
  /\ UNCHANGED <<id, visit, mount, shownVars, inputVars, sentTo, asks>>

\* The answer to handleSendCommand: it fails when the command is refused, at the
\* record or on the way; the text that was sent goes away.
CommandAnswered(r, ok) ==
  /\ r.kind = "command" /\ (ok => r.at = "recorded")
  /\ Answered(r)
  /\ IF StillShown(r)
     THEN /\ command' = IF ok /\ command = r.text THEN 0 ELSE command
          /\ commandError' = IF ok THEN commandError ELSE r.of
          /\ sendingCommand' = FALSE
          /\ freed' = (freed \/ r.visit # visit)
     ELSE UNCHANGED inputVars
  /\ UNCHANGED <<id, mount, shownVars>>

PageNext ==
  \/ \E a \in Accounts : Opens(a)
  \/ Leaves \/ SendsCommand
  \/ \E kind \in {"load", "action", "delete"} : Requests(kind)
  \/ \E text \in Commands \union {0} : TypesCommand(text)
  \/ \E r \in asked :
       \/ Executed(r) \/ Recorded(r)
       \/ \E ok \in BOOLEAN : LoadAnswered(r, ok) \/ ActionAnswered(r, ok)
                                \/ DeleteAnswered(r, ok) \/ CommandAnswered(r, ok)

-----------------------------------------------------------------------------
(***************************************************************************)
(* What must hold.                                                         *)
(***************************************************************************)
OfThisVisit(kind) == {r \in asked : r.kind = kind /\ r.visit = visit}

\* Whatever answers come late, for whichever visit: a page that waits for no
\* answer to load shows its account or an error; what load and a command report is about
\* the account shown; one command of a visit is under way at a time, unless an
\* earlier visit to the account freed the button; and a text the user typed
\* goes away only when they left or type, or when that account's bot sent it.
\* Errors of actions are not held to this: they appear on any account's page.
AnswersStayHome ==
  /\ [](id # Elsewhere =>
          /\ OfThisVisit("load") = {} => shownAccount = id \/ error # NoError
          /\ error.kind = "load" => error.of = id
          /\ commandError \in {id, Nobody}
          /\ Cardinality(OfThisVisit("command")) <= 1 \/ freed)
  /\ [][ command # 0 /\ command' = 0 /\ id' = id /\ asked' # asked
           => <<id, command>> \in sentTo ]_pageVars
=============================================================================
