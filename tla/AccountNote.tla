----------------------------- MODULE AccountNote -----------------------------
(***************************************************************************)
(* The note on an account's card (NotesField, pages/DashboardPage.tsx): it *)
(* is saved 600 ms after the last key, without a button, by a request that *)
(* the next one does not wait for; and it follows the list of accounts,    *)
(* which the dashboard may read again at any time.                         *)
(***************************************************************************)
EXTENDS Naturals, FiniteSets

CONSTANTS
  NoteTexts,   \* what the note may say
  MaxKeys,     \* bound: changes by the user
  MaxUpsetsOf  \* bound: failed requests, lists read, and other users' notes

ASSUME AccountNoteAssumption == MaxKeys \in Nat /\ MaxUpsetsOf \in Nat

VARIABLES
  noteRow,   \* the note in the database
  initialOf, \* the note of the list shown
  value,     \* the text in the field
  savedRef,  \* the text that is known to be saved
  timerOf,   \* the timer that saves the text is armed
  patches,   \* requests under way
  listed,    \* notes of lists read and not shown yet
  astray,    \* ghost: the code lost track of the text, see NoteSaved
  keys,      \* changes by the user so far
  upsetsOf   \* upsets so far

textVars == <<noteRow, initialOf, value, savedRef, timerOf, patches, listed, astray, keys, upsetsOf>>

Patch == [n : 1..MaxKeys, text : NoteTexts, written : BOOLEAN]

TextTypeOK ==
  /\ {noteRow, initialOf, value, savedRef} \subseteq NoteTexts
  /\ {timerOf, astray} \subseteq BOOLEAN
  /\ patches \subseteq Patch
  /\ listed \subseteq NoteTexts
  /\ keys \in 0..MaxKeys
  /\ upsetsOf \in 0..MaxUpsetsOf

TextInit ==
  /\ noteRow \in NoteTexts
  /\ initialOf = noteRow /\ value = noteRow /\ savedRef = noteRow
  /\ timerOf = FALSE /\ patches = {} /\ listed = {} /\ astray = FALSE
  /\ keys = 0 /\ upsetsOf = 0

-----------------------------------------------------------------------------
Upset == upsetsOf < MaxUpsetsOf /\ upsetsOf' = upsetsOf + 1

\* The user types: the timer begins anew, unless the text is the saved one.
Types(text) ==
  /\ text # value
  /\ keys < MaxKeys
  /\ keys' = keys + 1
  /\ value' = text
  /\ timerOf' = (text # savedRef)
  /\ astray' = (astray \/ (text = savedRef /\ patches # {}))
  /\ UNCHANGED <<noteRow, initialOf, savedRef, patches, listed, upsetsOf>>

\* 600 ms later the text is sent.
SendsText ==
  /\ timerOf
  /\ timerOf' = FALSE
  /\ patches' = patches \union {[n |-> keys, text |-> value, written |-> FALSE]}
  /\ astray' = (patches # {})
  /\ UNCHANGED <<noteRow, initialOf, value, savedRef, listed, keys, upsetsOf>>

\* The backend carries a request out.
CarriedOut(p) ==
  /\ ~p.written
  /\ noteRow' = p.text
  /\ patches' = (patches \ {p}) \union {[p EXCEPT !.written = TRUE]}
  /\ UNCHANGED <<initialOf, value, savedRef, timerOf, listed, astray, keys, upsetsOf>>

\* Faulty: what is saved is taken to be what the field says by now.
AcknowledgedAsShown(p) ==
  /\ p.written
  /\ savedRef' = value
  /\ patches' = patches \ {p}
  /\ UNCHANGED <<noteRow, initialOf, value, timerOf, listed, astray, keys, upsetsOf>>

\* Its answer.
Acknowledged(p) ==
  /\ p.written
  /\ savedRef' = p.text
  /\ patches' = patches \ {p}
  /\ UNCHANGED <<noteRow, initialOf, value, timerOf, listed, astray, keys, upsetsOf>>

\* It fails, or its answer is lost: the error is ignored until the next edit.
Ignored(p) ==
  /\ Upset
  /\ patches' = patches \ {p}
  /\ astray' = TRUE
  /\ UNCHANGED <<noteRow, initialOf, value, savedRef, timerOf, listed, keys>>

\* Another user, or another tab, writes the note.
OtherWrites ==
  /\ Upset
  /\ noteRow' \in NoteTexts \ {noteRow}
  /\ astray' = TRUE
  /\ UNCHANGED <<initialOf, value, savedRef, timerOf, patches, listed, keys>>

\* The dashboard reads the list ...
ListReadAgain ==
  /\ Upset
  /\ listed' = listed \union {noteRow}
  /\ UNCHANGED <<noteRow, initialOf, value, savedRef, timerOf, patches, astray, keys>>

\* ... and shows it: a note that differs from the last list's replaces the text,
\* and with a change of the text the timer.
ListShown(text) ==
  /\ text \in listed
  /\ listed' = listed \ {text}
  /\ initialOf' = text
  /\ IF text = initialOf
     THEN UNCHANGED <<value, savedRef, timerOf, astray>>
     ELSE /\ value' = text
          /\ savedRef' = text
          /\ timerOf' = (timerOf /\ text = value)
          /\ astray' = (astray \/ text # noteRow \/ patches # {})
  /\ UNCHANGED <<noteRow, patches, keys, upsetsOf>>

NoteFieldNext ==
  \/ \E text \in NoteTexts : Types(text) \/ ListShown(text)
  \/ SendsText \/ OtherWrites \/ ListReadAgain
  \/ \E p \in patches : CarriedOut(p) \/ Acknowledged(p) \/ Ignored(p)

-----------------------------------------------------------------------------
(***************************************************************************)
(* What must hold.                                                         *)
(***************************************************************************)

\* When no timer and no request is left, the note shown is the one saved,
\* however the user typed on while a text was saved and whatever the lists
\* said. Excused, until a text is sent while no other is under way, are: two
\* requests at once, which may be carried out in either order; a failed one,
\* which is not repeated; a text typed back to the saved one while another is
\* being saved; a list from before a save; and other users' notes.
NoteSaved == ~timerOf /\ patches = {} /\ ~astray => noteRow = value
=============================================================================
