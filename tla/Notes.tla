-------------------------------- MODULE Notes --------------------------------
(***************************************************************************)
(* One shared note: the server that keeps it (backend/src/notes/routes.ts) *)
(* and the editors it is open in, each of another user and in a tab of its *)
(* own (frontend components/NoteEditor.tsx). An editor saves by and by,    *)
(* one request at a time, keeps what is not saved as a local draft, and    *)
(* names in each request the revision it knows, so that nobody's text is   *)
(* replaced unseen.                                                        *)
(*                                                                         *)
(* A text is a number, another one for each edit; text 0 is the note as it *)
(* was created. Bound: a request that was not served when its tab is gone  *)
(* is lost.                                                                *)
(***************************************************************************)
EXTENDS Naturals, Sequences

CONSTANTS
  Editors,        \* users that may open the note
  MaxEdits,       \* bound: edits
  MaxTurns        \* bound: lost answers, closed tabs, changed grants

ASSUME NotesAssumption == {MaxEdits, MaxTurns} \subseteq Nat

VARIABLES
  there,      \* the note has not been deleted
  content,    \* its text
  noteRevision,
  grants,     \* what each user may: "none", "read", "write"
  editor,     \* of each user: the open editor, or NoEditor
  drafts,     \* local drafts
  save,       \* the request of each editor's save, and its answer
  copying,    \* the text being copied into a new note, or NoText
  authors,    \* history: who made each edit
  turns,      \* lost answers, closed tabs, changed grants
  kept,       \* history: texts the server has accepted, or users discarded
  typed       \* history: the text each user typed last, or 0 if it was typed
              \* while a copy of the note was being made

noteVars == <<there, content, noteRevision, grants, editor, drafts, save, copying, authors, turns,
              kept, typed>>

Texts == 0..MaxEdits
NoText == MaxEdits + 1

\* origin is history: the text of the server that the draft was made from.
NoEditor == [text |-> NoText, saved |-> NoText, origin |-> NoText, revision |-> 0,
           conflict |-> FALSE, failed |-> FALSE, writable |-> FALSE]
NoDraft == [text |-> NoText, origin |-> NoText, revision |-> 0]
NoSave == [text |-> NoText, origin |-> NoText, revision |-> 0, answer |-> "none"]
SaveAnswers == {"none", "ok", "conflict", "denied"}

TextOrNone == Texts \union {NoText}
EditorStates == [text : TextOrNone, saved : TextOrNone, origin : TextOrNone, revision : Nat,
                 conflict : BOOLEAN, failed : BOOLEAN, writable : BOOLEAN]
LocalDrafts == [text : TextOrNone, origin : TextOrNone, revision : Nat]
SaveRequests == [text : TextOrNone, origin : TextOrNone, revision : Nat, answer : SaveAnswers]

NoteTypeOK ==
  /\ there \in BOOLEAN
  /\ content \in Texts /\ noteRevision \in Nat
  /\ grants \in [Editors -> {"none", "read", "write"}]
  /\ editor \in [Editors -> EditorStates]
  /\ drafts \in [Editors -> LocalDrafts]
  /\ save \in [Editors -> SaveRequests]
  /\ copying \in [Editors -> TextOrNone]
  /\ authors \in Seq(Editors) /\ Len(authors) \in Texts /\ turns \in 0..MaxTurns
  /\ kept \subseteq Texts /\ typed \in [Editors -> Texts]

NoteInit ==
  /\ there = TRUE /\ content = 0 /\ noteRevision = 0
  /\ grants = [e \in Editors |-> "write"]
  /\ editor = [e \in Editors |-> NoEditor]
  /\ drafts = [e \in Editors |-> NoDraft]
  /\ save = [e \in Editors |-> NoSave]
  /\ copying = [e \in Editors |-> NoText]
  /\ authors = <<>> /\ turns = 0
  /\ kept = {0} /\ typed = [e \in Editors |-> 0]

stored == <<there, content, noteRevision, grants>>
history == <<authors, turns, kept, typed>>
Turn == turns < MaxTurns /\ turns' = turns + 1

IsOpen(e) == editor[e] # NoEditor
Unsaved(e) == editor[e].text # editor[e].saved
Troubled(e) == editor[e].conflict \/ editor[e].failed

-----------------------------------------------------------------------------
(***************************************************************************)
(* The editor.                                                             *)
(***************************************************************************)

\* The draft was made from another revision, and has another text.
DraftConflicts(e) == drafts[e].revision # noteRevision /\ drafts[e].text # content

\* The note is loaded, and with it the draft left by an earlier editor.
Opened(e) ==
  LET writable == grants[e] = "write"
      fresh == [text |-> content, saved |-> content, origin |-> content,
                revision |-> noteRevision, conflict |-> FALSE, failed |-> FALSE,
                writable |-> writable]
  IN IF writable /\ drafts[e] # NoDraft
     THEN [fresh EXCEPT !.text = drafts[e].text,
                        !.origin = IF drafts[e].text = content THEN content ELSE drafts[e].origin,
                        !.conflict = DraftConflicts(e)]
     ELSE fresh

OpenNote(e) ==
  /\ there /\ grants[e] # "none" /\ ~IsOpen(e)
  /\ editor' = [editor EXCEPT ![e] = Opened(e)]
  /\ UNCHANGED <<stored, drafts, save, copying, history>>

\* persistDraft
Draft(e) == [text |-> editor[e].text, origin |-> editor[e].origin,
             revision |-> editor[e].revision]

\* edited: the text is kept as a draft at once.
Edit(e) ==
  LET text == Len(authors) + 1
  IN /\ IsOpen(e) /\ editor[e].writable /\ text \in Texts
     /\ authors' = Append(authors, e)
     /\ typed' = [typed EXCEPT ![e] = IF copying[e] = NoText THEN text ELSE 0]
     /\ editor' = [editor EXCEPT ![e].text = text]
     /\ drafts' = [drafts EXCEPT ![e] = [Draft(e) EXCEPT !.text = text]]
     /\ UNCHANGED <<stored, save, copying, turns, kept>>

Request(text, origin, revision) ==
  [text |-> text, origin |-> origin, revision |-> revision, answer |-> "none"]

\* save, by its timer, a lost focus, the button or a link that leaves.
Save(e) ==
  /\ IsOpen(e) /\ Unsaved(e) /\ editor[e].writable /\ ~editor[e].conflict
  /\ save[e] = NoSave
  /\ save' = [save EXCEPT ![e] = Request(editor[e].text, editor[e].origin, editor[e].revision)]
  /\ UNCHANGED <<stored, editor, drafts, copying, history>>

\* Faulty: the draft is removed with every save, whatever was typed meanwhile.
SavedDroppingDraft(e) ==
  /\ save[e].answer = "ok"
  /\ editor' = [editor EXCEPT ![e].saved = save[e].text, ![e].origin = save[e].text,
                              ![e].revision = save[e].revision + 1, ![e].failed = FALSE]
  /\ drafts' = [drafts EXCEPT ![e] = NoDraft]
  /\ save' = [save EXCEPT ![e] = NoSave]
  /\ UNCHANGED <<stored, copying, history>>

\* The editor knows the revision it has made. What was typed meanwhile is
\* saved next; if nothing was, the draft is removed.
Saved(e) ==
  /\ save[e].answer = "ok"
  /\ LET made == save[e].revision + 1
         typedOn == editor[e].text # save[e].text
     IN /\ editor' = [editor EXCEPT ![e].saved = save[e].text, ![e].origin = save[e].text,
                                    ![e].revision = made, ![e].failed = FALSE]
        /\ drafts' = [drafts EXCEPT ![e] = IF typedOn THEN [text |-> editor[e].text,
                                             origin |-> save[e].text, revision |-> made]
                                           ELSE NoDraft]
        /\ save' = [save EXCEPT ![e] = IF typedOn THEN Request(editor[e].text, save[e].text, made)
                                       ELSE NoSave]
  /\ UNCHANGED <<stored, copying, history>>

\* Another answer, or none: the text is kept as a draft. After a conflict
\* nothing is saved any more, without the right to write nothing edited.
SaveFailed(e) ==
  /\ editor' = [editor EXCEPT ![e].failed = TRUE,
                              ![e].conflict = @ \/ save[e].answer = "conflict",
                              ![e].writable = @ /\ save[e].answer # "denied"]
  /\ drafts' = [drafts EXCEPT ![e] = Draft(e)]
  /\ save' = [save EXCEPT ![e] = NoSave]

Refused(e) ==
  /\ save[e].answer \in {"conflict", "denied"}
  /\ SaveFailed(e)
  /\ UNCHANGED <<stored, copying, history>>

\* The request does not arrive, or its answer does not.
Lost(e) ==
  /\ save[e] # NoSave
  /\ Turn
  /\ editor' = [editor EXCEPT ![e].failed = TRUE]
  /\ drafts' = [drafts EXCEPT ![e] = Draft(e)]
  /\ save' = [save EXCEPT ![e] = NoSave]
  /\ UNCHANGED <<stored, copying, authors, kept, typed>>

\* The tab is gone, with the answers it waited for.
TabGone(e) ==
  /\ IsOpen(e) /\ Turn
  /\ editor' = [editor EXCEPT ![e] = NoEditor]
  /\ save' = [save EXCEPT ![e] = NoSave]
  /\ copying' = [copying EXCEPT ![e] = NoText]
  /\ UNCHANGED <<stored, drafts, authors, kept, typed>>

\* reload, offered with an error: the user gives the draft up.
Reload(e) ==
  /\ Troubled(e)
  /\ save[e] = NoSave /\ copying[e] = NoText
  /\ kept' = kept \union {editor[e].text}
  /\ drafts' = [drafts EXCEPT ![e] = NoDraft]
  /\ editor' = [editor EXCEPT ![e] = NoEditor]
  /\ UNCHANGED <<stored, save, copying, authors, turns, typed>>

\* copyDraft, offered with an error: the draft is sent as a new note.
Copy(e) ==
  /\ Troubled(e)
  /\ save[e] = NoSave /\ copying[e] = NoText
  /\ copying' = [copying EXCEPT ![e] = editor[e].text]
  /\ UNCHANGED <<stored, editor, drafts, save, history>>

\* The draft, as it is by now, is taken for saved, and the new note opened.
Copied(e) ==
  /\ copying[e] # NoText /\ save[e] = NoSave
  /\ kept' = kept \union {copying[e]}
  /\ copying' = [copying EXCEPT ![e] = NoText]
  /\ drafts' = [drafts EXCEPT ![e] = NoDraft]
  /\ editor' = [editor EXCEPT ![e] = NoEditor]
  /\ UNCHANGED <<stored, save, authors, turns, typed>>

-----------------------------------------------------------------------------
(***************************************************************************)
(* The server.                                                             *)
(***************************************************************************)

\* PATCH /api/notes/:id, one transaction: the update of the revision named by
\* a user who may write, or the reason why there was none.
Accepts(e) == there /\ grants[e] = "write" /\ save[e].revision = noteRevision

ServeSave(e) ==
  /\ save[e] # NoSave /\ save[e].answer = "none"
  /\ IF Accepts(e)
     THEN /\ content' = save[e].text /\ noteRevision' = noteRevision + 1
          /\ kept' = kept \union {save[e].text}
          /\ save' = [save EXCEPT ![e].answer = "ok"]
     ELSE /\ save' = [save EXCEPT ![e].answer =
                        IF there /\ grants[e] = "write" THEN "conflict" ELSE "denied"]
          /\ UNCHANGED <<content, noteRevision, kept>>
  /\ UNCHANGED <<there, grants, editor, drafts, copying, authors, turns, typed>>

\* PUT /api/notes/:id/access, by the owner.
Grant(e) ==
  /\ there /\ Turn
  /\ \E may \in {"none", "read", "write"} \ {grants[e]} : grants' = [grants EXCEPT ![e] = may]
  /\ UNCHANGED <<there, content, noteRevision, editor, drafts, save, copying, authors, kept, typed>>

\* DELETE /api/notes/:id, by the owner.
Delete ==
  /\ there /\ Turn
  /\ there' = FALSE
  /\ UNCHANGED <<content, noteRevision, grants, editor, drafts, save, copying, authors, kept, typed>>

NoteNext ==
  \/ \E e \in Editors :
       \/ OpenNote(e) \/ Edit(e) \/ Save(e) \/ Saved(e) \/ Refused(e) \/ Lost(e) \/ TabGone(e)
       \/ Reload(e) \/ Copy(e) \/ Copied(e) \/ ServeSave(e) \/ Grant(e)
  \/ Delete

NoteSpec == NoteInit /\ [][NoteNext]_noteVars

-----------------------------------------------------------------------------
(***************************************************************************)
(* What must hold.                                                         *)
(***************************************************************************)

\* "rejects stale or simultaneous writes instead of silently overwriting
\* another user's changes": text that another user wrote is replaced only by
\* text that was made from it. It fails: a draft restored with a conflict takes
\* the current revision with the next edit, and is then saved as if it were new.
NoBlindOverwrite ==
  [][ \A e \in Editors :
        /\ save[e].answer = "none" /\ save'[e].answer = "ok"
        /\ content # 0 /\ authors[content] # e
        => save[e].origin = content ]_noteVars

\* "Dein Text bleibt hier erhalten": what a user typed last is in the open
\* editor, in the local draft or at the server, whatever answers were refused
\* or lost and whenever the tab was closed, unless the user gave it up. What is
\* typed while copyDraft waits for its answer is not meant: it is lost.
TextKept ==
  \A e \in Editors : \/ typed[e] \in kept
                     \/ typed[e] \in {editor[e].text, drafts[e].text}
=============================================================================
