--------------------------- MODULE EditingProofs ----------------------------
(***************************************************************************)
(* Proofs about what a browser edits while it is stored: the notes of an   *)
(* account (Notes) and the preferences (Profile), for any number of users, *)
(* edits, calls and failures.                                              *)
(***************************************************************************)
EXTENDS Notes, Profile, SequenceTheorems, TLAPS

-----------------------------------------------------------------------------
(***************************************************************************)
(* The notes: an edit is in the editor, in a draft of the browser, under way *)
(* or stored.                                                              *)
(***************************************************************************)

\* An editor opened without the right to write shows the note, not the draft.
Blocked(ed, sv, cp) ==
  ~ed.writable /\ ~ed.conflict /\ ~ed.failed /\ sv = NoSave /\ cp = NoText

\* Of one user: the editor, the draft, the save and the copy under way, the
\* text typed last and the texts that need no keeping any more.
Holds(ed, dr, sv, cp, ty, kp) ==
  /\ ed # NoEditor => ed.text \in Texts
  /\ dr # NoDraft => dr.text \in Texts
  /\ sv # NoSave => sv.text \in Texts
  /\ ed = NoEditor => sv = NoSave /\ cp = NoText
  /\ sv.answer = "ok" => sv.text \in kp
  /\ ty \notin kp => dr.text = ty
  /\ ty \notin kp /\ ed # NoEditor => ed.text = ty \/ Blocked(ed, sv, cp)
  /\ cp # NoText => ty = cp \/ ty \in kp

\* The types of what belongs to one user.
Fits(ed, dr, sv, cp, ty) ==
  /\ ed \in EditorStates /\ dr \in LocalDrafts /\ sv \in SaveRequests
  /\ cp \in TextOrNone /\ ty \in Texts

\* The rest of the types: what does not belong to one user.
RestTypeOK ==
  /\ there \in BOOLEAN /\ content \in Texts /\ noteRevision \in Nat
  /\ grants \in [Editors -> {"none", "read", "write"}]
  /\ authors \in Seq(Editors) /\ Len(authors) \in Texts /\ turns \in 0..MaxTurns
  /\ kept \subseteq Texts /\ 0 \in kept

NothingLost == \A e \in Editors : Holds(editor[e], drafts[e], save[e], copying[e], typed[e], kept)
NotesConsistent == NoteTypeOK /\ NothingLost /\ 0 \in kept

\* The invariant is what the runs check and more.
LEMMA ConsistentTextKept == NotesConsistent => TextKept
BY DEF NotesConsistent, NothingLost, Holds, TextKept

\* What there is when there is nothing.
LEMMA NothingHas ==
  /\ NoEditor \in EditorStates /\ NoDraft \in LocalDrafts /\ NoSave \in SaveRequests
  /\ NoText \notin Texts /\ NoText \in TextOrNone /\ 0 \in Texts /\ Texts \subseteq Nat
  /\ NoEditor.text = NoText /\ NoDraft.text = NoText /\ NoSave.text = NoText
  /\ NoSave.answer = "none"
  /\ ~NoEditor.conflict /\ ~NoEditor.failed /\ ~NoEditor.writable
<1>1. NoText \notin Texts /\ NoText \in TextOrNone /\ 0 \in Texts /\ Texts \subseteq Nat
  BY NotesAssumption DEF NoText, TextOrNone, Texts
<1> QED BY <1>1 DEF NoEditor, NoDraft, NoSave, EditorStates, LocalDrafts, SaveRequests, SaveAnswers

\* What one user has.
LEMMA OfOne ==
  ASSUME NotesConsistent, NEW e \in Editors
  PROVE  /\ editor[e] \in EditorStates /\ drafts[e] \in LocalDrafts /\ save[e] \in SaveRequests
         /\ copying[e] \in TextOrNone /\ typed[e] \in Texts
         /\ Holds(editor[e], drafts[e], save[e], copying[e], typed[e], kept)
BY DEF NotesConsistent, NoteTypeOK, NothingLost

\* A note that nobody has opened.
LEMMA NoteInitConsistent == NoteInit => NotesConsistent
<1> SUFFICES ASSUME NoteInit PROVE NotesConsistent
  OBVIOUS
<1>1. /\ editor \in [Editors -> EditorStates] /\ drafts \in [Editors -> LocalDrafts]
      /\ save \in [Editors -> SaveRequests] /\ copying \in [Editors -> TextOrNone]
      /\ typed \in [Editors -> Texts]
  BY NothingHas DEF NoteInit
<1>2. /\ there = TRUE /\ content = 0 /\ noteRevision = 0 /\ authors = <<>> /\ turns = 0
      /\ kept = {0} /\ grants \in [Editors -> {"none", "read", "write"}]
  BY DEF NoteInit
<1>3. authors \in Seq(Editors) /\ Len(authors) = 0
  BY <1>2
<1>4. NoteTypeOK
  BY <1>1, <1>2, <1>3, NothingHas, NotesAssumption DEF NoteTypeOK
<1>5. NothingLost
  BY <1>2, NothingHas DEF NoteInit, NothingLost, Holds
<1> QED BY <1>2, <1>4, <1>5 DEF NotesConsistent

\* A step gives user e another editor, draft, save, copy or text.
Becomes(e, ed, dr, sv, cp, ty) ==
  /\ editor' = [editor EXCEPT ![e] = ed] /\ drafts' = [drafts EXCEPT ![e] = dr]
  /\ save' = [save EXCEPT ![e] = sv] /\ copying' = [copying EXCEPT ![e] = cp]
  /\ typed' = [typed EXCEPT ![e] = ty]
  /\ kept \subseteq kept'

\* A step of one user leaves those of the others alone.
LEMMA OneChanges ==
  ASSUME NotesConsistent, NEW e \in Editors,
         NEW ed, NEW dr, NEW sv, NEW cp, NEW ty,
         Fits(ed, dr, sv, cp, ty), Becomes(e, ed, dr, sv, cp, ty), RestTypeOK',
         Holds(ed, dr, sv, cp, ty, kept')
  PROVE  NotesConsistent'
<1> USE DEF NotesConsistent, Becomes, Fits
<1>1. NoteTypeOK' /\ 0 \in kept'
  BY DEF NoteTypeOK, RestTypeOK
<1>2. \A o \in Editors :
        Holds(editor'[o], drafts'[o], save'[o], copying'[o], typed'[o], kept')
  <2> TAKE o \in Editors
  <2>1. CASE o = e
    BY <2>1 DEF NoteTypeOK
  <2>2. CASE o # e
    <3>1. /\ editor'[o] = editor[o] /\ drafts'[o] = drafts[o] /\ save'[o] = save[o]
          /\ copying'[o] = copying[o] /\ typed'[o] = typed[o]
      BY <2>2 DEF NoteTypeOK
    <3>2. Holds(editor[o], drafts[o], save[o], copying[o], typed[o], kept)
      BY DEF NothingLost
    <3> QED BY <3>1, <3>2 DEF Holds
  <2> QED BY <2>1, <2>2
<1>3. NothingLost'
  BY <1>2 DEF NothingLost, Holds, Blocked, NoEditor, NoDraft, NoSave
<1> QED BY <1>1, <1>3

\* What a step leaves as it is.
LEMMA StaysAs ==
  ASSUME NotesConsistent, NEW e \in Editors
  PROVE  /\ editor = [editor EXCEPT ![e] = editor[e]] /\ drafts = [drafts EXCEPT ![e] = drafts[e]]
         /\ save = [save EXCEPT ![e] = save[e]] /\ copying = [copying EXCEPT ![e] = copying[e]]
         /\ typed = [typed EXCEPT ![e] = typed[e]]
         /\ RestTypeOK
BY DEF NotesConsistent, NoteTypeOK, RestTypeOK

\* A loaded note shows the draft there is, to whom may write.
LEMMA OpenNoteStep ==
  ASSUME NotesConsistent, NEW e \in Editors, OpenNote(e)
  PROVE  NotesConsistent'
<1>1. /\ editor[e] \in EditorStates /\ drafts[e] \in LocalDrafts /\ save[e] \in SaveRequests
      /\ copying[e] \in TextOrNone /\ typed[e] \in Texts
      /\ Holds(editor[e], drafts[e], save[e], copying[e], typed[e], kept)
  BY OfOne
<1>2. PICK writable \in BOOLEAN : writable = (grants[e] = "write")
  BY Zenon
<1> DEFINE fresh == [text |-> content, saved |-> content, origin |-> content,
                     revision |-> noteRevision, conflict |-> FALSE, failed |-> FALSE,
                     writable |-> writable]
<1>3. content \in Texts /\ noteRevision \in Nat
  BY StaysAs DEF RestTypeOK
<1>4. fresh \in EditorStates
  BY <1>3 DEF EditorStates, TextOrNone
<1>5. save[e] = NoSave /\ copying[e] = NoText
  BY <1>1 DEF OpenNote, IsOpen, Holds
<1>6. \E ed \in EditorStates :
        /\ Opened(e) = ed
        /\ Holds(ed, drafts[e], save[e], copying[e], typed[e], kept)
  <2>1. CASE writable /\ drafts[e] # NoDraft
    <3>1. drafts[e].text \in Texts
      BY <1>1, <2>1 DEF Holds
    <3>2. PICK origin \in TextOrNone :
            origin = IF drafts[e].text = content THEN content ELSE drafts[e].origin
      BY <1>1, <1>3 DEF LocalDrafts, TextOrNone
    <3>3. PICK conflict \in BOOLEAN : conflict = DraftConflicts(e)
      BY Zenon DEF DraftConflicts
    <3> DEFINE ed == [[[fresh EXCEPT !.text = drafts[e].text] EXCEPT !.origin = origin]
                        EXCEPT !.conflict = conflict]
    <3>4. Opened(e) = ed
      BY <1>2, <2>1, <3>2, <3>3 DEF Opened
    <3>5. ed \in EditorStates /\ ed.text = drafts[e].text
      BY <1>4, <3>1 DEF EditorStates, TextOrNone
    <3> HIDE DEF ed
    <3>6. Holds(ed, drafts[e], save[e], copying[e], typed[e], kept)
      BY <1>1, <1>5, <3>1, <3>5 DEF Holds
    <3> QED BY <3>4, <3>5, <3>6
  <2>2. CASE writable /\ drafts[e] = NoDraft
    <3>1. Opened(e) = fresh
      BY <1>2, <2>2 DEF Opened
    <3>2. fresh.text = content
      OBVIOUS
    <3>3. typed[e] \in kept
      BY <1>1, <2>2, NothingHas DEF Holds
    <3> HIDE DEF fresh
    <3>4. Holds(fresh, drafts[e], save[e], copying[e], typed[e], kept)
      BY <1>1, <1>3, <1>5, <3>2, <3>3 DEF Holds
    <3> QED BY <1>4, <3>1, <3>4
  <2>3. CASE ~writable
    <3>1. Opened(e) = fresh
      BY <1>2, <2>3 DEF Opened
    <3>2. fresh.text = content /\ ~fresh.writable /\ ~fresh.conflict /\ ~fresh.failed
      BY <2>3
    <3> HIDE DEF fresh
    <3>3. Holds(fresh, drafts[e], save[e], copying[e], typed[e], kept)
      BY <1>1, <1>3, <1>5, <3>2 DEF Holds, Blocked
    <3> QED BY <1>4, <3>1, <3>3
  <2> QED BY <2>1, <2>2, <2>3
<1>7. PICK ed \in EditorStates :
        /\ Opened(e) = ed
        /\ Holds(ed, drafts[e], save[e], copying[e], typed[e], kept)
  BY <1>6
<1>8. /\ editor' = [editor EXCEPT ![e] = ed]
      /\ UNCHANGED <<there, content, noteRevision, grants, drafts, save, copying, authors, turns,
                     kept, typed>>
  BY <1>7 DEF OpenNote, stored, history
<1>9. RestTypeOK' /\ kept' = kept
  BY <1>8, StaysAs DEF RestTypeOK
<1> HIDE DEF fresh
<1>10. Becomes(e, ed, drafts[e], save[e], copying[e], typed[e])
  BY <1>8, StaysAs DEF Becomes
<1>11. Fits(ed, drafts[e], save[e], copying[e], typed[e])
  BY <1>1, <1>7 DEF Fits
<1> QED BY <1>7, <1>9, <1>10, <1>11, OneChanges

\* What is typed is the editor's text and its draft.
LEMMA EditStep ==
  ASSUME NotesConsistent, NEW e \in Editors, Edit(e)
  PROVE  NotesConsistent'
<1>1. /\ editor[e] \in EditorStates /\ drafts[e] \in LocalDrafts /\ save[e] \in SaveRequests
      /\ copying[e] \in TextOrNone /\ typed[e] \in Texts
      /\ Holds(editor[e], drafts[e], save[e], copying[e], typed[e], kept)
  BY OfOne
<1>2. PICK text \in Texts : text = Len(authors) + 1
  BY DEF Edit
<1>3. PICK ty \in Texts : ty = IF copying[e] = NoText THEN text ELSE 0
  BY NothingHas
<1> DEFINE ed == [editor[e] EXCEPT !.text = text]
           dr == [text |-> text, origin |-> editor[e].origin, revision |-> editor[e].revision]
<1>4. /\ editor' = [editor EXCEPT ![e] = ed] /\ drafts' = [drafts EXCEPT ![e] = dr]
      /\ typed' = [typed EXCEPT ![e] = ty] /\ authors' = Append(authors, e)
      /\ UNCHANGED <<there, content, noteRevision, grants, save, copying, turns, kept>>
  <2>1. [Draft(e) EXCEPT !.text = text] = dr
    BY DEF Draft
  <2>2. /\ editor' = [editor EXCEPT ![e].text = text] /\ authors' = Append(authors, e)
        /\ drafts' = [drafts EXCEPT ![e] = [Draft(e) EXCEPT !.text = text]]
        /\ typed' = [typed EXCEPT ![e] = IF copying[e] = NoText THEN text ELSE 0]
        /\ UNCHANGED <<there, content, noteRevision, grants, save, copying, turns, kept>>
    BY <1>2 DEF Edit, stored
  <2>3. editor' = [editor EXCEPT ![e] = ed]
    BY <2>2
  <2> HIDE DEF ed, dr
  <2> QED BY <1>3, <2>1, <2>2, <2>3
<1>5. /\ ed \in EditorStates /\ ed.text = text
      /\ dr \in LocalDrafts /\ dr.text = text
  BY <1>1 DEF EditorStates, LocalDrafts, TextOrNone
<1> HIDE DEF ed, dr
<1>6. save[e] = [save EXCEPT ![e] = save[e]][e] /\ editor[e] # NoEditor
  BY <1>1 DEF Edit, IsOpen, NotesConsistent, NoteTypeOK
<1>7. RestTypeOK'
  <2>1. authors \in Seq(Editors) /\ Len(authors') = Len(authors) + 1 /\ authors' \in Seq(Editors)
    BY <1>4, StaysAs DEF RestTypeOK
  <2>2. Len(authors') \in Texts
    BY <1>2, <2>1
  <2> QED BY <1>4, <2>1, <2>2, StaysAs DEF RestTypeOK
<1>8. Holds(ed, dr, save[e], copying[e], ty, kept)
  <2>1. 0 \in kept /\ ed # NoEditor /\ ed.text \in Texts
    BY <1>5, NothingHas, StaysAs DEF RestTypeOK
  <2>2. ty # text => ty = 0 /\ copying[e] # NoText
    BY <1>3
  <2>3. copying[e] # NoText => ty = 0
    BY <1>3
  <2> QED BY <1>1, <1>5, <2>1, <2>2, <2>3 DEF Holds
<1>9. Becomes(e, ed, dr, save[e], copying[e], ty)
  BY <1>4, StaysAs DEF Becomes
<1>10. Fits(ed, dr, save[e], copying[e], ty)
  BY <1>1, <1>5 DEF Fits
<1> QED BY <1>4, <1>7, <1>8, <1>9, <1>10, OneChanges

\* A save sends what the editor has.
LEMMA SaveStep ==
  ASSUME NotesConsistent, NEW e \in Editors, Save(e)
  PROVE  NotesConsistent'
<1>1. /\ editor[e] \in EditorStates /\ drafts[e] \in LocalDrafts /\ save[e] \in SaveRequests
      /\ copying[e] \in TextOrNone /\ typed[e] \in Texts
      /\ Holds(editor[e], drafts[e], save[e], copying[e], typed[e], kept)
  BY OfOne
<1> DEFINE sv == [text |-> editor[e].text, origin |-> editor[e].origin,
                  revision |-> editor[e].revision, answer |-> "none"]
<1>2. /\ save' = [save EXCEPT ![e] = sv] /\ editor[e] # NoEditor /\ editor[e].writable
      /\ UNCHANGED <<there, content, noteRevision, grants, editor, drafts, copying, authors, turns,
                     kept, typed>>
  BY DEF Save, Request, IsOpen, stored, history
<1>3. sv \in SaveRequests /\ sv.text = editor[e].text /\ sv.answer = "none"
  BY <1>1 DEF EditorStates, SaveRequests, SaveAnswers
<1> HIDE DEF sv
<1>4. Holds(editor[e], drafts[e], sv, copying[e], typed[e], kept)
  BY <1>1, <1>2, <1>3 DEF Holds, Blocked
<1>5. RestTypeOK' /\ kept' = kept
  BY <1>2, StaysAs DEF RestTypeOK
<1>6. Becomes(e, editor[e], drafts[e], sv, copying[e], typed[e])
  BY <1>2, StaysAs DEF Becomes
<1>7. Fits(editor[e], drafts[e], sv, copying[e], typed[e])
  BY <1>1, <1>3 DEF Fits
<1> QED BY <1>4, <1>5, <1>6, <1>7, OneChanges

\* An answer that the save was accepted: the text is at the server.
LEMMA SavedStep ==
  ASSUME NotesConsistent, NEW e \in Editors, Saved(e)
  PROVE  NotesConsistent'
<1>1. /\ editor[e] \in EditorStates /\ drafts[e] \in LocalDrafts /\ save[e] \in SaveRequests
      /\ copying[e] \in TextOrNone /\ typed[e] \in Texts
      /\ Holds(editor[e], drafts[e], save[e], copying[e], typed[e], kept)
  BY OfOne
<1>2. /\ save[e].answer = "ok" /\ save[e] # NoSave /\ save[e].text \in Texts
      /\ save[e].text \in kept /\ editor[e] # NoEditor /\ editor[e].text \in Texts
  BY <1>1, NothingHas DEF Saved, Holds
<1>3. PICK next \in Nat : next = save[e].revision + 1
  BY <1>1 DEF SaveRequests
<1> DEFINE ed == [[[[editor[e] EXCEPT !.saved = save[e].text] EXCEPT !.origin = save[e].text]
                     EXCEPT !.revision = next] EXCEPT !.failed = FALSE]
           dr == IF editor[e].text # save[e].text
                 THEN [text |-> editor[e].text, origin |-> save[e].text, revision |-> next]
                 ELSE NoDraft
           sv == IF editor[e].text # save[e].text
                 THEN [text |-> editor[e].text, origin |-> save[e].text, revision |-> next,
                       answer |-> "none"]
                 ELSE NoSave
<1>4. /\ editor' = [editor EXCEPT ![e] = ed] /\ drafts' = [drafts EXCEPT ![e] = dr]
      /\ save' = [save EXCEPT ![e] = sv]
      /\ UNCHANGED <<there, content, noteRevision, grants, copying, authors, turns, kept, typed>>
  <2>1. /\ editor' = [editor EXCEPT ![e].saved = save[e].text, ![e].origin = save[e].text,
                                    ![e].revision = next, ![e].failed = FALSE]
        /\ drafts' = [drafts EXCEPT ![e] = dr] /\ save' = [save EXCEPT ![e] = sv]
        /\ UNCHANGED <<there, content, noteRevision, grants, copying, authors, turns, kept, typed>>
    BY <1>3 DEF Saved, Request, stored, history
  <2>2. editor' = [editor EXCEPT ![e] = ed]
    BY <2>1 DEF NotesConsistent, NoteTypeOK
  <2> QED BY <2>1, <2>2
<1>5. /\ ed \in EditorStates /\ ed.text = editor[e].text /\ ed.writable = editor[e].writable
      /\ ed.conflict = editor[e].conflict
  BY <1>1, <1>2, <1>3 DEF EditorStates, TextOrNone
<1>6. CASE editor[e].text # save[e].text
  <2>1. /\ dr = [text |-> editor[e].text, origin |-> save[e].text, revision |-> next]
        /\ sv = [text |-> editor[e].text, origin |-> save[e].text, revision |-> next,
                 answer |-> "none"]
    BY <1>6
  <2>2. /\ dr \in LocalDrafts /\ dr.text = editor[e].text
        /\ sv \in SaveRequests /\ sv.text = editor[e].text /\ sv.answer = "none"
    BY <1>2, <1>3, <2>1 DEF LocalDrafts, SaveRequests, SaveAnswers, TextOrNone
  <2> HIDE DEF ed, dr, sv
  <2>3. typed[e] \notin kept => editor[e].text = typed[e]
    BY <1>1, <1>2 DEF Holds, Blocked
  <2>4. ed # NoEditor
    BY <1>2, <1>5, NothingHas
  <2>5. Holds(ed, dr, sv, copying[e], typed[e], kept)
    BY <1>1, <1>2, <1>5, <2>2, <2>3, <2>4 DEF Holds
  <2>6. Becomes(e, ed, dr, sv, copying[e], typed[e]) /\ RestTypeOK'
    BY <1>4, StaysAs DEF Becomes, RestTypeOK
  <2>7. Fits(ed, dr, sv, copying[e], typed[e])
    BY <1>1, <1>5, <2>2 DEF Fits
  <2> QED BY <1>4, <2>5, <2>6, <2>7, OneChanges
<1>7. CASE editor[e].text = save[e].text
  <2>1. dr = NoDraft /\ sv = NoSave
    BY <1>7
  <2> HIDE DEF ed, dr, sv
  <2>2. typed[e] \in kept
    BY <1>1, <1>2, <1>7 DEF Holds, Blocked
  <2>3. ed # NoEditor
    BY <1>2, <1>5, NothingHas
  <2>4. Holds(ed, dr, sv, copying[e], typed[e], kept)
    BY <1>1, <1>2, <1>5, <2>1, <2>2, <2>3, NothingHas DEF Holds
  <2>5. Becomes(e, ed, dr, sv, copying[e], typed[e]) /\ RestTypeOK'
    BY <1>4, StaysAs DEF Becomes, RestTypeOK
  <2>6. Fits(ed, dr, sv, copying[e], typed[e])
    BY <1>1, <1>5, <2>1, NothingHas DEF Fits
  <2> QED BY <1>4, <2>4, <2>5, <2>6, OneChanges
<1> QED BY <1>6, <1>7

\* A save that got another answer, or none, leaves the text as a draft.
LEMMA FailureKeeps ==
  ASSUME NotesConsistent, NEW e \in Editors, save[e] # NoSave,
         NEW ed \in EditorStates, ed.text = editor[e].text,
         editor' = [editor EXCEPT ![e] = ed], drafts' = [drafts EXCEPT ![e] = Draft(e)],
         save' = [save EXCEPT ![e] = NoSave], UNCHANGED <<copying, typed, kept>>, RestTypeOK'
  PROVE  NotesConsistent'
<1>1. /\ editor[e] \in EditorStates /\ drafts[e] \in LocalDrafts /\ save[e] \in SaveRequests
      /\ copying[e] \in TextOrNone /\ typed[e] \in Texts
      /\ Holds(editor[e], drafts[e], save[e], copying[e], typed[e], kept)
  BY OfOne
<1>2. editor[e] # NoEditor /\ ed.text \in Texts
  BY <1>1 DEF Holds
<1>3. ed # NoEditor
  BY <1>2, NothingHas
<1>4. Draft(e) \in LocalDrafts /\ Draft(e).text = ed.text
  BY <1>1 DEF Draft, LocalDrafts, EditorStates
<1>5. typed[e] \notin kept => ed.text = typed[e]
  BY <1>1, <1>2 DEF Holds, Blocked
<1>6. Holds(ed, Draft(e), NoSave, copying[e], typed[e], kept)
  BY <1>1, <1>2, <1>3, <1>4, <1>5, NothingHas DEF Holds
<1>7. Becomes(e, ed, Draft(e), NoSave, copying[e], typed[e])
  BY StaysAs DEF Becomes
<1>8. Fits(ed, Draft(e), NoSave, copying[e], typed[e])
  BY <1>1, <1>4, NothingHas DEF Fits
<1> QED BY <1>6, <1>7, <1>8, OneChanges

\* The bound on what goes wrong is kept.
LEMMA TurnBounded == RestTypeOK /\ Turn => turns' \in 0..MaxTurns
BY NotesAssumption DEF RestTypeOK, Turn

\* The server refused a save, and the draft stays.
LEMMA RefusedStep ==
  ASSUME NotesConsistent, NEW e \in Editors, Refused(e)
  PROVE  NotesConsistent'
<1>1. editor[e] \in EditorStates /\ save[e] # NoSave
  BY OfOne, NothingHas DEF Refused
<1>2. PICK conflict \in BOOLEAN : conflict = (editor[e].conflict \/ save[e].answer = "conflict")
  BY Zenon
<1>3. PICK writable \in BOOLEAN : writable = (editor[e].writable /\ save[e].answer # "denied")
  BY Zenon
<1> DEFINE ed == [[[editor[e] EXCEPT !.failed = TRUE] EXCEPT !.conflict = conflict]
                    EXCEPT !.writable = writable]
<1>4. /\ drafts' = [drafts EXCEPT ![e] = Draft(e)] /\ save' = [save EXCEPT ![e] = NoSave]
      /\ UNCHANGED <<there, content, noteRevision, grants, copying, authors, turns, kept, typed>>
  BY DEF Refused, SaveFailed, stored, history
<1>5. editor' = [editor EXCEPT ![e] = ed]
  <2>1. editor' = [editor EXCEPT ![e].failed = TRUE,
                                 ![e].conflict = @ \/ save[e].answer = "conflict",
                                 ![e].writable = @ /\ save[e].answer # "denied"]
    BY DEF Refused, SaveFailed
  <2>2. DOMAIN editor = Editors /\ DOMAIN editor' = Editors
        /\ editor' = [o \in Editors |-> editor'[o]]
    BY <2>1 DEF NotesConsistent, NoteTypeOK
  <2>3. /\ editor'[e] = [[[editor[e] EXCEPT !.failed = TRUE]
                            EXCEPT !.conflict = editor[e].conflict \/ save[e].answer = "conflict"]
                            EXCEPT !.writable = editor[e].writable /\ save[e].answer # "denied"]
        /\ \A o \in Editors : o # e => editor'[o] = editor[o]
    BY <1>1, <2>1 DEF NotesConsistent, NoteTypeOK, EditorStates
  <2>4. editor'[e] = ed
    BY <1>2, <1>3, <2>3, Zenon
  <2> HIDE DEF ed
  <2> QED BY <2>2, <2>3, <2>4 DEF NotesConsistent, NoteTypeOK
<1>6. ed \in EditorStates /\ ed.text = editor[e].text
  BY <1>1 DEF EditorStates
<1> HIDE DEF ed
<1>7. RestTypeOK'
  BY <1>4, StaysAs DEF RestTypeOK
<1> QED BY <1>1, <1>4, <1>5, <1>6, <1>7, FailureKeeps

\* A save or its answer is lost.
LEMMA LostStep ==
  ASSUME NotesConsistent, NEW e \in Editors, Lost(e)
  PROVE  NotesConsistent'
<1> DEFINE ed == [editor[e] EXCEPT !.failed = TRUE]
<1>1. /\ save[e] # NoSave /\ turns' \in 0..MaxTurns
      /\ editor' = [editor EXCEPT ![e] = ed]
      /\ drafts' = [drafts EXCEPT ![e] = Draft(e)] /\ save' = [save EXCEPT ![e] = NoSave]
      /\ UNCHANGED <<there, content, noteRevision, grants, copying, authors, kept, typed>>
  BY StaysAs, TurnBounded DEF Lost, stored
<1>2. ed \in EditorStates /\ ed.text = editor[e].text
  BY OfOne DEF EditorStates
<1> HIDE DEF ed
<1>3. RestTypeOK'
  BY <1>1, StaysAs DEF RestTypeOK
<1> QED BY <1>1, <1>2, <1>3, FailureKeeps

\* Without an editor the draft keeps the text.
LEMMA TabGoneStep ==
  ASSUME NotesConsistent, NEW e \in Editors, TabGone(e)
  PROVE  NotesConsistent'
<1>1. /\ drafts[e] \in LocalDrafts /\ typed[e] \in Texts
      /\ Holds(editor[e], drafts[e], save[e], copying[e], typed[e], kept)
  BY OfOne
<1>2. /\ turns' \in 0..MaxTurns
      /\ editor' = [editor EXCEPT ![e] = NoEditor] /\ save' = [save EXCEPT ![e] = NoSave]
      /\ copying' = [copying EXCEPT ![e] = NoText]
      /\ UNCHANGED <<there, content, noteRevision, grants, drafts, authors, kept, typed>>
  BY StaysAs, TurnBounded DEF TabGone, stored
<1>3. RestTypeOK'
  BY <1>2, StaysAs DEF RestTypeOK
<1>4. Holds(NoEditor, drafts[e], NoSave, NoText, typed[e], kept)
  BY <1>1, NothingHas DEF Holds
<1>5. Becomes(e, NoEditor, drafts[e], NoSave, NoText, typed[e])
  BY <1>2, StaysAs DEF Becomes
<1>6. Fits(NoEditor, drafts[e], NoSave, NoText, typed[e])
  BY <1>1, NothingHas DEF Fits
<1> QED BY <1>2, <1>3, <1>4, <1>5, <1>6, OneChanges

\* The text of a troubled editor is what was typed last.
LEMMA TroubledShows ==
  ASSUME NotesConsistent, NEW e \in Editors, Troubled(e)
  PROVE  /\ editor[e] # NoEditor /\ editor[e].text \in Texts
         /\ typed[e] = editor[e].text \/ typed[e] \in kept
<1>1. Holds(editor[e], drafts[e], save[e], copying[e], typed[e], kept)
  BY OfOne
<1>2. editor[e] # NoEditor
  BY NothingHas DEF Troubled
<1> QED BY <1>1, <1>2 DEF Holds, Blocked, Troubled

\* Who reloads gives the text up.
LEMMA ReloadStep ==
  ASSUME NotesConsistent, NEW e \in Editors, Reload(e)
  PROVE  NotesConsistent'
<1>1. /\ typed[e] \in Texts /\ editor[e].text \in Texts
      /\ typed[e] \in kept \union {editor[e].text}
  BY OfOne, TroubledShows DEF Reload
<1>2. /\ save[e] = NoSave /\ copying[e] = NoText
      /\ kept' = kept \union {editor[e].text}
      /\ editor' = [editor EXCEPT ![e] = NoEditor] /\ drafts' = [drafts EXCEPT ![e] = NoDraft]
      /\ UNCHANGED <<there, content, noteRevision, grants, save, copying, authors, turns, typed>>
  BY DEF Reload, stored
<1>3. RestTypeOK'
  BY <1>1, <1>2, StaysAs DEF RestTypeOK
<1>4. Holds(NoEditor, NoDraft, NoSave, NoText, typed[e], kept')
  BY <1>1, <1>2, NothingHas DEF Holds
<1>5. Becomes(e, NoEditor, NoDraft, NoSave, NoText, typed[e])
  BY <1>2, StaysAs DEF Becomes
<1>6. Fits(NoEditor, NoDraft, NoSave, NoText, typed[e])
  BY <1>1, NothingHas DEF Fits
<1> QED BY <1>3, <1>4, <1>5, <1>6, OneChanges

\* A copy is made of the text typed last.
LEMMA CopyStep ==
  ASSUME NotesConsistent, NEW e \in Editors, Copy(e)
  PROVE  NotesConsistent'
<1>1. /\ editor[e] \in EditorStates /\ drafts[e] \in LocalDrafts /\ save[e] \in SaveRequests
      /\ typed[e] \in Texts
      /\ Holds(editor[e], drafts[e], save[e], copying[e], typed[e], kept)
  BY OfOne
<1>2. /\ editor[e] # NoEditor /\ editor[e].text \in Texts
      /\ typed[e] = editor[e].text \/ typed[e] \in kept
  BY TroubledShows DEF Copy
<1>3. /\ save[e] = NoSave /\ copying' = [copying EXCEPT ![e] = editor[e].text]
      /\ UNCHANGED <<there, content, noteRevision, grants, editor, drafts, save, authors, turns,
                     kept, typed>>
  BY DEF Copy, stored, history
<1>4. RestTypeOK'
  BY <1>3, StaysAs DEF RestTypeOK
<1>5. Holds(editor[e], drafts[e], save[e], editor[e].text, typed[e], kept)
  BY <1>1, <1>2 DEF Holds
<1>6. Becomes(e, editor[e], drafts[e], save[e], editor[e].text, typed[e])
  BY <1>3, StaysAs DEF Becomes
<1>7. Fits(editor[e], drafts[e], save[e], editor[e].text, typed[e])
  BY <1>1, <1>2 DEF Fits, TextOrNone
<1> QED BY <1>3, <1>4, <1>5, <1>6, <1>7, OneChanges

\* What was copied is kept; nothing was typed since that is to be.
LEMMA CopiedStep ==
  ASSUME NotesConsistent, NEW e \in Editors, Copied(e)
  PROVE  NotesConsistent'
<1>1. /\ typed[e] \in Texts /\ copying[e] \in TextOrNone
      /\ Holds(editor[e], drafts[e], save[e], copying[e], typed[e], kept)
  BY OfOne
<1>2. /\ copying[e] # NoText /\ save[e] = NoSave
      /\ kept' = kept \union {copying[e]} /\ copying' = [copying EXCEPT ![e] = NoText]
      /\ editor' = [editor EXCEPT ![e] = NoEditor] /\ drafts' = [drafts EXCEPT ![e] = NoDraft]
      /\ UNCHANGED <<there, content, noteRevision, grants, save, authors, turns, typed>>
  BY DEF Copied, stored
<1>3. RestTypeOK'
  BY <1>1, <1>2, StaysAs DEF RestTypeOK, TextOrNone
<1>4. typed[e] \in kept'
  BY <1>1, <1>2 DEF Holds
<1>5. Holds(NoEditor, NoDraft, NoSave, NoText, typed[e], kept')
  BY <1>4, NothingHas DEF Holds
<1>6. Becomes(e, NoEditor, NoDraft, NoSave, NoText, typed[e])
  BY <1>2, StaysAs DEF Becomes
<1>7. Fits(NoEditor, NoDraft, NoSave, NoText, typed[e])
  BY <1>1, NothingHas DEF Fits
<1> QED BY <1>3, <1>5, <1>6, <1>7, OneChanges

\* What the server accepts it keeps.
LEMMA ServeSaveStep ==
  ASSUME NotesConsistent, NEW e \in Editors, ServeSave(e)
  PROVE  NotesConsistent'
<1>1. /\ editor[e] \in EditorStates /\ drafts[e] \in LocalDrafts /\ save[e] \in SaveRequests
      /\ copying[e] \in TextOrNone /\ typed[e] \in Texts
      /\ Holds(editor[e], drafts[e], save[e], copying[e], typed[e], kept)
  BY OfOne
<1>2. /\ save[e] # NoSave /\ save[e].text \in Texts /\ editor[e] # NoEditor
      /\ UNCHANGED <<there, grants, editor, drafts, copying, authors, turns, typed>>
  BY <1>1 DEF ServeSave, Holds
<1>3. PICK answer \in SaveAnswers :
        /\ save' = [save EXCEPT ![e].answer = answer]
        /\ \/ /\ answer = "ok" /\ kept' = kept \union {save[e].text}
              /\ content' = save[e].text /\ noteRevision' = noteRevision + 1
           \/ answer # "ok" /\ UNCHANGED <<content, noteRevision, kept>>
  <2>1. CASE Accepts(e)
    BY <2>1 DEF ServeSave, SaveAnswers
  <2>2. CASE ~Accepts(e)
    <3>1. PICK answer \in {"conflict", "denied"} :
            answer = IF there /\ grants[e] = "write" THEN "conflict" ELSE "denied"
      OBVIOUS
    <3> QED BY <2>2, <3>1 DEF ServeSave, SaveAnswers
  <2> QED BY <2>1, <2>2
<1> DEFINE sv == [save[e] EXCEPT !.answer = answer]
<1>4. /\ save' = [save EXCEPT ![e] = sv] /\ sv \in SaveRequests
      /\ sv.text = save[e].text /\ sv.answer = answer
  BY <1>1, <1>3 DEF SaveRequests
<1> HIDE DEF sv
<1>5. kept \subseteq kept' /\ (answer = "ok" => save[e].text \in kept')
  BY <1>3
<1>6. RestTypeOK'
  BY <1>2, <1>3, StaysAs DEF RestTypeOK
<1>7. Holds(editor[e], drafts[e], sv, copying[e], typed[e], kept')
  BY <1>1, <1>2, <1>4, <1>5 DEF Holds, Blocked
<1>8. Becomes(e, editor[e], drafts[e], sv, copying[e], typed[e])
  BY <1>2, <1>4, <1>5, StaysAs DEF Becomes
<1>9. Fits(editor[e], drafts[e], sv, copying[e], typed[e])
  BY <1>1, <1>4 DEF Fits
<1> QED BY <1>6, <1>7, <1>8, <1>9, OneChanges

\* Every step of editors and server keeps the invariant.
LEMMA NoteStep ==
  ASSUME NotesConsistent, [NoteNext]_noteVars
  PROVE  NotesConsistent'
<1>1. ASSUME RestTypeOK', UNCHANGED <<editor, drafts, save, copying, typed, kept>>
      PROVE  NotesConsistent'
  BY <1>1 DEF NotesConsistent, NoteTypeOK, RestTypeOK, NothingLost, Holds, Blocked
<1>2. RestTypeOK
  BY DEF NotesConsistent, NoteTypeOK, RestTypeOK
<1>3. ASSUME NEW e \in Editors, Grant(e) PROVE NotesConsistent'
  <2>1. UNCHANGED <<there, content, noteRevision, editor, drafts, save, copying, authors, kept, typed>>
    BY <1>3 DEF Grant
  <2>2. turns' \in 0..MaxTurns /\ grants' \in [Editors -> {"none", "read", "write"}]
    BY <1>2, <1>3, TurnBounded DEF Grant, RestTypeOK
  <2> QED BY <1>1, <1>2, <2>1, <2>2 DEF RestTypeOK
<1>4. CASE Delete
  <2>1. /\ there' = FALSE /\ turns' \in 0..MaxTurns
        /\ UNCHANGED <<content, noteRevision, grants, editor, drafts, save, copying, authors, kept,
                       typed>>
    BY <1>2, <1>4, TurnBounded DEF Delete
  <2> QED BY <1>1, <1>2, <2>1 DEF RestTypeOK
<1>5. CASE UNCHANGED noteVars
  <2>1. UNCHANGED <<there, content, noteRevision, grants, editor, drafts, save, copying, authors,
                    turns, kept, typed>>
    BY <1>5 DEF noteVars
  <2> QED BY <1>1, <1>2, <2>1 DEF RestTypeOK
<1> QED BY <1>3, <1>4, <1>5, OpenNoteStep, EditStep, SaveStep, SavedStep, RefusedStep, LostStep,
           TabGoneStep, ReloadStep, CopyStep, CopiedStep, ServeSaveStep DEF NoteNext

-----------------------------------------------------------------------------
(***************************************************************************)
(* The preferences: a GET counts only if no write was completed since it was *)
(* asked.                                                                  *)
(***************************************************************************)

\* The run is that of the user whose session the browser has.
RunIsSession == HasRun => cookie # 0 /\ run.user = logins[cookie].user

\* Without a run nothing is saved, nothing was acknowledged, and no answer of a
\* GET is waited for.
NothingWithoutRun ==
  ~HasRun => patch = NoPatch /\ acked = 0 /\ \A r \in Reads : ~reads[r].shared /\ reads[r].versions = {}

\* A GET that is or may be waited for is the user's own, and was not served
\* before the last acknowledged edit.
Counts(r) == reads[r].shared \/ run.version \in reads[r].versions
ReadsCount ==
  HasRun => \A r \in Reads :
    /\ \A v \in reads[r].versions : v <= run.version
    /\ Counts(r) /\ reads[r].state = "sent" => logins[reads[r].session].user = run.user
    /\ Counts(r) /\ reads[r].state = "ok" =>
         reads[r].answer.of = run.user /\ reads[r].answer.at >= acked
AnswersAre ==
  \A r \in Reads : /\ reads[r].state = "sent" => reads[r].session \in 1..Len(logins)
                   /\ reads[r].state = "ok" => reads[r].answer \in Preferences

\* The server has applied what it acknowledged.
AckedApplied == HasRun => acked <= applied[run.user]
PatchOfRun ==
  /\ patch # NoPatch => HasRun /\ run.pending > 0
  /\ patch.session <= Len(logins)
  /\ patch.state = "ok" =>
       /\ patch.answer \in Preferences
       /\ patch.answer.of = run.user /\ patch.answer.at <= applied[run.user]

ProfileConsistent ==
  /\ ProfileTypeOK /\ RunIsSession /\ NothingWithoutRun /\ ReadsCount /\ AnswersAre
  /\ AckedApplied /\ PatchOfRun /\ AcknowledgedShown

\* What there is when there is nothing.
LEMMA NothingIs ==
  /\ NoPatch \in PatchCalls /\ NoRead \in ReadCalls /\ NoPreferences \in Answers
  /\ NoPatch.state = "none" /\ NoPatch.session = 0
  /\ NoRead.state = "none" /\ ~NoRead.shared /\ NoRead.versions = {}
<1>1. 0 \in SessionIds /\ NoPreferences \in Answers
  BY ProfileAssumption DEF SessionIds, Answers
<1> QED BY <1>1 DEF NoPatch, PatchCalls, NoRead, ReadCalls

\* What a run has.
LEMMA RunFields ==
  ASSUME ProfileTypeOK, HasRun
  PROVE  /\ run \in Runs /\ run.user \in Owners /\ run.pending \in Nat /\ run.version \in Nat
         /\ run.confirmed \in Answers
BY DEF ProfileTypeOK, HasRun, Runs

\* What a login has.
LEMMA LoginFields ==
  ASSUME ProfileTypeOK, NEW n \in 1..Len(logins)
  PROVE  logins[n] \in Logins /\ logins[n].user \in Owners
<1>1. logins[n] \in Logins
  BY DEF ProfileTypeOK
<1> QED BY <1>1 DEF Logins

\* What a GET has.
LEMMA ReadFieldsOf ==
  ASSUME ProfileTypeOK, NEW r \in Reads
  PROVE  reads[r] \in ReadCalls /\ reads[r].versions \subseteq Nat
<1>1. reads[r] \in ReadCalls
  BY DEF ProfileTypeOK
<1> QED BY <1>1 DEF ReadCalls

\* A browser without a session.
LEMMA ProfileInitConsistent == ProfileInit => ProfileConsistent
<1> SUFFICES ASSUME ProfileInit PROVE ProfileConsistent
  OBVIOUS
<1>1. /\ logins = <<>> /\ cookie = 0 /\ run = NoRun /\ patch = NoPatch
      /\ leaving = FALSE /\ made = 0 /\ failures = 0 /\ acked = 0
      /\ applied \in [Owners -> Nat] /\ reads \in [Reads -> ReadCalls]
      /\ \A r \in Reads : reads[r] = NoRead
  BY NothingIs DEF ProfileInit
<1>2. logins \in Seq(Logins) /\ Len(logins) = 0
  BY <1>1
<1>3. ProfileTypeOK
  <2>1. Len(logins) \in SessionIds /\ cookie \in 0..Len(logins) /\ acked \in Nat
    BY <1>1, <1>2, ProfileAssumption DEF SessionIds
  <2>2. made \in 0..MaxPatches /\ failures \in 0..MaxFailures
    BY <1>1, ProfileAssumption
  <2>3. run \in Runs \union {NoRun} /\ patch \in PatchCalls /\ leaving \in BOOLEAN
    BY <1>1, NothingIs
  <2> QED BY <1>1, <1>2, <2>1, <2>2, <2>3, Zenon DEF ProfileTypeOK
<1>4. ~HasRun
  BY <1>1 DEF HasRun
<1>5. RunIsSession /\ NothingWithoutRun /\ ReadsCount /\ AnswersAre /\ AckedApplied
  BY <1>1, <1>4, NothingIs DEF RunIsSession, NothingWithoutRun, ReadsCount, AnswersAre, AckedApplied
<1>6. PatchOfRun /\ AcknowledgedShown
  BY <1>1, <1>2, <1>4, NothingIs DEF PatchOfRun, AcknowledgedShown
<1> QED BY <1>3, <1>5, <1>6 DEF ProfileConsistent

\* The logins so far stay those of their users.
LoginsStay ==
  /\ Len(logins) <= Len(logins')
  /\ \A n \in 1..Len(logins) : logins'[n].user = logins[n].user

\* A GET goes on, perhaps for fewer, or is over.
GoesOnFor(r) ==
  \/ reads'[r] = NoRead
  \/ /\ reads'[r].state = reads[r].state /\ reads'[r].session = reads[r].session
     /\ reads'[r].answer = reads[r].answer
     /\ reads'[r].versions \subseteq reads[r].versions
     /\ reads'[r].shared => reads[r].shared

\* The run shows what it did, for the same user and after the same writes.
RunGoesOn ==
  /\ HasRun' <=> HasRun
  /\ HasRun => run'.user = run.user /\ run'.version = run.version /\ run'.confirmed = run.confirmed

\* Most steps leave what the run shows alone, and ask nothing of the server.
LEMMA RunKeeps ==
  ASSUME ProfileConsistent, ProfileTypeOK', LoginsStay, cookie' = cookie, acked' = acked,
         RunGoesOn, \A u \in Owners : applied[u] <= applied'[u],
         \A r \in Reads : GoesOnFor(r), PatchOfRun', ~HasRun => patch' = patch
  PROVE  ProfileConsistent'
<1> USE DEF ProfileConsistent
<1>0. cookie \in 0..Len(logins) /\ acked \in Nat /\ Len(logins) \in Nat /\ Len(logins') \in Nat
  BY ProfileAssumption DEF ProfileTypeOK, SessionIds
<1>1. RunIsSession'
  BY <1>0 DEF RunIsSession, RunGoesOn, LoginsStay
<1>2. NothingWithoutRun'
  <2> SUFFICES ASSUME ~HasRun
               PROVE  patch' = NoPatch /\ acked' = 0 /\ \A r \in Reads : ~reads'[r].shared /\ reads'[r].versions = {}
    BY DEF NothingWithoutRun, RunGoesOn
  <2>1. patch' = NoPatch /\ acked' = 0
    BY DEF NothingWithoutRun
  <2>2. ASSUME NEW r \in Reads PROVE ~reads'[r].shared /\ reads'[r].versions = {}
    <3>1. ~reads[r].shared /\ reads[r].versions = {}
      BY DEF NothingWithoutRun
    <3> QED BY <3>1, NothingIs DEF GoesOnFor
  <2> QED BY <2>1, <2>2
<1>3. ReadsCount'
  <2> SUFFICES ASSUME HasRun, NEW r \in Reads
               PROVE  /\ \A v \in reads'[r].versions : v <= run'.version
                      /\ Counts(r)' /\ reads'[r].state = "sent" =>
                           logins'[reads'[r].session].user = run'.user
                      /\ Counts(r)' /\ reads'[r].state = "ok" =>
                           reads'[r].answer.of = run'.user /\ reads'[r].answer.at >= acked'
    BY DEF ReadsCount, RunGoesOn
  <2>1. CASE reads'[r] = NoRead
    BY <2>1, NothingIs
  <2>2. CASE /\ reads'[r].state = reads[r].state /\ reads'[r].session = reads[r].session
             /\ reads'[r].answer = reads[r].answer
             /\ reads'[r].versions \subseteq reads[r].versions
             /\ reads'[r].shared => reads[r].shared
    <3>1. Counts(r)' => Counts(r)
      BY <2>2 DEF Counts, RunGoesOn
    <3>2. reads[r].state = "sent" => reads[r].session \in 1..Len(logins)
      BY DEF AnswersAre
    <3> QED BY <2>2, <3>1, <3>2 DEF ReadsCount, RunGoesOn, LoginsStay
  <2> QED BY <2>1, <2>2 DEF GoesOnFor
<1>4. AnswersAre'
  <2> SUFFICES ASSUME NEW r \in Reads
               PROVE  /\ reads'[r].state = "sent" => reads'[r].session \in 1..Len(logins')
                      /\ reads'[r].state = "ok" => reads'[r].answer \in Preferences
    BY DEF AnswersAre, Preferences
  <2>1. CASE reads'[r] = NoRead
    BY <2>1, NothingIs
  <2>2. CASE /\ reads'[r].state = reads[r].state /\ reads'[r].session = reads[r].session
             /\ reads'[r].answer = reads[r].answer
    <3>1. reads[r].state = "sent" => reads[r].session \in 1..Len(logins)
      BY DEF AnswersAre
    <3> QED BY <1>0, <2>2, <3>1 DEF AnswersAre, LoginsStay
  <2> QED BY <2>1, <2>2 DEF GoesOnFor
<1>5. AckedApplied'
  <2> SUFFICES ASSUME HasRun PROVE acked <= applied'[run.user]
    BY DEF AckedApplied, RunGoesOn
  <2>1. run.user \in Owners /\ acked <= applied[run.user] /\ applied[run.user] <= applied'[run.user]
    BY RunFields DEF AckedApplied
  <2>2. applied[run.user] \in Nat /\ applied'[run.user] \in Nat
    BY <2>1 DEF ProfileTypeOK
  <2> QED BY <1>0, <2>1, <2>2
<1>6. AcknowledgedShown'
  BY DEF AcknowledgedShown, RunGoesOn, NoPreferences
<1> QED BY <1>1, <1>2, <1>3, <1>4, <1>5, <1>6

\* What remains of the GETs when no refresh may join them.
LEMMA ClearedReads ==
  ASSUME ProfileTypeOK
  PROVE  /\ Cleared \in [Reads -> ReadCalls]
         /\ \A r \in Reads :
              /\ Cleared[r].state = reads[r].state /\ Cleared[r].session = reads[r].session
              /\ Cleared[r].answer = reads[r].answer /\ Cleared[r].versions = reads[r].versions
              /\ ~Cleared[r].shared
<1>1. ASSUME NEW r \in Reads
      PROVE  /\ Cleared[r] \in ReadCalls
             /\ Cleared[r].state = reads[r].state /\ Cleared[r].session = reads[r].session
             /\ Cleared[r].answer = reads[r].answer /\ Cleared[r].versions = reads[r].versions
             /\ ~Cleared[r].shared
  <2>1. Cleared[r] = [reads[r] EXCEPT !.shared = FALSE]
    BY DEF Cleared
  <2> QED BY <2>1, ReadFieldsOf DEF ReadCalls
<1> QED BY <1>1 DEF Cleared

\* What remains of them when they are nobody's any more.
LEMMA OrphanedReads ==
  ASSUME ProfileTypeOK
  PROVE  /\ Orphaned \in [Reads -> ReadCalls]
         /\ \A r \in Reads :
              /\ Orphaned[r].state = reads[r].state /\ Orphaned[r].session = reads[r].session
              /\ Orphaned[r].answer = reads[r].answer /\ Orphaned[r].versions = {}
              /\ ~Orphaned[r].shared
<1>1. ASSUME NEW r \in Reads
      PROVE  /\ Orphaned[r] \in ReadCalls
             /\ Orphaned[r].state = reads[r].state /\ Orphaned[r].session = reads[r].session
             /\ Orphaned[r].answer = reads[r].answer /\ Orphaned[r].versions = {}
             /\ ~Orphaned[r].shared
  <2>1. Orphaned[r] = [[reads[r] EXCEPT !.shared = FALSE] EXCEPT !.versions = {}]
    BY DEF Orphaned
  <2> QED BY <2>1, ReadFieldsOf DEF ReadCalls
<1> QED BY <1>1 DEF Orphaned

\* A write that is sent.
LEMMA SendIs ==
  ASSUME ProfileTypeOK
  PROVE  Send \in PatchCalls /\ Send.state = "sent" /\ Send.session = cookie /\ Send # NoPatch
<1>1. cookie \in SessionIds
  BY ProfileAssumption DEF ProfileTypeOK, SessionIds
<1> QED BY <1>1, NothingIs DEF Send, PatchCalls

\* The run with a write given up or added.
LEMMA RunPending ==
  ASSUME ProfileTypeOK, HasRun, NEW n \in Nat, run' = [run EXCEPT !.pending = n]
  PROVE  run' \in Runs /\ run'.pending = n /\ HasRun' /\ RunGoesOn
<1>1. run' \in Runs /\ run'.pending = n
  BY RunFields DEF Runs
<1>2. run'.user = run.user /\ run'.version = run.version /\ run'.confirmed = run.confirmed
  BY RunFields DEF Runs
<1>3. HasRun'
  BY <1>1 DEF HasRun, Runs, NoRun
<1> QED BY <1>1, <1>2, <1>3 DEF RunGoesOn

\* Whichever of them an action leaves, the GETs go on.
LEMMA CallsGoOn ==
  ASSUME ProfileTypeOK, reads' = Cleared \/ reads' = reads
  PROVE  reads' \in [Reads -> ReadCalls] /\ \A r \in Reads : GoesOnFor(r)
<1>1. CASE reads' = Cleared
  BY <1>1, ClearedReads DEF GoesOnFor
<1>2. CASE reads' = reads
  BY <1>2 DEF GoesOnFor, ProfileTypeOK
<1> QED BY <1>1, <1>2

\* What a step that leaves the server and the cookie alone keeps.
LEMMA ServerStays ==
  ASSUME ProfileTypeOK, UNCHANGED <<applied, logins, cookie>>
  PROVE  /\ applied' \in [Owners -> Nat] /\ logins' \in Seq(Logins) /\ Len(logins') \in SessionIds
         /\ cookie' \in 0..Len(logins') /\ LoginsStay /\ \A u \in Owners : applied[u] <= applied'[u]
<1>1. /\ applied' = applied /\ logins' = logins /\ cookie' = cookie
      /\ applied \in [Owners -> Nat] /\ Len(logins) \in SessionIds
  BY DEF ProfileTypeOK
<1>2. LoginsStay
  BY <1>1, ProfileAssumption DEF LoginsStay, SessionIds
<1>3. \A u \in Owners : applied[u] <= applied'[u]
  BY <1>1
<1> QED BY <1>1, <1>2, <1>3 DEF ProfileTypeOK

\* A failure stays within its bound.
LEMMA FailureCounted == ProfileTypeOK /\ Failure => failures' \in 0..MaxFailures
BY ProfileAssumption DEF ProfileTypeOK, Failure

\* An edit, and the write that is sent unless one is on its way.
LEMMA UpdateStep == ProfileConsistent /\ Update => ProfileConsistent'
<1> SUFFICES ASSUME ProfileConsistent, Update PROVE ProfileConsistent'
  OBVIOUS
<1> USE DEF ProfileConsistent
<1>1. /\ HasRun /\ made < MaxPatches /\ made' = made + 1
      /\ run' = [run EXCEPT !.pending = run.pending + 1]
      /\ UNCHANGED <<applied, logins, cookie>> /\ UNCHANGED <<leaving, failures, acked>>
  BY DEF Update, server
<1>2. patch' = Send \/ patch' = patch
  BY DEF Update
<1>3. reads' = Cleared \/ reads' = reads
  BY DEF Update
<1>4. run.pending + 1 \in Nat /\ run.pending \in Nat
  BY <1>1, RunFields
<1>5. run' \in Runs /\ run'.pending = run.pending + 1 /\ HasRun' /\ RunGoesOn
  BY <1>1, <1>4, RunPending
<1>6. patch' \in PatchCalls
  BY <1>2, SendIs DEF ProfileTypeOK
<1>7. made' \in 0..MaxPatches
  BY <1>1, ProfileAssumption DEF ProfileTypeOK
<1>8. ProfileTypeOK'
  BY <1>1, <1>3, <1>5, <1>6, <1>7, CallsGoOn, ServerStays DEF ProfileTypeOK
<1>9. PatchOfRun'
  <2>1. CASE patch' = Send
    <3>1. cookie <= Len(logins')
      BY <1>1, ProfileAssumption DEF ProfileTypeOK, SessionIds
    <3> QED BY <2>1, <3>1, <1>4, <1>5, SendIs DEF PatchOfRun
  <2>2. CASE patch' = patch
    BY <2>2, <1>1, <1>4, <1>5 DEF PatchOfRun, RunGoesOn
  <2> QED BY <1>2, <2>1, <2>2
<1> QED BY <1>1, <1>3, <1>5, <1>8, <1>9, CallsGoOn, ServerStays, RunKeeps

\* A retry sends what is pending.
LEMMA RetryStep == ProfileConsistent /\ Retry => ProfileConsistent'
<1> SUFFICES ASSUME ProfileConsistent, Retry PROVE ProfileConsistent'
  OBVIOUS
<1> USE DEF ProfileConsistent
<1>1. /\ HasRun /\ run.pending > 0 /\ patch' = Send /\ reads' = Cleared /\ run' = run
      /\ UNCHANGED <<applied, logins, cookie>> /\ UNCHANGED <<leaving, made, failures, acked>>
  BY DEF Retry, server
<1>2. ProfileTypeOK'
  BY <1>1, SendIs, CallsGoOn, ServerStays DEF ProfileTypeOK
<1>3. cookie <= Len(logins')
  BY <1>1, ProfileAssumption DEF ProfileTypeOK, SessionIds
<1>4. PatchOfRun' /\ RunGoesOn
  BY <1>1, <1>3, SendIs DEF PatchOfRun, RunGoesOn, HasRun
<1> QED BY <1>1, <1>2, <1>4, CallsGoOn, ServerStays, RunKeeps

\* A write is answered at the server.
LEMMA ServePatchStep == ProfileConsistent /\ ServePatch => ProfileConsistent'
<1> SUFFICES ASSUME ProfileConsistent, ServePatch PROVE ProfileConsistent'
  OBVIOUS
<1> USE DEF ProfileConsistent
<1> DEFINE owner == logins[patch.session].user
<1>1. /\ patch.state = "sent" /\ UNCHANGED <<logins, cookie, run, reads, leaving, made, acked, failures>>
      /\ patch' = [patch EXCEPT !.state = "ok", !.answer = [of |-> owner, at |-> applied[owner] + 1]]
      /\ applied' = [applied EXCEPT ![owner] = applied[owner] + 1]
      /\ owner = run.user
  BY DEF ServePatch, PatchServed
<1>2. HasRun /\ run.pending > 0
  BY <1>1, NothingIs DEF PatchOfRun
<1>3. /\ run.user \in Owners /\ applied[run.user] \in Nat
      /\ [of |-> run.user, at |-> applied[run.user] + 1] \in Preferences
  BY <1>2, RunFields DEF ProfileTypeOK, Preferences
<1>4. /\ patch' = [[patch EXCEPT !.state = "ok"] EXCEPT !.answer = [of |-> run.user, at |-> applied[run.user] + 1]]
      /\ applied' = [applied EXCEPT ![run.user] = applied[run.user] + 1]
  BY <1>1
<1>5. patch \in PatchCalls /\ applied \in [Owners -> Nat]
  BY DEF ProfileTypeOK
<1>6. /\ patch' \in PatchCalls /\ patch'.session = patch.session
      /\ patch'.answer = [of |-> run.user, at |-> applied[run.user] + 1]
  BY <1>3, <1>4, <1>5 DEF PatchCalls, Answers
<1>7. applied' \in [Owners -> Nat] /\ \A u \in Owners : applied[u] <= applied'[u]
  <2> HIDE DEF owner
  <2>1. applied' \in [Owners -> Nat]
    BY <1>3, <1>4, <1>5
  <2>2. ASSUME NEW u \in Owners PROVE applied[u] <= applied'[u]
    <3>1. applied[u] \in Nat
      BY <1>5
    <3> QED BY <1>3, <1>4, <1>5, <3>1
  <2> QED BY <2>1, <2>2
<1>8. applied'[run.user] = applied[run.user] + 1
  BY <1>3, <1>4, <1>5
<1>9. ProfileTypeOK'
  <2>1. /\ UNCHANGED logins /\ UNCHANGED cookie /\ UNCHANGED run /\ UNCHANGED reads
        /\ UNCHANGED leaving /\ UNCHANGED made /\ UNCHANGED acked /\ UNCHANGED failures
    BY <1>1
  <2> QED BY <2>1, <1>6, <1>7 DEF ProfileTypeOK
<1>10. PatchOfRun'
  <2>1. patch'.answer.of = run.user /\ patch'.answer.at <= applied'[run.user]
    BY <1>3, <1>6, <1>8
  <2>2. HasRun' /\ run' = run /\ logins' = logins
    BY <1>1, <1>2 DEF HasRun
  <2> QED BY <1>2, <1>3, <1>6, <2>1, <2>2 DEF PatchOfRun
<1>11. LoginsStay /\ RunGoesOn /\ \A r \in Reads : GoesOnFor(r)
  BY <1>1, ProfileAssumption DEF LoginsStay, RunGoesOn, GoesOnFor, HasRun, ProfileTypeOK, SessionIds
<1> QED BY <1>1, <1>2, <1>7, <1>9, <1>10, <1>11, RunKeeps

\* A write is refused, or its session is not valid any more.
LEMMA PatchNotServed ==
  ASSUME ProfileConsistent, NEW outcome \in {"refused", "unauthorized"},
         PatchServed([patch EXCEPT !.state = outcome]), applied' = applied,
         failures' \in 0..MaxFailures
  PROVE  ProfileConsistent'
<1> USE DEF ProfileConsistent
<1>1. /\ patch.state = "sent" /\ UNCHANGED <<applied, logins, cookie>> /\ run' = run /\ reads' = reads
      /\ UNCHANGED <<leaving, made, acked>> /\ patch' = [patch EXCEPT !.state = outcome]
  BY DEF PatchServed
<1>2. patch' \in PatchCalls /\ patch'.session = patch.session /\ patch'.state = outcome
  BY <1>1 DEF ProfileTypeOK, PatchCalls
<1>3. HasRun /\ run.pending > 0
  BY <1>1, NothingIs DEF PatchOfRun
<1>4. ProfileTypeOK'
  BY <1>1, <1>2, CallsGoOn, ServerStays DEF ProfileTypeOK
<1>5. PatchOfRun' /\ RunGoesOn
  BY <1>1, <1>2, <1>3 DEF PatchOfRun, RunGoesOn, HasRun
<1> QED BY <1>1, <1>3, <1>4, <1>5, CallsGoOn, ServerStays, RunKeeps

\* Both ways the server answers without applying the write.
LEMMA NotServedStep == ProfileConsistent /\ (RefusePatch \/ RejectPatch) => ProfileConsistent'
<1>1. ASSUME ProfileConsistent, RefusePatch PROVE ProfileConsistent'
  <2>1. failures' \in 0..MaxFailures
    BY <1>1, FailureCounted DEF RefusePatch, ProfileConsistent
  <2> QED BY <1>1, <2>1, PatchNotServed DEF RefusePatch
<1>2. ASSUME ProfileConsistent, RejectPatch PROVE ProfileConsistent'
  <2>1. failures' \in 0..MaxFailures
    BY <1>2 DEF RejectPatch, ProfileConsistent, ProfileTypeOK
  <2> QED BY <1>2, <2>1, PatchNotServed DEF RejectPatch
<1> QED BY <1>1, <1>2

\* A write is given up, or its call lost.
LEMMA GivenUpStep ==
  ASSUME ProfileConsistent, HasRun, run.pending > 0, run' = [run EXCEPT !.pending = @ - 1],
         reads' = Cleared, patch' = NoPatch,
         UNCHANGED <<server, cookie, leaving, made, failures, acked>>
  PROVE  ProfileConsistent'
<1> USE DEF ProfileConsistent
<1>1. run.pending - 1 \in Nat /\ run' = [run EXCEPT !.pending = run.pending - 1]
  BY RunFields
<1>2. run' \in Runs /\ HasRun' /\ RunGoesOn
  BY <1>1, RunPending
<1>3. UNCHANGED <<applied, logins, cookie>> /\ UNCHANGED <<leaving, made, failures, acked>>
  BY DEF server
<1>4. ProfileTypeOK'
  BY <1>2, <1>3, NothingIs, CallsGoOn, ServerStays DEF ProfileTypeOK
<1>5. PatchOfRun'
  <2>1. 0 <= Len(logins')
    BY <1>3, ProfileAssumption DEF ProfileTypeOK, SessionIds
  <2> QED BY <2>1, NothingIs DEF PatchOfRun
<1> QED BY <1>2, <1>3, <1>4, <1>5, CallsGoOn, ServerStays, RunKeeps

\* A refused edit is given up.
LEMMA PatchRefusedStep == ProfileConsistent /\ PatchRefused => ProfileConsistent'
<1> SUFFICES ASSUME ProfileConsistent, PatchRefused PROVE ProfileConsistent'
  OBVIOUS
<1>1. HasRun /\ run.pending > 0
  BY NothingIs DEF PatchRefused, ProfileConsistent, PatchOfRun
<1> QED BY <1>1, GivenUpStep DEF PatchRefused

\* The call of a write, or its answer, is lost.
LEMMA PatchFailsStep == ProfileConsistent /\ PatchFails => ProfileConsistent'
<1> SUFFICES ASSUME ProfileConsistent, PatchFails PROVE ProfileConsistent'
  OBVIOUS
<1> USE DEF ProfileConsistent
<1>1. /\ patch' = NoPatch /\ run' = run /\ reads' = reads /\ UNCHANGED <<applied, logins, cookie>>
      /\ UNCHANGED <<leaving, made, acked>> /\ failures' \in 0..MaxFailures /\ patch # NoPatch
  BY FailureCounted DEF PatchFails, server
<1>2. HasRun
  BY <1>1 DEF PatchOfRun
<1>3. ProfileTypeOK'
  BY <1>1, NothingIs, CallsGoOn, ServerStays DEF ProfileTypeOK
<1>4. 0 <= Len(logins')
  BY <1>1, ProfileAssumption DEF ProfileTypeOK, SessionIds
<1>5. PatchOfRun' /\ RunGoesOn
  BY <1>1, <1>4, NothingIs DEF PatchOfRun, RunGoesOn, HasRun
<1> QED BY <1>1, <1>2, <1>3, <1>5, CallsGoOn, ServerStays, RunKeeps

\* The server ends a login.
LEMMA LoginEnds ==
  ASSUME ProfileTypeOK, cookie # 0, logins' = [logins EXCEPT ![cookie].valid = FALSE],
         UNCHANGED <<applied, cookie>>
  PROVE  /\ applied' \in [Owners -> Nat] /\ logins' \in Seq(Logins) /\ Len(logins') = Len(logins)
         /\ Len(logins') \in SessionIds /\ cookie' \in 0..Len(logins') /\ LoginsStay
         /\ \A u \in Owners : applied[u] <= applied'[u]
<1> DEFINE ended == [logins[cookie] EXCEPT !.valid = FALSE]
<1>1. /\ logins \in Seq(Logins) /\ Len(logins) \in Nat /\ cookie \in 1..Len(logins)
      /\ Len(logins) \in SessionIds /\ applied \in [Owners -> Nat]
  BY ProfileAssumption DEF ProfileTypeOK, SessionIds
<1>2. ended \in Logins /\ ended.user = logins[cookie].user
  BY <1>1, LoginFields DEF Logins
<1>3. logins' = [logins EXCEPT ![cookie] = ended]
  BY <1>1
<1> HIDE DEF ended
<1>4. /\ logins' \in Seq(Logins) /\ Len(logins') = Len(logins)
      /\ \A n \in 1..Len(logins) : logins'[n] = IF n = cookie THEN ended ELSE logins[n]
  <2> DEFINE after == [logins EXCEPT ![cookie] = ended]
  <2>1. /\ after \in Seq(Logins) /\ Len(after) = Len(logins)
        /\ \A n \in 1..Len(logins) : after[n] = IF n = cookie THEN ended ELSE logins[n]
    BY <1>1, <1>2, ExceptSeq
  <2>2. logins' = after
    BY <1>3
  <2> HIDE DEF after
  <2> QED BY <2>1, <2>2
<1>5. LoginsStay
  <2>1. ASSUME NEW n \in 1..Len(logins) PROVE logins'[n].user = logins[n].user
    BY <1>2, <1>4
  <2> QED BY <1>1, <1>4, <2>1 DEF LoginsStay
<1>6. applied' = applied /\ \A u \in Owners : applied[u] <= applied'[u]
  BY <1>1
<1> QED BY <1>1, <1>4, <1>5, <1>6

\* A login ends at the server, by a logout or by a revocation.
LEMMA LogoutStep == ProfileConsistent /\ (Logout \/ RevokeLogin) => ProfileConsistent'
<1> SUFFICES ASSUME ProfileConsistent, Logout \/ RevokeLogin PROVE ProfileConsistent'
  OBVIOUS
<1> USE DEF ProfileConsistent
<1>1. /\ cookie # 0 /\ logins' = [logins EXCEPT ![cookie].valid = FALSE]
      /\ UNCHANGED <<applied, cookie>> /\ run' = run /\ patch' = patch /\ made' = made /\ acked' = acked
  BY DEF Logout, RevokeLogin, Valid, RunIsSession
<1>2. reads' = Cleared \/ reads' = reads
  BY DEF Logout, RevokeLogin
<1>3. failures' \in 0..MaxFailures /\ leaving' \in BOOLEAN
  BY FailureCounted DEF Logout, RevokeLogin, ProfileTypeOK
<1>4. ProfileTypeOK'
  <2>1. run' \in Runs \union {NoRun} /\ patch' \in PatchCalls /\ made' \in 0..MaxPatches /\ acked' \in Nat
    BY <1>1 DEF ProfileTypeOK
  <2> QED BY <1>1, <1>2, <1>3, <2>1, CallsGoOn, LoginEnds DEF ProfileTypeOK
<1>5. PatchOfRun' /\ RunGoesOn
  BY <1>1, LoginEnds DEF PatchOfRun, RunGoesOn, HasRun
<1> QED BY <1>1, <1>2, <1>4, <1>5, CallsGoOn, LoginEnds, RunKeeps

\* An edit of another device.
LEMMA EditElsewhereStep ==
  ASSUME ProfileConsistent, NEW u \in Owners, EditElsewhere(u)
  PROVE  ProfileConsistent'
<1> USE DEF ProfileConsistent
<1>1. /\ applied' = [applied EXCEPT ![u] = applied[u] + 1] /\ made < MaxPatches /\ made' = made + 1
      /\ logins' = logins /\ cookie' = cookie /\ run' = run /\ patch' = patch /\ reads' = reads
      /\ leaving' = leaving /\ failures' = failures /\ acked' = acked
  BY DEF EditElsewhere
<1>2. applied \in [Owners -> Nat] /\ applied[u] \in Nat
  BY DEF ProfileTypeOK
<1>3. applied' \in [Owners -> Nat]
  BY <1>1, <1>2
<1>4. ASSUME NEW other \in Owners PROVE applied[other] <= applied'[other]
  <2>1. applied[other] \in Nat
    BY <1>2
  <2> QED BY <1>1, <1>2, <2>1
<1>5. made' \in 0..MaxPatches
  BY <1>1, ProfileAssumption DEF ProfileTypeOK
<1>6. ProfileTypeOK'
  BY <1>1, <1>3, <1>5 DEF ProfileTypeOK
<1>7. LoginsStay /\ RunGoesOn /\ \A r \in Reads : GoesOnFor(r)
  BY <1>1, ProfileAssumption DEF LoginsStay, RunGoesOn, GoesOnFor, HasRun, ProfileTypeOK, SessionIds
<1>8. PatchOfRun'
  <2>1. HasRun' <=> HasRun
    BY <1>1 DEF HasRun
  <2>2. ASSUME patch.state = "ok" PROVE patch.answer.at <= applied'[run.user]
    <3>1. HasRun /\ patch.answer \in Preferences /\ patch.answer.at <= applied[run.user]
      BY <2>2, NothingIs DEF PatchOfRun
    <3>2. run.user \in Owners /\ patch.answer.at \in Nat
      BY <3>1, RunFields DEF Preferences
    <3>3. applied[run.user] \in Nat /\ applied'[run.user] \in Nat
      BY <1>2, <1>3, <3>2
    <3> QED BY <1>4, <3>1, <3>2, <3>3
  <2> QED BY <1>1, <2>1, <2>2 DEF PatchOfRun
<1> QED BY <1>1, <1>4, <1>6, <1>7, <1>8, RunKeeps

\* A GET is over without an answer that counts.
LEMMA ReadOver ==
  ASSUME ProfileConsistent, NEW r \in Reads,
         reads' = [reads EXCEPT ![r] = NoRead] \/ reads' = [Cleared EXCEPT ![r] = NoRead],
         UNCHANGED <<server, cookie, run, patch, leaving, made, acked>>,
         failures' \in 0..MaxFailures
  PROVE  ProfileConsistent'
<1> USE DEF ProfileConsistent
<1>1. /\ UNCHANGED <<applied, logins, cookie>> /\ run' = run /\ patch' = patch /\ leaving' = leaving
      /\ made' = made /\ acked' = acked
  BY DEF server
<1>2. reads \in [Reads -> ReadCalls] /\ Cleared \in [Reads -> ReadCalls]
  BY ClearedReads DEF ProfileTypeOK
<1>3. reads' \in [Reads -> ReadCalls]
  BY <1>2, NothingIs
<1>4. ASSUME NEW other \in Reads PROVE GoesOnFor(other)
  <2>1. reads'[other] = NoRead \/ reads'[other] = reads[other] \/ reads'[other] = Cleared[other]
    BY <1>2
  <2> QED BY <2>1, ClearedReads DEF GoesOnFor
<1>5. ProfileTypeOK'
  BY <1>1, <1>3, ServerStays DEF ProfileTypeOK
<1>6. PatchOfRun' /\ RunGoesOn
  BY <1>1 DEF PatchOfRun, RunGoesOn, HasRun
<1> QED BY <1>1, <1>4, <1>5, <1>6, ServerStays, RunKeeps

\* The run is over: whatever was waited for is nobody's.
LEMMA EndedConsistent ==
  ASSUME ProfileConsistent, Ended, UNCHANGED <<server, made, failures>>,
         leaving' \in BOOLEAN, cookie' = cookie \/ cookie' = 0,
         reads' = Orphaned \/ \E r \in Reads : reads' = [Orphaned EXCEPT ![r] = NoRead]
  PROVE  ProfileConsistent'
<1> USE DEF ProfileConsistent
<1>1. /\ applied' = applied /\ logins' = logins /\ made' = made /\ failures' = failures
      /\ run' = NoRun /\ patch' = NoPatch /\ acked' = 0
  BY DEF server, Ended
<1>2. ~HasRun'
  BY <1>1 DEF HasRun
<1>3. reads' \in [Reads -> ReadCalls]
  BY OrphanedReads, NothingIs
<1>4. ASSUME NEW r \in Reads
      PROVE  /\ ~reads'[r].shared /\ reads'[r].versions = {}
             /\ \/ reads'[r] = NoRead
                \/ /\ reads'[r].state = reads[r].state /\ reads'[r].session = reads[r].session
                   /\ reads'[r].answer = reads[r].answer
  <2>1. reads'[r] = NoRead \/ reads'[r] = Orphaned[r]
    BY OrphanedReads
  <2> QED BY <2>1, OrphanedReads, NothingIs
<1>5. AnswersAre'
  <2>1. ASSUME NEW r \in Reads
        PROVE  /\ reads'[r].state = "sent" => reads'[r].session \in 1..Len(logins')
               /\ reads'[r].state = "ok" => reads'[r].answer \in Preferences
    BY <1>1, <1>4, NothingIs DEF AnswersAre
  <2> QED BY <2>1 DEF AnswersAre, Preferences
<1>6. Len(logins') \in SessionIds /\ cookie' \in 0..Len(logins') /\ 0 <= Len(logins')
  BY <1>1, ProfileAssumption DEF ProfileTypeOK, SessionIds
<1>7. ProfileTypeOK'
  BY <1>1, <1>3, <1>6, NothingIs DEF ProfileTypeOK
<1>8. RunIsSession' /\ NothingWithoutRun' /\ ReadsCount' /\ AckedApplied' /\ AcknowledgedShown'
  BY <1>1, <1>2, <1>4 DEF RunIsSession, NothingWithoutRun, ReadsCount, AckedApplied, AcknowledgedShown
<1>9. PatchOfRun'
  BY <1>1, <1>6, NothingIs DEF PatchOfRun
<1> QED BY <1>5, <1>7, <1>8, <1>9

\* The answer to a logout ends the run.
LEMMA LoggedOutStep == ProfileConsistent /\ LoggedOut => ProfileConsistent'
BY EndedConsistent DEF LoggedOut

\* A write without a valid session ends the run it is of, and no other.
LEMMA PatchUnauthorizedStep == ProfileConsistent /\ PatchUnauthorized => ProfileConsistent'
<1> SUFFICES ASSUME ProfileConsistent, PatchUnauthorized PROVE ProfileConsistent'
  OBVIOUS
<1>1. HasRun /\ run.pending > 0 /\ leaving \in BOOLEAN
  BY NothingIs DEF PatchUnauthorized, ProfileConsistent, PatchOfRun, ProfileTypeOK
<1>2. CASE Expires(patch.session)
  BY <1>1, <1>2, EndedConsistent DEF PatchUnauthorized
<1>3. CASE ~Expires(patch.session)
  BY <1>1, <1>3, GivenUpStep DEF PatchUnauthorized
<1> QED BY <1>2, <1>3

\* A GET fails, or is not authorized.
LEMMA ReadOverStep ==
  ASSUME ProfileConsistent, NEW r \in Reads, ReadFails(r) \/ ReadUnauthorized(r)
  PROVE  ProfileConsistent'
<1>1. failures \in 0..MaxFailures /\ leaving \in BOOLEAN
  BY DEF ProfileConsistent, ProfileTypeOK
<1>2. CASE ReadFails(r)
  BY <1>2, ReadOver, FailureCounted DEF ReadFails, ProfileConsistent
<1>3. CASE ReadUnauthorized(r) /\ Expires(reads[r].session)
  BY <1>1, <1>3, EndedConsistent DEF ReadUnauthorized
<1>4. CASE ReadUnauthorized(r) /\ ~Expires(reads[r].session)
  BY <1>1, <1>4, ReadOver DEF ReadUnauthorized
<1> QED BY <1>2, <1>3, <1>4

\* Steps of the GETs leave everything else.
LEMMA OnlyReads ==
  ASSUME ProfileConsistent, reads' \in [Reads -> ReadCalls],
         UNCHANGED <<server, cookie, run, patch, leaving, made, failures, acked>>
  PROVE  /\ ProfileTypeOK' /\ RunIsSession' /\ AckedApplied' /\ PatchOfRun' /\ AcknowledgedShown'
         /\ (HasRun' <=> HasRun)
<1>1. /\ applied' = applied /\ logins' = logins /\ cookie' = cookie /\ run' = run /\ patch' = patch
      /\ leaving' = leaving /\ made' = made /\ failures' = failures /\ acked' = acked
  BY DEF server
<1>2. ProfileTypeOK'
  BY <1>1 DEF ProfileConsistent, ProfileTypeOK
<1>3. RunIsSession' /\ AckedApplied' /\ PatchOfRun' /\ AcknowledgedShown' /\ (HasRun' <=> HasRun)
  BY <1>1 DEF ProfileConsistent, RunIsSession, AckedApplied, PatchOfRun, AcknowledgedShown, HasRun
<1> QED BY <1>2, <1>3

\* What ReadsCount and AnswersAre say of one GET.
Counted(r) ==
  /\ \A v \in reads[r].versions : v <= run.version
  /\ Counts(r) /\ reads[r].state = "sent" => logins[reads[r].session].user = run.user
  /\ Counts(r) /\ reads[r].state = "ok" =>
       reads[r].answer.of = run.user /\ reads[r].answer.at >= acked
Answered(r) ==
  /\ reads[r].state = "sent" => reads[r].session \in 1..Len(logins)
  /\ reads[r].state = "ok" => reads[r].answer \in Preferences

\* A refresh joins the GET on its way or sends one.
LEMMA RefreshStep == ProfileConsistent /\ Refresh => ProfileConsistent'
<1> SUFFICES ASSUME ProfileConsistent, Refresh PROVE ProfileConsistent'
  OBVIOUS
<1> USE DEF ProfileConsistent
<1>1. /\ HasRun /\ cookie # 0
      /\ UNCHANGED <<server, cookie, run, patch, leaving, made, failures, acked>>
  BY DEF Refresh
<1>2. PICK r \in Reads :
        \/ /\ reads[r].shared
           /\ reads' = [reads EXCEPT ![r].versions = @ \union {run.version}]
        \/ reads' = [reads EXCEPT ![r] =
              [state |-> "sent", session |-> cookie, answer |-> NoPreferences,
               shared |-> TRUE, versions |-> {run.version}]]
  BY DEF Refresh
<1>3. run.version \in Nat /\ cookie \in SessionIds /\ cookie \in 1..Len(logins)
  BY <1>1, RunFields, ProfileAssumption DEF ProfileTypeOK, SessionIds
<1>4. PICK call \in ReadCalls :
        /\ reads' = [reads EXCEPT ![r] = call] /\ call.shared
        /\ \/ /\ reads[r].shared /\ call.state = reads[r].state /\ call.session = reads[r].session
              /\ call.answer = reads[r].answer
              /\ call.versions = reads[r].versions \union {run.version}
           \/ call.state = "sent" /\ call.session = cookie /\ call.versions = {run.version}
  <2>1. CASE /\ reads[r].shared
             /\ reads' = [reads EXCEPT ![r].versions = @ \union {run.version}]
    <3> DEFINE joined == [reads[r] EXCEPT !.versions = reads[r].versions \union {run.version}]
    <3>1. /\ joined \in ReadCalls /\ joined.shared /\ joined.state = reads[r].state
          /\ joined.session = reads[r].session /\ joined.answer = reads[r].answer
          /\ joined.versions = reads[r].versions \union {run.version}
      BY <1>3, <2>1, ReadFieldsOf DEF ReadCalls
    <3>2. reads' = [reads EXCEPT ![r] = joined]
      BY <2>1
    <3> QED BY <2>1, <3>1, <3>2
  <2>2. CASE reads' = [reads EXCEPT ![r] =
              [state |-> "sent", session |-> cookie, answer |-> NoPreferences,
               shared |-> TRUE, versions |-> {run.version}]]
    <3> DEFINE asked == [state |-> "sent", session |-> cookie, answer |-> NoPreferences,
                         shared |-> TRUE, versions |-> {run.version}]
    <3>1. asked \in ReadCalls /\ asked.shared /\ asked.state = "sent" /\ asked.session = cookie
          /\ asked.versions = {run.version}
      BY <1>3, NothingIs DEF ReadCalls
    <3> QED BY <2>2, <3>1
  <2> QED BY <1>2, <2>1, <2>2
<1>5. reads \in [Reads -> ReadCalls]
  BY DEF ProfileTypeOK
<1>6. reads' \in [Reads -> ReadCalls] /\ reads'[r] = call /\ \A other \in Reads \ {r} : reads'[other] = reads[other]
  BY <1>4, <1>5
<1>7. ProfileTypeOK' /\ RunIsSession' /\ AckedApplied' /\ PatchOfRun' /\ AcknowledgedShown' /\ HasRun'
  BY <1>1, <1>6, OnlyReads
<1>8. run' = run /\ logins' = logins /\ acked' = acked
  BY <1>1 DEF server
<1>9. logins[cookie].user = run.user
  BY <1>1 DEF RunIsSession
<1>10. ASSUME NEW other \in Reads PROVE Counted(other)' /\ Answered(other)'
  <2>1. Counted(other) /\ Answered(other)
    BY <1>1 DEF Counted, Answered, ReadsCount, AnswersAre
  <2>2. CASE other = r
    <3>1. reads'[r] = call
      BY <1>6
    <3>2. CASE call.state = "sent" /\ call.session = cookie /\ call.versions = {run.version}
      BY <1>3, <1>8, <1>9, <2>2, <3>1, <3>2 DEF Counted, Answered
    <3>3. CASE /\ reads[r].shared /\ call.state = reads[r].state /\ call.session = reads[r].session
               /\ call.answer = reads[r].answer
               /\ call.versions = reads[r].versions \union {run.version}
      <4>1. Counts(r)
        BY <3>3 DEF Counts
      <4>2. \A v \in reads'[r].versions : v <= run'.version
        BY <1>3, <1>8, <2>1, <2>2, <3>1, <3>3 DEF Counted
      <4> QED BY <1>8, <2>1, <2>2, <3>1, <3>3, <4>1, <4>2 DEF Counted, Answered
    <3> QED BY <1>4, <3>2, <3>3
  <2>3. CASE other # r
    BY <1>6, <1>8, <2>1, <2>3 DEF Counted, Answered, Counts
  <2> QED BY <2>2, <2>3
<1>11. ReadsCount' /\ AnswersAre'
  BY <1>10 DEF Counted, Answered, Counts, ReadsCount, AnswersAre, Preferences
<1> QED BY <1>7, <1>11 DEF NothingWithoutRun

\* One GET becomes another, and counts or not.
LEMMA OneReadChanges ==
  ASSUME ProfileConsistent, NEW r \in Reads, NEW call \in ReadCalls,
         reads' = [reads EXCEPT ![r] = call],
         UNCHANGED <<server, cookie, run, patch, leaving, made, failures, acked>>,
         call.shared => reads[r].shared, call.versions \subseteq reads[r].versions,
         call.state # "sent",
         call.state = "ok" =>
           /\ call.answer \in Preferences
           /\ HasRun /\ Counts(r) => call.answer.of = run.user /\ call.answer.at >= acked
  PROVE  ProfileConsistent'
<1> USE DEF ProfileConsistent
<1>1. reads \in [Reads -> ReadCalls]
  BY DEF ProfileTypeOK
<1>2. reads' \in [Reads -> ReadCalls] /\ reads'[r] = call /\ \A other \in Reads \ {r} : reads'[other] = reads[other]
  BY <1>1
<1>3. /\ ProfileTypeOK' /\ RunIsSession' /\ AckedApplied' /\ PatchOfRun' /\ AcknowledgedShown'
      /\ (HasRun' <=> HasRun)
  BY <1>2, OnlyReads
<1>4. run' = run /\ logins' = logins /\ acked' = acked /\ patch' = patch
  BY DEF server
<1>5. NothingWithoutRun'
  <2>1. ASSUME ~HasRun, NEW other \in Reads PROVE ~reads'[other].shared /\ reads'[other].versions = {}
    <3>1. ~reads[other].shared /\ reads[other].versions = {}
      BY <2>1 DEF NothingWithoutRun
    <3> QED BY <1>2, <3>1
  <2> QED BY <1>3, <1>4, <2>1 DEF NothingWithoutRun
<1>6. ASSUME NEW other \in Reads PROVE Answered(other)'
  <2>1. Answered(other)
    BY DEF Answered, AnswersAre
  <2> QED BY <1>2, <1>4, <2>1 DEF Answered, Preferences
<1>7. ASSUME HasRun, NEW other \in Reads PROVE Counted(other)'
  <2>1. Counted(other)
    BY <1>7 DEF Counted, ReadsCount
  <2>2. CASE other = r
    <3>1. Counts(r)' => Counts(r)
      BY <1>2, <1>4 DEF Counts
    <3>2. \A v \in reads'[r].versions : v <= run'.version
      BY <1>2, <1>4, <2>1, <2>2 DEF Counted
    <3> QED BY <1>2, <1>4, <1>7, <2>2, <3>1, <3>2 DEF Counted
  <2>3. CASE other # r
    BY <1>2, <1>4, <2>1, <2>3 DEF Counted, Counts
  <2> QED BY <2>2, <2>3
<1>8. ReadsCount' /\ AnswersAre'
  BY <1>3, <1>6, <1>7 DEF Counted, Answered, Counts, ReadsCount, AnswersAre, Preferences
<1> QED BY <1>3, <1>5, <1>8

\* A GET is served.
LEMMA ServeReadStep ==
  ASSUME ProfileConsistent, NEW r \in Reads, ServeRead(r)
  PROVE  ProfileConsistent'
<1> USE DEF ProfileConsistent
<1> DEFINE session == logins[reads[r].session]
<1>1. reads[r].state = "sent" /\ UNCHANGED <<server, cookie, run, patch, leaving, made, failures, acked>>
  BY DEF ServeRead
<1>2. reads[r].session \in 1..Len(logins) /\ session.user \in Owners
  BY <1>1, LoginFields DEF AnswersAre
<1>3. applied[session.user] \in Nat
  BY <1>2 DEF ProfileTypeOK
<1>4. CASE session.valid
  <2> DEFINE answer == [of |-> session.user, at |-> applied[session.user]]
             call == [[reads[r] EXCEPT !.state = "ok"] EXCEPT !.answer = answer]
  <2>1. answer \in Preferences /\ answer \in Answers
    BY <1>2, <1>3 DEF Preferences, Answers
  <2>2. reads' = [reads EXCEPT ![r] = call]
    BY <1>4 DEF ServeRead, ProfileTypeOK
  <2>3. /\ call \in ReadCalls /\ call.state = "ok" /\ call.shared = reads[r].shared
        /\ call.versions = reads[r].versions /\ call.answer = answer
    <3> HIDE DEF answer
    <3> QED BY <2>1, ReadFieldsOf DEF ReadCalls
  <2>4. ASSUME HasRun, Counts(r) PROVE answer.of = run.user /\ answer.at >= acked
    <3>1. session.user = run.user
      BY <1>1, <2>4 DEF ReadsCount
    <3>2. acked <= applied[run.user] /\ acked \in Nat
      BY <2>4 DEF AckedApplied, ProfileTypeOK
    <3> QED BY <1>3, <3>1, <3>2
  <2>5. call.answer \in Preferences /\ (HasRun /\ Counts(r) => call.answer.of = run.user /\ call.answer.at >= acked)
    BY <2>1, <2>3, <2>4
  <2>6. (call.shared => reads[r].shared) /\ call.versions \subseteq reads[r].versions /\ call.state # "sent"
    BY <2>3
  <2> HIDE DEF call
  <2> QED BY <1>1, <2>2, <2>3, <2>5, <2>6, OneReadChanges
<1>5. CASE ~session.valid
  <2> DEFINE call == [reads[r] EXCEPT !.state = "unauthorized"]
  <2>1. reads' = [reads EXCEPT ![r] = call]
    BY <1>5 DEF ServeRead, ProfileTypeOK
  <2>2. /\ call \in ReadCalls /\ call.state = "unauthorized" /\ call.shared = reads[r].shared
        /\ call.versions = reads[r].versions
    BY ReadFieldsOf DEF ReadCalls
  <2> HIDE DEF call
  <2>3. (call.shared => reads[r].shared) /\ call.versions \subseteq reads[r].versions /\ call.state # "sent"
        /\ call.state # "ok"
    BY <2>2
  <2> QED BY <1>1, <2>1, <2>2, <2>3, OneReadChanges
<1> QED BY <1>4, <1>5

\* What a GET answers is shown unless a write was completed after it was asked.
LEMMA ReadAnswersStep ==
  ASSUME ProfileConsistent, NEW r \in Reads, ReadAnswers(r)
  PROVE  ProfileConsistent'
<1> USE DEF ProfileConsistent
<1>1. /\ reads[r].state = "ok" /\ reads' = [reads EXCEPT ![r] = NoRead]
      /\ UNCHANGED <<server, cookie, patch, leaving, made, failures, acked>>
      /\ run' = IF HasRun /\ run.version \in reads[r].versions
                THEN [run EXCEPT !.confirmed = reads[r].answer] ELSE run
  BY DEF ReadAnswers
<1>2. CASE run' = run
  <2>1. failures' \in 0..MaxFailures
    BY <1>1 DEF ProfileTypeOK
  <2> QED BY <1>1, <1>2, <2>1, ReadOver
<1>3. CASE HasRun /\ run.version \in reads[r].versions
  <2>1. /\ reads[r].answer \in Preferences /\ reads[r].answer \in Answers
        /\ reads[r].answer.of = run.user /\ reads[r].answer.at >= acked
    BY <1>1, <1>3 DEF AnswersAre, Answers, ReadsCount, Counts
  <2>2. run' = [run EXCEPT !.confirmed = reads[r].answer]
    BY <1>1, <1>3
  <2>3. /\ run' \in Runs /\ run'.user = run.user /\ run'.version = run.version /\ run'.pending = run.pending
        /\ run'.confirmed = reads[r].answer
    BY <1>3, <2>1, <2>2, RunFields DEF Runs
  <2>4. HasRun'
    BY <2>3 DEF HasRun, Runs, NoRun
  <2>5. /\ applied' = applied /\ logins' = logins /\ cookie' = cookie /\ patch' = patch
        /\ leaving' = leaving /\ made' = made /\ failures' = failures /\ acked' = acked
    BY <1>1 DEF server
  <2>6. reads \in [Reads -> ReadCalls]
    BY DEF ProfileTypeOK
  <2>7. /\ reads' \in [Reads -> ReadCalls] /\ reads'[r] = NoRead
        /\ \A other \in Reads \ {r} : reads'[other] = reads[other]
    BY <1>1, <2>6, NothingIs
  <2>8. ProfileTypeOK'
    BY <2>3, <2>5, <2>7 DEF ProfileTypeOK
  <2>9. RunIsSession' /\ NothingWithoutRun' /\ AckedApplied'
    BY <1>3, <2>3, <2>4, <2>5 DEF RunIsSession, NothingWithoutRun, AckedApplied
  <2>10. PatchOfRun'
    BY <2>3, <2>4, <2>5 DEF PatchOfRun
  <2>11. AcknowledgedShown'
    BY <2>1, <2>3, <2>5 DEF AcknowledgedShown
  <2>12. ASSUME NEW other \in Reads PROVE Counted(other)' /\ Answered(other)'
    <3>1. Counted(other) /\ Answered(other)
      BY <1>3 DEF Counted, Answered, ReadsCount, AnswersAre
    <3>2. CASE other = r
      BY <2>7, <3>2, NothingIs DEF Counted, Answered
    <3>3. CASE other # r
      BY <2>3, <2>5, <2>7, <3>1, <3>3 DEF Counted, Answered, Counts
    <3> QED BY <3>2, <3>3
  <2>13. ReadsCount' /\ AnswersAre'
    BY <2>12 DEF Counted, Answered, Counts, ReadsCount, AnswersAre, Preferences
  <2> QED BY <2>8, <2>9, <2>10, <2>11, <2>13
<1> QED BY <1>1, <1>2, <1>3

\* A write is completed: what was asked before it does not count any more.
LEMMA PatchAnswersStep == ProfileConsistent /\ PatchAnswers => ProfileConsistent'
<1> SUFFICES ASSUME ProfileConsistent, PatchAnswers PROVE ProfileConsistent'
  OBVIOUS
<1> USE DEF ProfileConsistent
<1>1. /\ patch.state = "ok" /\ UNCHANGED <<server, cookie, leaving, made, failures>>
      /\ run' = [run EXCEPT !.pending = @ - 1, !.confirmed = patch.answer, !.version = @ + 1]
      /\ acked' = patch.answer.at /\ reads' = Cleared
      /\ patch' = IF run.pending > 1 THEN Send ELSE NoPatch
  BY DEF PatchAnswers
<1>2. /\ HasRun /\ run.pending > 0 /\ patch.answer \in Preferences /\ patch.answer \in Answers
      /\ patch.answer.of = run.user /\ patch.answer.at <= applied[run.user]
  BY <1>1, NothingIs DEF PatchOfRun, Answers
<1>3. run \in Runs /\ run.pending \in Nat /\ run.version \in Nat /\ patch.answer.at \in Nat
  BY <1>2, RunFields DEF Preferences
<1>4. /\ run' \in Runs /\ run'.user = run.user /\ run'.version = run.version + 1
      /\ run'.pending = run.pending - 1 /\ run'.confirmed = patch.answer
  <2>1. run' = [[[run EXCEPT !.pending = run.pending - 1] EXCEPT !.confirmed = patch.answer]
                  EXCEPT !.version = run.version + 1]
    BY <1>1
  <2>2. run.pending - 1 \in Nat /\ run.version + 1 \in Nat
    BY <1>2, <1>3
  <2> QED BY <1>2, <1>3, <2>1, <2>2 DEF Runs
<1>5. HasRun'
  BY <1>4 DEF HasRun, Runs, NoRun
<1>6. /\ applied' = applied /\ logins' = logins /\ cookie' = cookie /\ leaving' = leaving
      /\ made' = made /\ failures' = failures
  BY <1>1 DEF server
<1>7. reads' \in [Reads -> ReadCalls]
  BY <1>1, ClearedReads
<1>8. patch' \in PatchCalls
  BY <1>1, SendIs, NothingIs
<1>9. ProfileTypeOK'
  BY <1>1, <1>3, <1>4, <1>6, <1>7, <1>8 DEF ProfileTypeOK
<1>10. ASSUME NEW r \in Reads PROVE Counted(r)' /\ Answered(r)'
  <2>1. Counted(r) /\ Answered(r)
    BY <1>2 DEF Counted, Answered, ReadsCount, AnswersAre
  <2>2. /\ reads'[r].state = reads[r].state /\ reads'[r].session = reads[r].session
        /\ reads'[r].answer = reads[r].answer /\ reads'[r].versions = reads[r].versions
        /\ ~reads'[r].shared
    BY <1>1, ClearedReads
  <2>3. \A v \in reads[r].versions : v \in Nat /\ v < run.version + 1
    BY <1>3, <2>1, ReadFieldsOf DEF Counted
  <2>4. ~Counts(r)'
    BY <1>3, <1>4, <2>2, <2>3 DEF Counts
  <2>5. \A v \in reads'[r].versions : v <= run'.version
    BY <1>3, <1>4, <2>2, <2>3
  <2> QED BY <1>6, <2>1, <2>2, <2>4, <2>5 DEF Counted, Answered
<1>11. ReadsCount' /\ AnswersAre'
  BY <1>10 DEF Counted, Answered, Counts, ReadsCount, AnswersAre, Preferences
<1>12. RunIsSession' /\ NothingWithoutRun' /\ AckedApplied' /\ AcknowledgedShown'
  BY <1>1, <1>2, <1>3, <1>4, <1>5, <1>6 DEF RunIsSession, NothingWithoutRun, AckedApplied, AcknowledgedShown
<1>13. PatchOfRun'
  <2>1. cookie <= Len(logins') /\ 0 <= Len(logins')
    BY <1>6, ProfileAssumption DEF ProfileTypeOK, SessionIds
  <2>2. CASE run.pending > 1
    BY <1>1, <1>3, <1>4, <1>5, <2>1, <2>2, SendIs DEF PatchOfRun
  <2>3. CASE ~(run.pending > 1)
    BY <1>1, <2>1, <2>3, NothingIs DEF PatchOfRun
  <2> QED BY <2>2, <2>3
<1> QED BY <1>9, <1>11, <1>12, <1>13

\* A login starts a run that shows nothing yet and waits for nothing.
LEMMA LoginStep ==
  ASSUME ProfileConsistent, NEW u \in Owners, Login(u)
  PROVE  ProfileConsistent'
<1> USE DEF ProfileConsistent
<1> DEFINE login == [user |-> u, valid |-> TRUE]
<1>1. /\ ~HasRun /\ Len(logins) < MaxSessions /\ logins' = Append(logins, login)
      /\ cookie' = Len(logins) + 1
      /\ run' = [user |-> u, confirmed |-> NoPreferences, pending |-> 0, version |-> 0]
      /\ reads' = Cleared /\ UNCHANGED <<applied, patch, leaving, made, failures, acked>>
  BY DEF Login
<1>2. /\ logins \in Seq(Logins) /\ Len(logins) \in Nat /\ login \in Logins
      /\ applied \in [Owners -> Nat] /\ MaxSessions \in Nat
  BY ProfileAssumption DEF ProfileTypeOK, Logins, SessionIds
<1>3. /\ logins' \in Seq(Logins) /\ Len(logins') = Len(logins) + 1
      /\ \A n \in 1..Len(logins) : logins'[n] = logins[n]
      /\ logins'[Len(logins) + 1] = login
  <2> DEFINE after == Append(logins, login)
  <2>1. /\ after \in Seq(Logins) /\ Len(after) = Len(logins) + 1
        /\ \A n \in 1..Len(logins) : after[n] = logins[n]
        /\ after[Len(logins) + 1] = login
    <3> HIDE DEF login
    <3> QED BY <1>2, AppendProperties
  <2>2. logins' = after
    BY <1>1
  <2> HIDE DEF after, login
  <2> QED BY <2>1, <2>2
<1>4. Len(logins') \in SessionIds /\ cookie' \in 0..Len(logins')
  BY <1>1, <1>2, <1>3 DEF SessionIds
<1>5. run' \in Runs /\ run'.user = u /\ run'.confirmed = NoPreferences
  BY <1>1, NothingIs DEF Runs
<1>6. reads' \in [Reads -> ReadCalls]
  BY <1>1, ClearedReads
<1>7. ProfileTypeOK'
  <2>1. /\ applied' \in [Owners -> Nat] /\ patch' \in PatchCalls /\ leaving' \in BOOLEAN
        /\ made' \in 0..MaxPatches /\ failures' \in 0..MaxFailures /\ acked' \in Nat
    BY <1>1 DEF ProfileTypeOK
  <2> QED BY <1>3, <1>4, <1>5, <1>6, <2>1 DEF ProfileTypeOK
<1>8. HasRun'
  BY <1>5 DEF HasRun, Runs, NoRun
<1>9. patch' = NoPatch /\ acked' = 0
  BY <1>1 DEF NothingWithoutRun
<1>10. ASSUME NEW r \in Reads PROVE Counted(r)' /\ Answered(r)'
  <2>1. /\ reads'[r].state = reads[r].state /\ reads'[r].session = reads[r].session
        /\ reads'[r].answer = reads[r].answer /\ reads'[r].versions = {} /\ ~reads'[r].shared
    BY <1>1, ClearedReads DEF NothingWithoutRun
  <2>2. ~Counts(r)'
    BY <2>1 DEF Counts
  <2>3. Answered(r)
    BY DEF Answered, AnswersAre
  <2> QED BY <1>2, <1>3, <2>1, <2>2, <2>3 DEF Counted, Answered, Preferences
<1>11. ReadsCount' /\ AnswersAre'
  BY <1>10 DEF Counted, Answered, Counts, ReadsCount, AnswersAre, Preferences
<1>12. RunIsSession' /\ NothingWithoutRun' /\ AcknowledgedShown'
  BY <1>1, <1>2, <1>3, <1>5, <1>8 DEF RunIsSession, NothingWithoutRun, AcknowledgedShown
<1>13. AckedApplied'
  <2>1. applied'[u] \in Nat
    BY <1>1, <1>2
  <2> QED BY <1>5, <1>9, <2>1 DEF AckedApplied
<1>14. PatchOfRun'
  BY <1>2, <1>3, <1>9, NothingIs DEF PatchOfRun
<1> QED BY <1>7, <1>11, <1>12, <1>13, <1>14

\* A step of the preferences keeps all of it.
LEMMA ProfileStep == ProfileConsistent /\ [ProfileNext]_profileVars => ProfileConsistent'
<1> SUFFICES ASSUME ProfileConsistent, [ProfileNext]_profileVars PROVE ProfileConsistent'
  OBVIOUS
<1>1. CASE UNCHANGED profileVars
  BY <1>1 DEF profileVars, ProfileConsistent, ProfileTypeOK, RunIsSession, NothingWithoutRun,
     ReadsCount, Counts, AnswersAre, AckedApplied, PatchOfRun, AcknowledgedShown, HasRun
<1>2. CASE Update \/ Retry \/ ServePatch \/ RefusePatch \/ RejectPatch
  BY <1>2, UpdateStep, RetryStep, ServePatchStep, NotServedStep
<1>3. CASE PatchAnswers \/ PatchRefused \/ PatchUnauthorized \/ PatchFails
  BY <1>3, PatchAnswersStep, PatchRefusedStep, PatchUnauthorizedStep, PatchFailsStep
<1>4. CASE Logout \/ LoggedOut \/ RevokeLogin \/ Refresh
  BY <1>4, LogoutStep, LoggedOutStep, RefreshStep
<1>5. ASSUME NEW r \in Reads, ServeRead(r) \/ ReadAnswers(r) \/ ReadFails(r) \/ ReadUnauthorized(r)
      PROVE  ProfileConsistent'
  BY <1>5, ServeReadStep, ReadAnswersStep, ReadOverStep
<1>6. ASSUME NEW u \in Owners, Login(u) \/ EditElsewhere(u) PROVE ProfileConsistent'
  BY <1>6, LoginStep, EditElsewhereStep
<1> QED BY <1>1, <1>2, <1>3, <1>4, <1>5, <1>6 DEF ProfileNext

=============================================================================
