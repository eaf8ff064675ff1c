---------------------------- MODULE PagesProofs -----------------------------
(***************************************************************************)
(* Proofs about the website's pages: the buffered writer (BufferedWriter) and *)
(* the console (ConsoleStream), the card of an account on the dashboard    *)
(* (DashboardView), the field of a note (AccountNote), the page of an account *)
(* (AccountPage), the form of who may see it (AccessForm) and the table of users *)
(* (UserTable), for any number of entries, lines, flushes, keys, requests, *)
(* readings, connections and failures.                                     *)
(***************************************************************************)
EXTENDS MCPages, SequenceTheorems, FiniteSetTheorems, TLAPS

-----------------------------------------------------------------------------
(***************************************************************************)
(* The buffered writer: the batches, what is left of the one being saved and *)
(* the queue follow each other without a gap.                              *)
(***************************************************************************)

\* The entries of s are the last ones up to "end", in order.
UpTo(s, end) ==
  /\ Len(s) <= end
  /\ \A i \in 1..Len(s) : s[i] = end - Len(s) + i

\* Entries taken into batches so far.
Taken == accepted - Len(queue)

\* One save at a time; all entries before what is left of it are settled.
OneSave ==
  IF running = None
  THEN saves = {} /\ Settled = 1..Taken
  ELSE \E s \in saves :
         /\ saves = {s} /\ s.of = running
         /\ UpTo(s.left, Taken)
         /\ Settled = 1..(Taken - Len(s.left))

WriterConsistent ==
  /\ TypeOK /\ UpTo(queue, accepted) /\ OneSave
  /\ resolved \intersect rejected = {}
  /\ Contents(table) = resolved /\ WrittenInOrder

-----------------------------------------------------------------------------
LEMMA InitConsistent == Init => WriterConsistent
<1> SUFFICES ASSUME Init PROVE WriterConsistent
  OBVIOUS
<1>1. TypeOK
  <2>1. Outside \in FlushStates
    BY DEF Outside, FlushStates
  <2>2. flush \in [Flushers -> FlushStates]
    BY <2>1 DEF Init
  <2>3. accepted \in 0..MaxEntries
    BY BufferedWriterAssumption DEF Init
  <2>4. <<>> \in Seq(Entries)
    BY EmptySeq
  <2> QED BY <2>2, <2>3, <2>4 DEF Init, TypeOK
<1>2. UpTo(queue, accepted) /\ Taken = 0
  <2>1. Len(queue) = 0 /\ accepted = 0
    BY EmptySeq DEF Init
  <2> QED BY <2>1 DEF UpTo, Taken
<1>3. OneSave
  BY <1>2 DEF Init, OneSave, Settled
<1>4. Contents(table) = {} /\ WrittenInOrder
  BY DEF Init, Contents, WrittenInOrder
<1> QED BY <1>1, <1>2, <1>3, <1>4 DEF WriterConsistent, Init

\* What the sequences of the writer hold.
LEMMA UpToContents ==
  ASSUME NEW s \in Seq(Entries), NEW end \in Nat, UpTo(s, end)
  PROVE  Contents(s) = (end - Len(s) + 1)..end
<1>1. Len(s) \in Nat /\ DOMAIN s = 1..Len(s)
  BY LenProperties
<1>2. ASSUME NEW n \in Contents(s) PROVE n \in (end - Len(s) + 1)..end
  BY <1>1, <1>2 DEF Contents, UpTo
<1>3. ASSUME NEW n \in (end - Len(s) + 1)..end PROVE n \in Contents(s)
  <2>1. n - (end - Len(s)) \in 1..Len(s)
    BY <1>1, <1>3 DEF UpTo
  <2>2. s[n - (end - Len(s))] = n
    BY <1>1, <1>3, <2>1 DEF UpTo
  <2> QED BY <1>1, <2>1, <2>2 DEF Contents
<1> QED BY <1>2, <1>3

\* The first and the rest of a sequence.
LEMMA Split ==
  ASSUME NEW s \in Seq(Entries), NEW n \in Nat \ {0}, NEW end \in Nat, UpTo(s, end)
  PROVE  /\ FirstOf(s, n) \in Seq(Entries) /\ RestOf(s, n) \in Seq(Entries)
         /\ Len(FirstOf(s, n)) + Len(RestOf(s, n)) = Len(s)
         /\ Len(FirstOf(s, n)) = IF n < Len(s) THEN n ELSE Len(s)
         /\ UpTo(FirstOf(s, n), end - Len(RestOf(s, n)))
         /\ UpTo(RestOf(s, n), end)
<1> DEFINE m == IF n < Len(s) THEN n ELSE Len(s)
<1>1. Len(s) \in Nat /\ m \in Nat /\ m <= Len(s) /\ \A i \in 1..Len(s) : s[i] \in Entries
  BY LenProperties, ElementOfSeq
<1>2. /\ FirstOf(s, n) \in Seq(Entries) /\ Len(FirstOf(s, n)) = m
      /\ \A i \in 1..m : FirstOf(s, n)[i] = s[i]
  <2>1. \A i \in 1..m : s[i] \in Entries
    BY <1>1
  <2>2. /\ SubSeq(s, 1, m) \in Seq(Entries) /\ Len(SubSeq(s, 1, m)) = IF 1 <= m THEN m - 1 + 1 ELSE 0
        /\ \A i \in 1..(m - 1 + 1) : SubSeq(s, 1, m)[i] = s[1 + i - 1]
    BY <1>1, <2>1, SubSeqProperties
  <2> QED BY <1>1, <2>2 DEF FirstOf
<1>3. /\ RestOf(s, n) \in Seq(Entries) /\ Len(RestOf(s, n)) = Len(s) - m
      /\ \A i \in 1..(Len(s) - m) : RestOf(s, n)[i] = s[i + m]
  <2>1. \A i \in (n + 1)..Len(s) : s[i] \in Entries
    BY <1>1
  <2>2. /\ SubSeq(s, n + 1, Len(s)) \in Seq(Entries)
        /\ Len(SubSeq(s, n + 1, Len(s))) = IF n + 1 <= Len(s) THEN Len(s) - (n + 1) + 1 ELSE 0
        /\ \A i \in 1..(Len(s) - (n + 1) + 1) : SubSeq(s, n + 1, Len(s))[i] = s[(n + 1) + i - 1]
    BY <1>1, <2>1, SubSeqProperties
  <2> QED BY <1>1, <2>2 DEF RestOf
<1>4. UpTo(FirstOf(s, n), end - (Len(s) - m))
  BY <1>1, <1>2 DEF UpTo
<1>5. UpTo(RestOf(s, n), end)
  <2>1. ASSUME NEW i \in 1..Len(RestOf(s, n))
        PROVE  RestOf(s, n)[i] = end - Len(RestOf(s, n)) + i
    <3>1. i + m \in 1..Len(s) /\ i \in 1..(Len(s) - m)
      BY <1>1, <1>3
    <3>2. RestOf(s, n)[i] = s[i + m] /\ s[i + m] = end - Len(s) + (i + m)
      BY <1>3, <3>1 DEF UpTo
    <3> HIDE DEF m
    <3> QED BY <1>1, <1>3, <3>2
  <2>2. Len(RestOf(s, n)) <= end
    BY <1>1, <1>3 DEF UpTo
  <2> QED BY <2>1, <2>2 DEF UpTo
<1> QED BY <1>1, <1>2, <1>3, <1>4, <1>5

\* The type invariant, apart from what a save holds.
LEMMA SaveFields ==
  ASSUME NEW s \in Saves
  PROVE  s.of \in Entries /\ s.left \in Seq(Entries) /\ s.whole \in BOOLEAN
BY DEF Saves

\* drain takes the next batch if no save is under way.
LEMMA DrainConsistent ==
  ASSUME WriterConsistent, Drain, UNCHANGED <<accepted, resolved, rejected, table>>
  PROVE  /\ UpTo(queue', accepted') /\ OneSave'
         /\ queue' \in Seq(Entries) /\ running' \in {None} \union Entries /\ saves' \subseteq Saves
         /\ queue # <<>> => running' # None
<1>1. /\ queue \in Seq(Entries) /\ accepted \in Nat /\ UpTo(queue, accepted)
      /\ running \in {None} \union Entries /\ saves \subseteq Saves
  BY DEF WriterConsistent, TypeOK
<1>2. CASE ~Drains
  BY <1>1, <1>2 DEF Drain, Drains, WriterConsistent, OneSave, Taken, Settled
<1>3. CASE Drains
  <2> DEFINE new == [of |-> Head(queue), left |-> FirstOf(queue, BatchSize), whole |-> TRUE]
  <2>1. /\ running = None /\ queue # <<>> /\ saves = {} /\ Settled = 1..Taken
        /\ running' = Head(queue) /\ saves' = {new} /\ queue' = RestOf(queue, BatchSize)
    BY <1>3 DEF Drain, Drains, WriterConsistent, OneSave
  <2>2. /\ FirstOf(queue, BatchSize) \in Seq(Entries) /\ queue' \in Seq(Entries)
        /\ Len(FirstOf(queue, BatchSize)) + Len(queue') = Len(queue)
        /\ UpTo(FirstOf(queue, BatchSize), accepted - Len(queue')) /\ UpTo(queue', accepted)
    BY <1>1, <2>1, Split, BufferedWriterAssumption
  <2>3. Head(queue) \in Entries /\ Head(queue) # None
    <3>1. Head(queue) \in Entries
      BY <1>1, <2>1, HeadTailProperties
    <3> QED BY <3>1, BufferedWriterAssumption DEF Entries, None
  <2>4. new \in Saves
    BY <2>2, <2>3 DEF Saves
  <2>5. new.of = running' /\ new.left = FirstOf(queue, BatchSize)
    BY <2>1
  <2>6. /\ Len(queue) \in Nat /\ Len(queue') \in Nat /\ Len(new.left) \in Nat
        /\ Taken' = accepted - Len(queue') /\ Taken = accepted - Len(queue)
    BY <1>1, <2>2, <2>5, LenProperties DEF Taken
  <2>7. Taken = Taken' - Len(new.left)
    BY <1>1, <2>2, <2>5, <2>6
  <2>8. Settled' = 1..(Taken' - Len(new.left)) /\ UpTo(new.left, Taken')
    BY <2>1, <2>2, <2>5, <2>6, <2>7 DEF Settled
  <2> HIDE DEF new
  <2>9. OneSave'
    BY <2>1, <2>3, <2>5, <2>8 DEF OneSave
  <2> QED BY <2>1, <2>2, <2>3, <2>4, <2>9
<1> QED BY <1>2, <1>3

\* The parts of the invariant that only an end of a transaction touches.
Written ==
  /\ resolved \subseteq Entries /\ rejected \subseteq Entries /\ table \in Seq(Entries)
  /\ resolved \intersect rejected = {} /\ Contents(table) = resolved /\ WrittenInOrder

LEMMA WrittenStays ==
  ASSUME WriterConsistent, UNCHANGED <<resolved, rejected, table>>
  PROVE  Written'
BY DEF WriterConsistent, TypeOK, Written, Contents, WrittenInOrder

LEMMA EnqueueConsistent ==
  ASSUME WriterConsistent, Enqueue
  PROVE  WriterConsistent'
<1>1. /\ queue \in Seq(Entries) /\ accepted \in 0..MaxEntries /\ UpTo(queue, accepted)
      /\ accepted' = accepted + 1 /\ queue' = Append(queue, accepted') /\ accepted' <= MaxEntries
      /\ UNCHANGED <<running, saves, resolved, rejected, table, flush>>
      /\ timer' \in BOOLEAN
  BY BufferedWriterAssumption DEF WriterConsistent, TypeOK, Enqueue, Scheduled
<1>2. accepted' \in Entries /\ accepted' \in 0..MaxEntries
  BY <1>1, BufferedWriterAssumption DEF Entries
<1>3. /\ queue' \in Seq(Entries) /\ Len(queue') = Len(queue) + 1 /\ Len(queue) \in Nat
      /\ \A i \in 1..Len(queue) : queue'[i] = queue[i]
      /\ queue'[Len(queue) + 1] = accepted'
  BY <1>1, <1>2, AppendProperties, LenProperties
<1>4. UpTo(queue', accepted') /\ Taken' = Taken
  BY <1>1, <1>3 DEF UpTo, Taken
<1>5. OneSave'
  BY <1>1, <1>4 DEF WriterConsistent, OneSave, Settled
<1>6. Written'
  BY <1>1, WrittenStays
<1> QED BY <1>1, <1>2, <1>3, <1>4, <1>5, <1>6 DEF WriterConsistent, TypeOK, Written

LEMMA TimerFiresConsistent ==
  ASSUME WriterConsistent, TimerFires
  PROVE  WriterConsistent'
<1>1. UNCHANGED <<accepted, resolved, rejected, table, flush>> /\ Drain /\ timer' = FALSE
  BY DEF TimerFires
<1>2. Written'
  BY <1>1, WrittenStays
<1> QED BY <1>1, <1>2, DrainConsistent DEF WriterConsistent, TypeOK, Written

LEMMA FlushRoundConsistent ==
  ASSUME WriterConsistent, NEW f \in Flushers, FlushRound(f)
  PROVE  WriterConsistent'
<1>1. UNCHANGED <<accepted, resolved, rejected, table>> /\ Drain /\ timer' = FALSE
  BY DEF FlushRound
<1>2. Written'
  BY <1>1, WrittenStays
<1>3. running' = None \/ running' \in Entries
  BY <1>1, DrainConsistent
<1>4. flush' \in [Flushers -> FlushStates]
  <2>1. Looking \in FlushStates /\ (running' \in Entries => Awaiting(running') \in FlushStates)
    BY DEF Looking, Awaiting, FlushStates
  <2> QED BY <1>3, <2>1 DEF FlushRound, WriterConsistent, TypeOK
<1> QED BY <1>1, <1>2, <1>4, DrainConsistent DEF WriterConsistent, TypeOK, Written

LEMMA FlushReturnsConsistent ==
  ASSUME WriterConsistent, NEW f \in Flushers, FlushReturns(f)
  PROVE  WriterConsistent' /\ 1..accepted \subseteq Settled
<1>1. /\ UNCHANGED <<accepted, queue, running, saves, resolved, rejected, table>>
      /\ timer' = FALSE /\ queue = <<>> /\ running = None
      /\ flush' = [flush EXCEPT ![f] = Outside]
  BY DEF FlushReturns
<1>2. Written'
  BY <1>1, WrittenStays
<1>3. flush' \in [Flushers -> FlushStates]
  <2>1. Outside \in FlushStates
    BY DEF Outside, FlushStates
  <2> QED BY <1>1, <2>1 DEF WriterConsistent, TypeOK
<1>4. OneSave' /\ UpTo(queue', accepted')
  BY <1>1 DEF WriterConsistent, OneSave, Taken, Settled, UpTo
<1>5. 1..accepted \subseteq Settled
  <2>1. Taken = accepted
    BY <1>1, EmptySeq DEF Taken, WriterConsistent, TypeOK
  <2> QED BY <1>1, <2>1 DEF WriterConsistent, OneSave
<1> QED BY <1>1, <1>2, <1>3, <1>4, <1>5 DEF WriterConsistent, TypeOK, Written

\* What has been settled before the rows that save s has left.
Behind(s) == Taken - Len(s.left)

\* What a save of the writer holds.
LEMMA TheSave ==
  ASSUME WriterConsistent, NEW s \in saves
  PROVE  /\ saves = {s} /\ running = s.of /\ running # None /\ s \in Saves
         /\ s.of \in Entries /\ s.left \in Seq(Entries) /\ s.whole \in BOOLEAN
         /\ Len(s.left) \in Nat /\ Taken \in Nat /\ Taken <= accepted /\ Behind(s) \in Nat
         /\ Taken = Behind(s) + Len(s.left)
         /\ UpTo(s.left, Taken) /\ Settled = 1..Behind(s)
         /\ \A i \in 1..Len(s.left) : s.left[i] = Behind(s) + i
<1>1. saves = {s} /\ running = s.of /\ running # None
      /\ UpTo(s.left, Taken) /\ Settled = 1..Behind(s)
  BY DEF WriterConsistent, OneSave, Behind
<1>2. s \in Saves /\ Len(queue) \in Nat /\ accepted \in Nat /\ Len(queue) <= accepted
  BY LenProperties DEF WriterConsistent, TypeOK, UpTo
<1>3. Len(s.left) \in Nat
  BY <1>2, SaveFields, LenProperties
<1>4. Taken \in Nat /\ Taken <= accepted
  BY <1>2 DEF Taken
<1>5. Behind(s) \in Nat /\ Taken = Behind(s) + Len(s.left)
  BY <1>1, <1>3, <1>4 DEF Behind, UpTo
<1>6. \A i \in 1..Len(s.left) : s.left[i] = Behind(s) + i
  BY <1>1 DEF Behind, UpTo
<1> QED BY <1>1, <1>2, <1>3, <1>4, <1>5, <1>6, SaveFields

\* The rows of a transaction are the next entries.
LEMMA TheRows ==
  ASSUME WriterConsistent, NEW s \in saves, s.left # <<>>
  PROVE  /\ Rows(s) \in Seq(Entries) /\ Len(Rows(s)) \in Nat /\ Len(Rows(s)) > 0
         /\ Len(Rows(s)) <= Len(s.left) /\ DOMAIN Rows(s) = 1..Len(Rows(s))
         /\ \A i \in 1..Len(Rows(s)) : Rows(s)[i] = Behind(s) + i
         /\ RestOf(s.left, Len(Rows(s))) \in Seq(Entries)
         /\ Len(RestOf(s.left, Len(Rows(s)))) = Len(s.left) - Len(Rows(s))
         /\ UpTo(RestOf(s.left, Len(Rows(s))), Taken)
<1>1. /\ s.left \in Seq(Entries) /\ s.whole \in BOOLEAN /\ Taken \in Nat /\ Len(s.left) \in Nat
      /\ UpTo(s.left, Taken) /\ \A i \in 1..Len(s.left) : s.left[i] = Behind(s) + i
  BY TheSave
<1>2. Len(s.left) > 0
  BY <1>1, EmptySeq
<1>3. /\ Rows(s) \in Seq(Entries) /\ Len(Rows(s)) \in Nat /\ Len(Rows(s)) > 0
      /\ Len(Rows(s)) <= Len(s.left)
      /\ \A i \in 1..Len(Rows(s)) : Rows(s)[i] = s.left[i]
  <2>1. CASE s.whole
    BY <1>1, <1>2, <2>1 DEF Rows
  <2>2. CASE ~s.whole
    <3>1. Rows(s) = <<Head(s.left)>> /\ Head(s.left) = s.left[1] /\ Head(s.left) \in Entries
      BY <1>1, <2>2, HeadTailProperties DEF Rows
    <3>2. Rows(s) \in Seq(Entries) /\ Len(Rows(s)) = 1 /\ Rows(s)[1] = s.left[1]
      BY <3>1
    <3> QED BY <1>1, <1>2, <3>2
  <2> QED BY <1>1, <2>1, <2>2
<1>4. \A i \in 1..Len(Rows(s)) : Rows(s)[i] = Behind(s) + i
  BY <1>1, <1>3
<1>5. /\ RestOf(s.left, Len(Rows(s))) \in Seq(Entries)
      /\ Len(FirstOf(s.left, Len(Rows(s)))) + Len(RestOf(s.left, Len(Rows(s)))) = Len(s.left)
      /\ Len(FirstOf(s.left, Len(Rows(s)))) =
           IF Len(Rows(s)) < Len(s.left) THEN Len(Rows(s)) ELSE Len(s.left)
      /\ UpTo(RestOf(s.left, Len(Rows(s))), Taken)
  <2>1. Len(Rows(s)) \in Nat \ {0}
    BY <1>3
  <2> QED BY <1>1, <2>1, Split
<1>6. Len(RestOf(s.left, Len(Rows(s)))) \in Nat /\ DOMAIN Rows(s) = 1..Len(Rows(s))
  BY <1>3, <1>5, LenProperties
<1>7. Len(RestOf(s.left, Len(Rows(s)))) = Len(s.left) - Len(Rows(s))
  <2>1. Len(FirstOf(s.left, Len(Rows(s)))) = Len(Rows(s))
    BY <1>1, <1>3, <1>5
  <2>2. Len(Rows(s)) + Len(RestOf(s.left, Len(Rows(s)))) = Len(s.left)
    BY <1>5, <2>1
  <2>3. Len(Rows(s)) \in Nat /\ Len(s.left) \in Nat
    BY <1>1, <1>3
  <2> QED BY <1>6, <2>2, <2>3
<1> QED BY <1>3, <1>4, <1>5, <1>6, <1>7

LEMMA RowsContents ==
  ASSUME WriterConsistent, NEW s \in saves, s.left # <<>>
  PROVE  Contents(Rows(s)) = (Behind(s) + 1)..(Behind(s) + Len(Rows(s)))
<1>1. /\ Len(Rows(s)) \in Nat /\ DOMAIN Rows(s) = 1..Len(Rows(s)) /\ Behind(s) \in Nat
      /\ \A i \in 1..Len(Rows(s)) : Rows(s)[i] = Behind(s) + i
  BY TheRows, TheSave
<1>2. ASSUME NEW n \in Contents(Rows(s)) PROVE n \in (Behind(s) + 1)..(Behind(s) + Len(Rows(s)))
  BY <1>1, <1>2 DEF Contents
<1>3. ASSUME NEW n \in (Behind(s) + 1)..(Behind(s) + Len(Rows(s))) PROVE n \in Contents(Rows(s))
  <2>1. n - Behind(s) \in 1..Len(Rows(s)) /\ Rows(s)[n - Behind(s)] = n
    BY <1>1, <1>3
  <2> QED BY <1>1, <2>1 DEF Contents
<1> QED BY <1>2, <1>3

\* A save whose next rows have been settled.
LEMMA SavesGoOn ==
  ASSUME WriterConsistent, NEW s \in saves, s.left # <<>>,
         saves' = (saves \ {s}) \union {Without(s, Rows(s))},
         UNCHANGED <<accepted, queue, running>>,
         Settled' = Settled \union Contents(Rows(s))
  PROVE  saves' \subseteq Saves /\ OneSave'
<1> DEFINE next == Without(s, Rows(s))
           rest == RestOf(s.left, Len(Rows(s)))
<1>1. /\ saves = {s} /\ running = s.of /\ running # None /\ s \in Saves
      /\ Len(s.left) \in Nat /\ Taken \in Nat /\ Settled = 1..Behind(s)
      /\ Behind(s) \in Nat /\ Taken = Behind(s) + Len(s.left)
  BY TheSave
<1>2. /\ Len(Rows(s)) \in Nat /\ Len(Rows(s)) <= Len(s.left)
      /\ rest \in Seq(Entries) /\ Len(rest) = Len(s.left) - Len(Rows(s)) /\ UpTo(rest, Taken)
  BY TheRows
<1>3. next \in Saves /\ next.of = s.of /\ next.left = rest
  BY <1>1, <1>2 DEF Without, Saves
<1>4. Taken' = Taken
  BY DEF Taken
<1>5. Contents(Rows(s)) = (Behind(s) + 1)..(Behind(s) + Len(Rows(s)))
  BY RowsContents
<1> HIDE DEF next, rest
<1>6. Taken - Len(rest) = Behind(s) + Len(Rows(s))
  BY <1>1, <1>2
<1>7. Settled' = 1..(Behind(s) + Len(Rows(s)))
  BY <1>1, <1>2, <1>5
<1>8. saves' = {next}
  BY <1>1 DEF next
<1> QED BY <1>1, <1>2, <1>3, <1>4, <1>6, <1>7, <1>8 DEF OneSave

LEMMA CommitConsistent ==
  ASSUME WriterConsistent, NEW s \in saves, Commit(s)
  PROVE  WriterConsistent'
<1>1. /\ s.left # <<>> /\ table' = table \o Rows(s) /\ resolved' = resolved \union Contents(Rows(s))
      /\ saves' = (saves \ {s}) \union {Without(s, Rows(s))}
      /\ UNCHANGED <<accepted, queue, timer, running, rejected, flush>>
  BY DEF Commit
<1>2. Settled' = Settled \union Contents(Rows(s))
  BY <1>1 DEF Settled
<1>3. saves' \subseteq Saves /\ OneSave'
  BY <1>1, <1>2, SavesGoOn
<1>4. Behind(s) \in Nat /\ Settled = 1..Behind(s)
  BY TheSave
<1>5. /\ Rows(s) \in Seq(Entries) /\ Len(Rows(s)) \in Nat /\ DOMAIN Rows(s) = 1..Len(Rows(s))
      /\ \A i \in 1..Len(Rows(s)) : Rows(s)[i] = Behind(s) + i
      /\ \A i \in 1..Len(Rows(s)) : Rows(s)[i] \in Entries
  BY <1>1, TheRows, ElementOfSeq
<1>6. /\ table \in Seq(Entries) /\ Len(table) \in Nat /\ DOMAIN table = 1..Len(table)
      /\ Contents(table) = resolved /\ WrittenInOrder /\ resolved \intersect rejected = {}
  BY LenProperties DEF WriterConsistent, TypeOK
<1>7. /\ table' \in Seq(Entries) /\ DOMAIN table' = 1..(Len(table) + Len(Rows(s)))
      /\ \A i \in 1..Len(table) : table'[i] = table[i]
      /\ \A i \in 1..Len(Rows(s)) : table'[Len(table) + i] = Rows(s)[i]
  <2>1. /\ table \o Rows(s) \in Seq(Entries) /\ Len(table \o Rows(s)) = Len(table) + Len(Rows(s))
        /\ \A i \in 1..(Len(table) + Len(Rows(s))) :
             (table \o Rows(s))[i] = IF i <= Len(table) THEN table[i] ELSE Rows(s)[i - Len(table)]
    BY <1>5, <1>6, ConcatProperties
  <2>2. DOMAIN table' = 1..(Len(table) + Len(Rows(s)))
    BY <1>1, <2>1, LenProperties
  <2>3. ASSUME NEW i \in 1..Len(table) PROVE table'[i] = table[i]
    BY <1>1, <1>5, <1>6, <2>1, <2>3
  <2>4. ASSUME NEW i \in 1..Len(Rows(s)) PROVE table'[Len(table) + i] = Rows(s)[i]
    <3>1. Len(table) + i \in 1..(Len(table) + Len(Rows(s))) /\ ~(Len(table) + i <= Len(table))
          /\ (Len(table) + i) - Len(table) = i
      BY <1>5, <1>6, <2>4
    <3> QED BY <1>1, <2>1, <3>1
  <2> QED BY <1>1, <2>1, <2>2, <2>3, <2>4
<1>8. \A i \in DOMAIN table' :
        \/ i \in 1..Len(table)
        \/ \E k \in 1..Len(Rows(s)) : i = Len(table) + k
  <2> SUFFICES ASSUME NEW i \in 1..(Len(table) + Len(Rows(s))), i \notin 1..Len(table)
               PROVE  \E k \in 1..Len(Rows(s)) : i = Len(table) + k
    BY <1>7
  <2>1. i - Len(table) \in 1..Len(Rows(s)) /\ i = Len(table) + (i - Len(table))
    BY <1>5, <1>6
  <2> QED BY <2>1
<1>9. \A i \in 1..Len(table) : table[i] \in 1..Behind(s)
  BY <1>4, <1>6 DEF Contents, Settled
<1>10. WrittenInOrder'
  <2> SUFFICES ASSUME NEW i \in DOMAIN table', NEW j \in DOMAIN table', i < j
               PROVE  table'[i] < table'[j]
    BY DEF WrittenInOrder
  <2>1. CASE i \in 1..Len(table) /\ j \in 1..Len(table)
    BY <1>6, <1>7, <2>1 DEF WrittenInOrder
  <2>2. CASE i \in 1..Len(table) /\ \E k \in 1..Len(Rows(s)) : j = Len(table) + k
    BY <1>4, <1>5, <1>7, <1>9, <2>2
  <2>3. CASE \E k \in 1..Len(Rows(s)) : i = Len(table) + k
    <3>1. PICK k \in 1..Len(Rows(s)) : i = Len(table) + k
      BY <2>3
    <3>2. PICK l \in 1..Len(Rows(s)) : j = Len(table) + l
      BY <1>6, <1>8, <3>1
    <3>3. k < l
      BY <1>6, <3>1, <3>2
    <3> QED BY <1>4, <1>5, <1>7, <3>1, <3>2, <3>3
  <2> QED BY <1>8, <2>1, <2>2, <2>3
<1>11. Contents(table') = resolved'
  <2>1. ASSUME NEW n \in Contents(table') PROVE n \in resolved'
    <3>1. PICK i \in DOMAIN table' : n = table'[i]
      BY <2>1 DEF Contents
    <3>2. CASE i \in 1..Len(table)
      <4>1. n = table[i] /\ i \in DOMAIN table
        BY <1>6, <1>7, <3>1, <3>2
      <4> QED BY <1>1, <1>6, <4>1 DEF Contents
    <3>3. CASE \E k \in 1..Len(Rows(s)) : i = Len(table) + k
      <4>1. PICK k \in 1..Len(Rows(s)) : n = Rows(s)[k]
        BY <1>7, <3>1, <3>3
      <4> QED BY <1>1, <1>5, <4>1 DEF Contents
    <3> QED BY <1>8, <3>2, <3>3
  <2>2. ASSUME NEW n \in resolved PROVE n \in Contents(table')
    <3>1. PICK i \in 1..Len(table) : n = table[i]
      BY <1>6, <2>2 DEF Contents
    <3>2. i \in 1..(Len(table) + Len(Rows(s)))
      BY <1>5, <1>6
    <3> QED BY <1>7, <3>1, <3>2 DEF Contents
  <2>3. ASSUME NEW n \in Contents(Rows(s)) PROVE n \in Contents(table')
    <3>1. PICK i \in 1..Len(Rows(s)) : n = Rows(s)[i]
      BY <1>5, <2>3 DEF Contents
    <3>2. Len(table) + i \in 1..(Len(table) + Len(Rows(s)))
      BY <1>5, <1>6
    <3> QED BY <1>7, <3>1, <3>2 DEF Contents
  <2> QED BY <1>1, <2>1, <2>2, <2>3
<1>12. resolved' \subseteq Entries /\ resolved' \intersect rejected' = {}
  <2>1. \A n \in Contents(Rows(s)) : n \in Entries /\ n \notin Settled
    BY <1>4, <1>5 DEF Contents
  <2>2. resolved \subseteq Entries
    BY DEF WriterConsistent, TypeOK
  <2> QED BY <1>1, <1>6, <2>1, <2>2 DEF Settled
<1>13. UpTo(queue', accepted')
  BY <1>1 DEF WriterConsistent
<1> QED BY <1>1, <1>3, <1>7, <1>10, <1>11, <1>12, <1>13 DEF WriterConsistent, TypeOK

LEMMA AbortConsistent ==
  ASSUME WriterConsistent, NEW s \in saves, Abort(s)
  PROVE  WriterConsistent'
<1>1. s.left # <<>> /\ UNCHANGED <<accepted, queue, timer, running, resolved, table, flush>>
  BY DEF Abort
<1>2. CASE Len(Rows(s)) > 1
  <2>1. saves' = (saves \ {s}) \union {[s EXCEPT !.whole = FALSE]} /\ rejected' = rejected
    BY <1>2 DEF Abort
  <2>2. /\ saves = {s} /\ running = s.of /\ running # None /\ s \in Saves
        /\ UpTo(s.left, Taken) /\ Settled = 1..(Taken - Len(s.left))
    BY DEF WriterConsistent, OneSave, TypeOK
  <2>3. /\ [s EXCEPT !.whole = FALSE] \in Saves /\ [s EXCEPT !.whole = FALSE].of = s.of
        /\ [s EXCEPT !.whole = FALSE].left = s.left
    BY <2>2 DEF Saves
  <2>4. saves' = {[s EXCEPT !.whole = FALSE]} /\ Taken' = Taken /\ Settled' = Settled
    BY <1>1, <2>1, <2>2 DEF Taken, Settled
  <2>5. saves' \subseteq Saves /\ OneSave'
    BY <1>1, <2>2, <2>3, <2>4 DEF OneSave
  <2>6. Written'
    BY <1>1, <2>1, WrittenStays
  <2> QED BY <1>1, <2>1, <2>5, <2>6 DEF WriterConsistent, TypeOK, Written
<1>3. CASE ~(Len(Rows(s)) > 1)
  <2>1. /\ saves' = (saves \ {s}) \union {Without(s, Rows(s))}
        /\ rejected' = rejected \union Contents(Rows(s))
    BY <1>3 DEF Abort
  <2>2. Settled' = Settled \union Contents(Rows(s))
    BY <1>1, <2>1 DEF Settled
  <2>3. saves' \subseteq Saves /\ OneSave'
    BY <1>1, <2>1, <2>2, SavesGoOn
  <2>4. Behind(s) \in Nat /\ Settled = 1..Behind(s)
    BY TheSave
  <2>5. /\ Rows(s) \in Seq(Entries) /\ Len(Rows(s)) \in Nat /\ DOMAIN Rows(s) = 1..Len(Rows(s))
        /\ \A i \in 1..Len(Rows(s)) : Rows(s)[i] = Behind(s) + i
        /\ \A i \in 1..Len(Rows(s)) : Rows(s)[i] \in Entries
    BY <1>1, TheRows, ElementOfSeq
  <2>6. \A n \in Contents(Rows(s)) : n \in Entries /\ n \notin Settled
    BY <2>4, <2>5 DEF Contents
  <2>7. rejected' \subseteq Entries /\ resolved' \intersect rejected' = {}
    BY <1>1, <2>1, <2>6 DEF WriterConsistent, TypeOK, Settled
  <2>8. UpTo(queue', accepted') /\ Contents(table') = resolved' /\ WrittenInOrder'
    BY <1>1 DEF WriterConsistent, WrittenInOrder, Contents
  <2> QED BY <1>1, <2>3, <2>7, <2>8 DEF WriterConsistent, TypeOK
<1> QED BY <1>2, <1>3

LEMMA FinishConsistent ==
  ASSUME WriterConsistent, NEW s \in saves, Finish(s)
  PROVE  WriterConsistent'
<1>1. /\ s.left = <<>> /\ saves' = saves \ {s} /\ running' = None
      /\ UNCHANGED <<accepted, queue, resolved, rejected, table>>
      /\ flush' = [f \in Flushers |-> IF flush[f] = Awaiting(s.of) THEN Looking ELSE flush[f]]
  BY DEF Finish
<1>2. saves' = {} /\ Taken' = Taken /\ Settled' = 1..Taken
  <2>1. saves = {s} /\ Settled = 1..(Taken - Len(s.left)) /\ Taken \in Nat
    BY TheSave DEF Behind
  <2>2. Len(s.left) = 0
    BY <1>1, EmptySeq
  <2> QED BY <1>1, <2>1, <2>2 DEF Taken, Settled
<1>3. OneSave'
  BY <1>1, <1>2 DEF OneSave
<1>4. timer' \in BOOLEAN
  BY DEF Finish, Scheduled, WriterConsistent, TypeOK
<1>5. flush' \in [Flushers -> FlushStates]
  <2>1. Looking \in FlushStates
    BY DEF Looking, FlushStates
  <2> QED BY <1>1, <2>1 DEF WriterConsistent, TypeOK
<1>6. Written' /\ UpTo(queue', accepted')
  BY <1>1, WrittenStays DEF WriterConsistent
<1> QED BY <1>1, <1>2, <1>3, <1>4, <1>5, <1>6 DEF WriterConsistent, TypeOK, Written

\* The writer keeps its invariant.
LEMMA WriterStep ==
  ASSUME WriterConsistent, [Next]_vars
  PROVE  WriterConsistent'
<1>1. CASE Next
  BY <1>1, EnqueueConsistent, TimerFiresConsistent, CommitConsistent, AbortConsistent,
     FinishConsistent, FlushRoundConsistent, FlushReturnsConsistent
     DEF Next, Saving, Flushing, FlushBegins, FlushGoesOn
<1>2. CASE UNCHANGED vars
  BY <1>2 DEF vars, WriterConsistent, TypeOK, UpTo, OneSave, Taken, Settled, Contents, WrittenInOrder
<1> QED BY <1>1, <1>2

\* It says that nothing is lost, doubled or out of order.
LEMMA WriterWritesAsEntered == WriterConsistent => WrittenAsEntered
<1> SUFFICES ASSUME WriterConsistent PROVE WrittenAsEntered
  OBVIOUS
<1>1. /\ queue \in Seq(Entries) /\ accepted \in Nat /\ UpTo(queue, accepted) /\ Len(queue) \in Nat
      /\ Taken \in Nat /\ accepted = Taken + Len(queue)
  BY LenProperties DEF WriterConsistent, TypeOK, UpTo, Taken
<1>2. Contents(queue) = (Taken + 1)..accepted
  <2>1. Contents(queue) = (accepted - Len(queue) + 1)..accepted
    BY <1>1, UpToContents
  <2> QED BY <2>1 DEF Taken
<1>3. CASE running = None
  <2>1. InSave = {} /\ Settled = 1..Taken
    BY <1>3 DEF WriterConsistent, OneSave, InSave
  <2> QED BY <1>1, <1>2, <2>1 DEF WrittenAsEntered, NothingLost, WriterConsistent
<1>4. CASE running # None
  <2>1. PICK s \in saves : saves = {s}
    BY <1>4 DEF WriterConsistent, OneSave
  <2>2. /\ s.left \in Seq(Entries) /\ UpTo(s.left, Taken) /\ Behind(s) \in Nat /\ Len(s.left) \in Nat
        /\ Taken = Behind(s) + Len(s.left) /\ Settled = 1..Behind(s)
    BY TheSave
  <2>3. InSave = Contents(s.left)
    BY <2>1 DEF InSave
  <2>4. Contents(s.left) = (Taken - Len(s.left) + 1)..Taken
    BY <1>1, <2>2, UpToContents
  <2>5. InSave = (Behind(s) + 1)..Taken
    BY <2>3, <2>4 DEF Behind
  <2>6. Contents(queue) = (Taken + 1)..accepted /\ Behind(s) \in Nat /\ Taken \in Nat /\ Behind(s) <= Taken
        /\ Taken <= accepted
    BY <1>1, <1>2, <2>2
  <2> DEFINE b == Behind(s)
             t == Taken
  <2> HIDE DEF b, t
  <2>7. /\ b \in Nat /\ t \in Nat /\ accepted \in Nat /\ b <= t /\ t <= accepted
        /\ Settled = 1..b /\ InSave = (b + 1)..t /\ Contents(queue) = (t + 1)..accepted
    BY <1>1, <2>2, <2>5, <2>6 DEF b, t
  <2>8. 1..accepted = Contents(queue) \union InSave \union Settled
    <3>1. 1..accepted = ((t + 1)..accepted) \union ((b + 1)..t) \union (1..b)
      BY <2>7
    <3> QED BY <2>7, <3>1, Zenon
  <2>9. Contents(queue) \intersect (InSave \union Settled) = {}
    BY <2>7
  <2>10. InSave \intersect Settled = {}
    BY <2>7
  <2>11. NothingLost
    BY <2>8, <2>9, <2>10 DEF NothingLost, WriterConsistent
  <2> QED BY <2>11 DEF WrittenAsEntered, WriterConsistent
<1> QED BY <1>3, <1>4

\* A flush returns only when everything is settled.
LEMMA FlushIsLast ==
  ASSUME WriterConsistent, [Next]_vars, NEW f \in Flushers, flush[f] # Outside, flush'[f] = Outside
  PROVE  1..accepted \subseteq Settled
<1>1. flush' # flush
  OBVIOUS
<1>2. ASSUME NEW g \in Flushers, FlushRound(g) PROVE FALSE
  <2>1. flush' = [flush EXCEPT ![g] = IF running' = None THEN Looking ELSE Awaiting(running')]
    BY <1>2 DEF FlushRound
  <2>2. flush \in [Flushers -> FlushStates]
    BY DEF WriterConsistent, TypeOK
  <2> QED BY <2>1, <2>2 DEF Looking, Awaiting, Outside
<1>3. ASSUME NEW s \in saves, Finish(s) PROVE FALSE
  BY <1>3 DEF Finish, Looking, Outside
<1>4. PICK g \in Flushers : FlushReturns(g)
  BY <1>1, <1>2, <1>3 DEF Next, vars, Enqueue, TimerFires, Saving, Commit, Abort, Flushing,
     FlushBegins, FlushGoesOn
<1> QED BY <1>4, FlushReturnsConsistent

-----------------------------------------------------------------------------
(***************************************************************************)
(* The console: every line is written, on its way or among those that the  *)
(* next history will hold, and a page that is connected counts on them.    *)
(***************************************************************************)

-----------------------------------------------------------------------------
\* A bag of lines counts them.
LEMMA Positions ==
  ASSUME NEW S, NEW s \in Seq(S), NEW P \in SUBSET DOMAIN s
  PROVE  IsFiniteSet(P) /\ Cardinality(P) \in Nat
<1>1. DOMAIN s = 1..Len(s) /\ Len(s) \in Nat
  OBVIOUS
<1>2. IsFiniteSet(DOMAIN s)
  BY <1>1, FS_Interval
<1> QED BY <1>2, FS_Subset, FS_CardinalityType

LEMMA BagOfLinesType ==
  ASSUME NEW S, NEW s \in Seq(S)
  PROVE  BagOfLines(s) \in Bags_
<1>1. ASSUME NEW t PROVE Cardinality({i \in DOMAIN s : TextOf[s[i]] = t}) \in Nat
  <2>1. {i \in DOMAIN s : TextOf[s[i]] = t} \in SUBSET DOMAIN s
    OBVIOUS
  <2> QED BY <2>1, Positions
<1> QED BY <1>1 DEF BagOfLines, Bags_

LEMMA NoLines == BagOfLines(<<>>) = NoText
<1>1. ASSUME NEW t PROVE Cardinality({i \in DOMAIN <<>> : TextOf[<<>>[i]] = t}) = 0
  <2>1. {i \in DOMAIN <<>> : TextOf[<<>>[i]] = t} = {}
    OBVIOUS
  <2> QED BY <2>1, FS_EmptySet
<1> QED BY <1>1 DEF BagOfLines, NoText

\* The count of a bag is pointwise.
LEMMA BagsAdd ==
  ASSUME NEW b \in Bags_, NEW c \in Bags_
  PROVE  /\ b ++ c \in Bags_
         /\ \A t \in Texts : (b ++ c)[t] = b[t] + c[t]
         /\ b ++ NoText = b
BY DEF ++, Bags_, NoText

LEMMA BagsMerge ==
  ASSUME NEW b \in Bags_, NEW c \in Bags_
  PROVE  /\ Merged(b, c) \in Bags_
         /\ \A t \in Texts : Merged(b, c)[t] >= b[t] /\ Merged(b, c)[t] >= c[t]
         /\ Merged(NoText, c) = c
BY DEF Merged, Bags_, NoText

LEMMA NoTextType == NoText \in Bags_ /\ \A t \in Texts : NoText[t] = 0
BY DEF NoText, Bags_

LEMMA AppendedLine ==
  ASSUME NEW s \in Seq(Entries), NEW e \in Entries, NEW t \in Texts
  PROVE  BagOfLines(Append(s, e))[t] = BagOfLines(s)[t] + BagOfLines(<<e>>)[t]
<1> DEFINE old == {i \in DOMAIN s : TextOf[s[i]] = t}
           new == {i \in DOMAIN Append(s, e) : TextOf[Append(s, e)[i]] = t}
           one == {i \in DOMAIN <<e>> : TextOf[<<e>>[i]] = t}
<1>1. /\ DOMAIN s = 1..Len(s) /\ DOMAIN Append(s, e) = 1..(Len(s) + 1) /\ Len(s) \in Nat
      /\ \A i \in 1..Len(s) : Append(s, e)[i] = s[i]
      /\ Append(s, e)[Len(s) + 1] = e
  OBVIOUS
<1>2. IsFiniteSet(old) /\ Cardinality(old) \in Nat
  <2>1. old \in SUBSET DOMAIN s
    OBVIOUS
  <2> QED BY <2>1, Positions
<1>3. CASE TextOf[e] = t
  <2>1. new = old \union {Len(s) + 1}
    BY <1>1, <1>3
  <2>2. Len(s) + 1 \notin old
    BY <1>1
  <2>3. one = {1}
    BY <1>3
  <2>4. Cardinality(new) = Cardinality(old) + 1
    BY <1>2, <2>1, <2>2, FS_AddElement
  <2>5. Cardinality(one) = 1
    BY <2>3, FS_Singleton
  <2> QED BY <2>4, <2>5 DEF BagOfLines
<1>4. CASE TextOf[e] # t
  <2>1. new = old
    BY <1>1, <1>4
  <2>2. one = {}
    BY <1>4
  <2>3. Cardinality(one) = 0
    BY <2>2, FS_EmptySet
  <2>4. /\ BagOfLines(s)[t] = Cardinality(old) /\ BagOfLines(<<e>>)[t] = Cardinality(one)
        /\ BagOfLines(Append(s, e))[t] = Cardinality(new)
    BY DEF BagOfLines
  <2> HIDE DEF old, new, one
  <2> QED BY <1>2, <2>1, <2>3, <2>4
<1> QED BY <1>3, <1>4

-----------------------------------------------------------------------------
\* The lines of the jobs.
JobKind == Seq(Entries) \union {HistoryJob}

LEMMA JobLines ==
  ASSUME NEW j \in JobKind
  PROVE  /\ \E n \in Nat : DOMAIN j = 1..n
         /\ IsFiniteSet(DOMAIN j)
<1>1. \E n \in Nat : DOMAIN j = 1..n
  <2>1. CASE j \in Seq(Entries)
    BY <2>1
  <2>2. CASE j = HistoryJob
    BY <2>2 DEF HistoryJob
  <2> QED BY <2>1, <2>2 DEF JobKind
<1>2. PICK n \in Nat : DOMAIN j = 1..n
  BY <1>1
<1>3. IsFiniteSet(1..n)
  BY FS_Interval
<1> QED BY <1>2, <1>3

LEMMA PlacesFinite ==
  ASSUME NEW js \in Seq(JobKind), NEW t
  PROVE  IsFiniteSet(Places(js, t)) /\ Cardinality(Places(js, t)) \in Nat
<1> DEFINE rows == {{i} \X DOMAIN js[i] : i \in DOMAIN js}
           f == [i \in DOMAIN js |-> {i} \X DOMAIN js[i]]
<1>1. IsFiniteSet(DOMAIN js)
  <2>1. DOMAIN js \in SUBSET DOMAIN js
    OBVIOUS
  <2> QED BY <2>1, Positions
<1>2. f \in Surjection(DOMAIN js, rows)
  BY DEF Surjection
<1>3. IsFiniteSet(rows)
  BY <1>1, <1>2, FS_Surjection
<1>4. ASSUME NEW r \in rows PROVE IsFiniteSet(r)
  <2>1. PICK i \in DOMAIN js : r = {i} \X DOMAIN js[i]
    OBVIOUS
  <2>2. js[i] \in JobKind
    OBVIOUS
  <2>3. IsFiniteSet({i}) /\ IsFiniteSet(DOMAIN js[i])
    BY <2>2, JobLines, FS_Singleton
  <2> QED BY <2>1, <2>3, FS_Product
<1>5. IsFiniteSet(UNION rows)
  BY <1>3, <1>4, FS_UNION
<1>6. Places(js, t) \in SUBSET UNION rows
  BY DEF Places
<1> QED BY <1>5, <1>6, FS_Subset, FS_CardinalityType

LEMMA PlacesMember ==
  \A js, t, p :
    p \in Places(js, t) <=>
      \E i \in DOMAIN js : \E k \in DOMAIN js[i] :
        p = <<i, k>> /\ js[i] # HistoryJob /\ TextOf[js[i][k]] = t
<1> TAKE js, t, p
<1>1. ASSUME p \in Places(js, t)
      PROVE  \E i \in DOMAIN js : \E k \in DOMAIN js[i] :
               p = <<i, k>> /\ js[i] # HistoryJob /\ TextOf[js[i][k]] = t
  <2>1. PICK i \in DOMAIN js : p \in {i} \X DOMAIN js[i]
    BY <1>1 DEF Places
  <2>2. p = <<p[1], p[2]>> /\ p[1] = i /\ p[2] \in DOMAIN js[i]
    BY <2>1
  <2>3. js[p[1]] # HistoryJob /\ TextOf[js[p[1]][p[2]]] = t
    BY <1>1 DEF Places
  <2> QED BY <2>2, <2>3
<1>2. ASSUME NEW i \in DOMAIN js, NEW k \in DOMAIN js[i],
             p = <<i, k>>, js[i] # HistoryJob, TextOf[js[i][k]] = t
      PROVE  p \in Places(js, t)
  <2>1. p \in {i} \X DOMAIN js[i] /\ p[1] = i /\ p[2] = k
    BY <1>2
  <2> QED BY <1>2, <2>1 DEF Places
<1> QED BY <1>1, <1>2

\* The places of a text in the i-th of the jobs, when its lines are j.
LEMMA InOneJob ==
  ASSUME NEW i \in Nat, NEW j \in Seq(Entries), NEW t \in Texts
  PROVE  LET at == {i} \X {k \in DOMAIN j : TextOf[j[k]] = t}
         IN  IsFiniteSet(at) /\ Cardinality(at) = BagOfLines(j)[t]
<1> DEFINE in == {k \in DOMAIN j : TextOf[j[k]] = t}
<1>1. IsFiniteSet(in) /\ Cardinality(in) \in Nat
  <2>1. in \in SUBSET DOMAIN j
    OBVIOUS
  <2> QED BY <2>1, Positions
<1>2. IsFiniteSet({i}) /\ Cardinality({i}) = 1
  BY FS_Singleton
<1>3. IsFiniteSet({i} \X in) /\ Cardinality({i} \X in) = 1 * Cardinality(in)
  BY <1>1, <1>2, FS_Product
<1>4. Cardinality(in) = BagOfLines(j)[t]
  BY DEF BagOfLines
<1> QED BY <1>1, <1>3, <1>4

\* A batch that joins the jobs adds its lines.
LEMMA PlacesAppended ==
  ASSUME NEW js \in Seq(JobKind), NEW j \in Seq(Entries), j # HistoryJob, NEW t \in Texts
  PROVE  Cardinality(Places(Append(js, j), t)) = Cardinality(Places(js, t)) + BagOfLines(j)[t]
<1> DEFINE n == Len(js)
           at == {n + 1} \X {k \in DOMAIN j : TextOf[j[k]] = t}
<1>1. /\ n \in Nat /\ DOMAIN js = 1..n /\ DOMAIN Append(js, j) = 1..(n + 1)
      /\ \A i \in 1..n : Append(js, j)[i] = js[i]
      /\ Append(js, j)[n + 1] = j
  BY DEF JobKind
<1>2. IsFiniteSet(at) /\ Cardinality(at) = BagOfLines(j)[t]
  BY <1>1, InOneJob
<1>3. IsFiniteSet(Places(js, t)) /\ Cardinality(Places(js, t)) \in Nat
  BY PlacesFinite
<1>4. Places(Append(js, j), t) = Places(js, t) \union at
  <2> SUFFICES ASSUME NEW p PROVE p \in Places(Append(js, j), t) <=> p \in Places(js, t) \/ p \in at
    OBVIOUS
  <2>1. p \in Places(Append(js, j), t) <=>
          \E i \in 1..(n + 1) : \E k \in DOMAIN Append(js, j)[i] :
            p = <<i, k>> /\ Append(js, j)[i] # HistoryJob /\ TextOf[Append(js, j)[i][k]] = t
    <3>1. p \in Places(Append(js, j), t) <=>
            \E i \in DOMAIN Append(js, j) : \E k \in DOMAIN Append(js, j)[i] :
              p = <<i, k>> /\ Append(js, j)[i] # HistoryJob /\ TextOf[Append(js, j)[i][k]] = t
      <4>1. PICK all : all = Append(js, j)
        OBVIOUS
      <4>2. p \in Places(all, t) <=>
              \E i \in DOMAIN all : \E k \in DOMAIN all[i] :
                p = <<i, k>> /\ all[i] # HistoryJob /\ TextOf[all[i][k]] = t
        BY PlacesMember
      <4> QED BY <4>1, <4>2
    <3> HIDE DEF n
    <3> QED BY <1>1, <3>1
  <2>2. p \in Places(js, t) <=>
          \E i \in 1..n : \E k \in DOMAIN js[i] :
            p = <<i, k>> /\ js[i] # HistoryJob /\ TextOf[js[i][k]] = t
    BY <1>1, PlacesMember
  <2>3. p \in at <=> \E k \in DOMAIN j : p = <<n + 1, k>> /\ TextOf[j[k]] = t
    OBVIOUS
  <2>4. \A i : i \in 1..(n + 1) <=> i \in 1..n \/ i = n + 1
    BY <1>1
  <2> HIDE DEF n, at
  <2> QED BY <1>1, <2>1, <2>2, <2>3, <2>4
<1>5. Places(js, t) \intersect at = {}
  <2> SUFFICES ASSUME NEW p, p \in Places(js, t), p \in at PROVE FALSE
    OBVIOUS
  <2>1. PICK i \in 1..n : \E k : p = <<i, k>>
    BY <1>1, PlacesMember
  <2>2. p[1] = i /\ p[1] = n + 1
    BY <2>1
  <2> QED BY <1>1, <2>1, <2>2
<1>6. Cardinality(Places(js, t) \intersect at) = 0
  BY <1>5, FS_EmptySet
<1>7. Cardinality(Places(js, t) \union at)
        = Cardinality(Places(js, t)) + Cardinality(at) - Cardinality(Places(js, t) \intersect at)
  BY <1>2, <1>3, FS_Union
<1>8. BagOfLines(j)[t] \in Nat
  BY BagOfLinesType DEF Bags_
<1> HIDE DEF at, n
<1> QED BY <1>2, <1>3, <1>4, <1>6, <1>7, <1>8

\* The first job takes its lines with it; the history holds none.
LEMMA PlacesOfRest ==
  ASSUME NEW js \in Seq(JobKind), js # <<>>, NEW t \in Texts
  PROVE  /\ Head(js) = HistoryJob =>
              Cardinality(Places(Tail(js), t)) = Cardinality(Places(js, t))
         /\ Head(js) # HistoryJob =>
              Cardinality(Places(js, t))
                = Cardinality(Places(Tail(js), t)) + BagOfLines(Head(js))[t]
<1> DEFINE rest == Tail(js)
           n == Len(rest)
           later == {p \in Places(js, t) : p[1] # 1}
           f == [p \in Places(rest, t) |-> <<p[1] + 1, p[2]>>]
<1>1. /\ rest \in Seq(JobKind) /\ n \in Nat /\ DOMAIN rest = 1..n /\ DOMAIN js = 1..(n + 1)
      /\ \A i \in 1..n : rest[i] = js[i + 1]
      /\ js[1] = Head(js) /\ Head(js) \in JobKind
  BY HeadTailProperties
<1>2. ASSUME NEW p
      PROVE  p \in Places(js, t) <=>
               \E i \in 1..(n + 1) : \E k \in DOMAIN js[i] :
                 p = <<i, k>> /\ js[i] # HistoryJob /\ TextOf[js[i][k]] = t
  BY <1>1, PlacesMember
<1>3. ASSUME NEW p
      PROVE  p \in Places(rest, t) <=>
               \E i \in 1..n : \E k \in DOMAIN js[i + 1] :
                 p = <<i, k>> /\ js[i + 1] # HistoryJob /\ TextOf[js[i + 1][k]] = t
  <2>1. p \in Places(rest, t) <=>
          \E i \in DOMAIN rest : \E k \in DOMAIN rest[i] :
            p = <<i, k>> /\ rest[i] # HistoryJob /\ TextOf[rest[i][k]] = t
    <3>1. PICK all : all = rest
      OBVIOUS
    <3>2. p \in Places(all, t) <=>
            \E i \in DOMAIN all : \E k \in DOMAIN all[i] :
              p = <<i, k>> /\ all[i] # HistoryJob /\ TextOf[all[i][k]] = t
      BY PlacesMember
    <3> QED BY <3>1, <3>2
  <2> HIDE DEF rest, n
  <2> QED BY <1>1, <2>1
<1>4. f \in Bijection(Places(rest, t), later)
  <2>1. ASSUME NEW p \in Places(rest, t) PROVE f[p] \in later
    <3>1. PICK i \in 1..n : \E k \in DOMAIN js[i + 1] :
                 p = <<i, k>> /\ js[i + 1] # HistoryJob /\ TextOf[js[i + 1][k]] = t
      BY <1>3
    <3>2. PICK k \in DOMAIN js[i + 1] :
                 p = <<i, k>> /\ js[i + 1] # HistoryJob /\ TextOf[js[i + 1][k]] = t
      BY <3>1
    <3>3. f[p] = <<i + 1, k>> /\ i + 1 \in 1..(n + 1) /\ i + 1 # 1
      BY <1>1, <3>2
    <3>4. f[p] \in Places(js, t)
      BY <1>2, <3>2, <3>3
    <3>5. f[p][1] = i + 1
      BY <3>3
    <3> QED BY <3>3, <3>4, <3>5
  <2>2. ASSUME NEW p \in Places(rest, t), NEW q \in Places(rest, t), f[p] = f[q] PROVE p = q
    <3>1. PICK i \in 1..n : \E k : p = <<i, k>>
      BY <1>3
    <3>2. PICK h \in 1..n : \E k : q = <<h, k>>
      BY <1>3
    <3>3. PICK k : p = <<i, k>>
      BY <3>1
    <3>4. PICK l : q = <<h, l>>
      BY <3>2
    <3>5. f[p] = <<i + 1, k>> /\ f[q] = <<h + 1, l>>
      BY <3>3, <3>4
    <3>6. i + 1 = h + 1 /\ k = l
      BY <2>2, <3>5
    <3>7. i = h
      BY <1>1, <3>6
    <3> QED BY <3>3, <3>4, <3>6, <3>7
  <2>3. ASSUME NEW q \in later PROVE \E p \in Places(rest, t) : f[p] = q
    <3>1. PICK i \in 1..(n + 1) : \E k \in DOMAIN js[i] :
                 q = <<i, k>> /\ js[i] # HistoryJob /\ TextOf[js[i][k]] = t
      BY <1>2
    <3>2. PICK k \in DOMAIN js[i] : q = <<i, k>> /\ js[i] # HistoryJob /\ TextOf[js[i][k]] = t
      BY <3>1
    <3>3. q[1] = i /\ i # 1
      BY <3>2
    <3>4. i - 1 \in 1..n /\ (i - 1) + 1 = i
      BY <1>1, <3>3
    <3>5. PICK h \in 1..n : h = i - 1 /\ h + 1 = i
      BY <3>4
    <3>6. <<h, k>> \in Places(rest, t)
      BY <1>3, <3>2, <3>5
    <3>7. f[<<h, k>>] = <<h + 1, k>>
      BY <3>6
    <3> QED BY <3>2, <3>5, <3>6, <3>7
  <2> QED BY <2>1, <2>2, <2>3 DEF Bijection, Injection, Surjection, IsInjective
<1>5. /\ IsFiniteSet(Places(rest, t)) /\ Cardinality(Places(rest, t)) \in Nat
      /\ IsFiniteSet(Places(js, t)) /\ Cardinality(Places(js, t)) \in Nat
  BY <1>1, PlacesFinite
<1>6. IsFiniteSet(later) /\ Cardinality(later) = Cardinality(Places(rest, t))
  <2>1. ExistsBijection(Places(rest, t), later)
    BY <1>4 DEF ExistsBijection
  <2> QED BY <1>5, <2>1, FS_Bijection
<1>7. CASE Head(js) = HistoryJob
  <2>1. later = Places(js, t)
    <3> SUFFICES ASSUME NEW p \in Places(js, t) PROVE p[1] # 1
      OBVIOUS
    <3>1. PICK i \in 1..(n + 1) : js[i] # HistoryJob /\ \E k : p = <<i, k>>
      BY <1>2
    <3>2. p[1] = i
      BY <3>1
    <3> QED BY <1>1, <1>7, <3>1, <3>2
  <2> QED BY <1>6, <1>7, <2>1
<1>8. CASE Head(js) # HistoryJob
  <2> DEFINE at == {1} \X {k \in DOMAIN Head(js) : TextOf[Head(js)[k]] = t}
  <2>1. Head(js) \in Seq(Entries)
    BY <1>1, <1>8 DEF JobKind
  <2>2. IsFiniteSet(at) /\ Cardinality(at) = BagOfLines(Head(js))[t]
    BY <2>1, InOneJob
  <2>3. Places(js, t) = later \union at
    <3> SUFFICES ASSUME NEW p PROVE p \in Places(js, t) <=> p \in later \/ p \in at
      OBVIOUS
    <3>1. ASSUME p \in Places(js, t), p \notin later PROVE p \in at
      <4>1. PICK i \in 1..(n + 1) : \E k \in DOMAIN js[i] :
                 p = <<i, k>> /\ js[i] # HistoryJob /\ TextOf[js[i][k]] = t
        BY <1>2, <3>1
      <4>2. p[1] = i /\ p[1] = 1
        BY <3>1, <4>1
      <4> QED BY <1>1, <4>1, <4>2
    <3>2. ASSUME p \in at PROVE p \in Places(js, t)
      <4>1. PICK k \in DOMAIN Head(js) : p = <<1, k>> /\ TextOf[Head(js)[k]] = t
        BY <3>2
      <4>2. 1 \in 1..(n + 1)
        BY <1>1
      <4> QED BY <1>1, <1>2, <1>8, <4>1, <4>2
    <3> QED BY <3>1, <3>2
  <2>4. later \intersect at = {}
    OBVIOUS
  <2>5. Cardinality(later \intersect at) = 0
    BY <2>4, FS_EmptySet
  <2>6. Cardinality(later \union at) = Cardinality(later) + Cardinality(at) - Cardinality(later \intersect at)
    BY <1>6, <2>2, FS_Union
  <2>7. BagOfLines(Head(js))[t] \in Nat
    BY <2>1, BagOfLinesType DEF Bags_
  <2> HIDE DEF at, later, rest, n, f
  <2>8. Cardinality(Places(js, t)) = Cardinality(Places(rest, t)) + BagOfLines(Head(js))[t]
    BY <1>5, <1>6, <2>2, <2>3, <2>5, <2>6, <2>7
  <2> QED BY <1>8, <2>8 DEF rest
<1> QED BY <1>7, <1>8

-----------------------------------------------------------------------------
\* Each line published to the present connection is shown or on its way.
LinesKept ==
  \A t \in Texts :
    live[t] <= shown[t] + BagOfLines(batch)[t] + Cardinality(Places(jobs, t)) + pending[t]

\* The history sent is shown, or received and not yet shown; an answer of HTTP,
\* which may replace it, is heeded before it only.
HistoryKept ==
  /\ AtLeast(Merged(history, shown), past)
  /\ ~received => past = NoText

StreamConsistent == StreamTypeOK /\ LinesKept /\ HistoryKept

\* What the database answers is a bag of lines.
LEMMA LogsType ==
  ASSUME TypeOK
  PROVE  ConsoleLogs \in Bags_
<1>1. ASSUME NEW s \in Seq(Entries), NEW n \in Nat \ {0}
      PROVE  LastOf(s, n) \in Seq(Entries)
  <2> DEFINE m == IF Len(s) > n THEN Len(s) - n + 1 ELSE 1
  <2>1. Len(s) \in Nat /\ m \in Int /\ m >= 1
    OBVIOUS
  <2>2. \A i \in m..Len(s) : s[i] \in Entries
    BY <2>1, ElementOfSeq
  <2>3. SubSeq(s, m, Len(s)) \in Seq(Entries)
    <3> HIDE DEF m
    <3> QED BY <2>1, <2>2, SubSeqProperties
  <2> QED BY <2>3 DEF LastOf
<1>2. LastOf(LastOf(table, MaxLogs), PageSize) \in Seq(Entries)
  BY <1>1, ConsoleStreamAssumption DEF TypeOK
<1> QED BY <1>2, BagOfLinesType DEF ConsoleLogs

LEMMA BagsOf ==
  ASSUME StreamTypeOK
  PROVE  /\ live \in Bags_ /\ past \in Bags_ /\ shown \in Bags_ /\ pending \in Bags_ /\ history \in Bags_
         /\ BagOfLines(batch) \in Bags_
         /\ jobs \in Seq(JobKind)
         /\ \A t \in Texts : /\ live[t] \in Nat /\ past[t] \in Nat /\ shown[t] \in Nat
                             /\ pending[t] \in Nat /\ history[t] \in Nat
                             /\ BagOfLines(batch)[t] \in Nat
                             /\ Cardinality(Places(jobs, t)) \in Nat
<1>1. BagOfLines(batch) \in Bags_
  BY BagOfLinesType DEF StreamTypeOK
<1>2. jobs \in Seq(JobKind)
  BY DEF StreamTypeOK, JobKind
<1>3. \A t \in Texts : Cardinality(Places(jobs, t)) \in Nat
  BY <1>2, PlacesFinite
<1> QED BY <1>1, <1>2, <1>3 DEF StreamTypeOK, Bags_

LEMMA NoPlaces == \A t : Cardinality(Places(<<>>, t)) = 0
<1>1. ASSUME NEW t PROVE Places(<<>>, t) = {}
  BY PlacesMember DEF Places
<1> QED BY <1>1, FS_EmptySet

LEMMA StreamInitConsistent ==
  ASSUME StreamInit, TypeOK
  PROVE  StreamConsistent
<1>1. StreamTypeOK
  <2>1. /\ socket \in {"unmounted", "open", "closed"} /\ received \in BOOLEAN /\ hidden \in BOOLEAN
        /\ fallback \in {[at |-> "armed"], [at |-> "over"]}
    BY DEF StreamInit
  <2>2. joins \in 0..MaxJoins
    BY ConsoleStreamAssumption DEF StreamInit
  <2>3. batch \in Seq(Entries) /\ jobs \in Seq(Seq(Entries) \union {HistoryJob})
    BY DEF StreamInit
  <2>4. live \in Bags_ /\ past \in Bags_ /\ shown \in Bags_ /\ pending \in Bags_ /\ history \in Bags_
    BY NoTextType DEF StreamInit
  <2> QED BY <2>1, <2>2, <2>3, <2>4 DEF StreamTypeOK
<1>2. \A t \in Texts : live[t] = 0 /\ past[t] = 0
  BY NoTextType DEF StreamInit
<1>3. LinesKept
  BY <1>1, <1>2, BagsOf DEF LinesKept
<1>4. HistoryKept
  BY <1>1, <1>2, BagsOf, BagsMerge DEF StreamInit, HistoryKept, AtLeast
<1> QED BY <1>1, <1>3, <1>4 DEF StreamConsistent

\* What is not published to anyone cannot be missing.
LEMMA NothingLive ==
  ASSUME StreamTypeOK, live = NoText, past = NoText
  PROVE  StreamConsistent
<1>1. \A t \in Texts : live[t] = 0 /\ past[t] = 0
  BY NoTextType
<1>2. LinesKept
  BY <1>1, BagsOf DEF LinesKept
<1>3. HistoryKept
  BY <1>1, BagsOf, BagsMerge DEF HistoryKept, AtLeast
<1> QED BY <1>2, <1>3 DEF StreamConsistent

\* Showing loses neither lines nor history.
LEMMA FlushKeeps ==
  ASSUME StreamTypeOK, NEW h \in Bags_, Flush(pending, h)
  PROVE  /\ shown' \in Bags_ /\ pending' \in Bags_ /\ history' \in Bags_
         /\ \A t \in Texts : shown'[t] + pending'[t] >= shown[t] + pending[t]
         /\ AtLeast(Merged(history', shown'), h)
         /\ AtLeast(Merged(history', shown'), shown)
<1>1. shown \in Bags_ /\ pending \in Bags_ /\ NoText \in Bags_
  BY NoTextType DEF StreamTypeOK
<1>2. \A t \in Texts : shown[t] \in Nat /\ pending[t] \in Nat /\ h[t] \in Nat /\ NoText[t] = 0
  BY <1>1, NoTextType DEF Bags_
<1>3. CASE hidden
  <2>1. pending' = pending /\ history' = h /\ shown' = shown
    BY <1>3 DEF Flush
  <2> QED BY <1>1, <1>2, <2>1, BagsMerge DEF AtLeast
<1>4. CASE ~hidden
  <2> DEFINE all == shown ++ pending
             next == Merged(h, all)
  <2>1. shown' = next /\ pending' = NoText /\ history' = NoText
    BY <1>4 DEF Flush, Show
  <2>2. all \in Bags_ /\ \A t \in Texts : all[t] = shown[t] + pending[t]
    BY <1>1, BagsAdd
  <2>3. next \in Bags_ /\ \A t \in Texts : next[t] >= h[t] /\ next[t] >= all[t]
    <3> HIDE DEF all
    <3> QED BY <2>2, BagsMerge
  <2>4. Merged(NoText, next) = next /\ \A t \in Texts : next[t] \in Nat
    <3> HIDE DEF next
    <3> QED BY <1>1, <2>3, BagsMerge DEF Bags_
  <2> HIDE DEF all, next
  <2> QED BY <1>1, <1>2, <2>1, <2>2, <2>3, <2>4 DEF AtLeast
<1> QED BY <1>3, <1>4

LEMMA ShowKeeps ==
  ASSUME StreamConsistent, TypeOK', Show(pending, history),
         UNCHANGED <<vars, socket, joins, batch, jobs, live, past, received, fallback>>,
         hidden' \in BOOLEAN
  PROVE  StreamConsistent'
<1>1. StreamTypeOK
  BY DEF StreamConsistent
<1> DEFINE all == shown ++ pending
           next == Merged(history, all)
<1>2. shown' = next /\ pending' = NoText /\ history' = NoText
  BY DEF Show
<1>3. all \in Bags_ /\ \A t \in Texts : all[t] = shown[t] + pending[t]
  BY <1>1, BagsOf, BagsAdd
<1>4. next \in Bags_ /\ \A t \in Texts : next[t] >= history[t] /\ next[t] >= all[t]
  <2> HIDE DEF all
  <2> QED BY <1>1, <1>3, BagsOf, BagsMerge
<1>5. Merged(NoText, next) = next /\ \A t \in Texts : next[t] \in Nat
  <2> HIDE DEF next
  <2> QED BY <1>4, BagsMerge, NoTextType DEF Bags_
<1> HIDE DEF all, next
<1>6. StreamTypeOK'
  BY <1>1, <1>2, <1>4, NoTextType DEF StreamTypeOK, vars
<1>7. LinesKept'
  <2> SUFFICES ASSUME NEW t \in Texts
               PROVE  live'[t] <= shown'[t] + BagOfLines(batch')[t] + Cardinality(Places(jobs', t)) + pending'[t]
    BY DEF LinesKept
  <2>1. live[t] <= shown[t] + BagOfLines(batch)[t] + Cardinality(Places(jobs, t)) + pending[t]
    BY DEF StreamConsistent, LinesKept
  <2>2. pending'[t] = 0
    BY <1>2, NoTextType
  <2>3. /\ live[t] \in Nat /\ shown[t] \in Nat /\ pending[t] \in Nat
        /\ BagOfLines(batch)[t] \in Nat /\ Cardinality(Places(jobs, t)) \in Nat /\ next[t] \in Nat
    BY <1>1, <1>5, BagsOf
  <2>4. next[t] >= all[t] /\ all[t] = shown[t] + pending[t]
    BY <1>3, <1>4
  <2>5. live[t] <= next[t] + BagOfLines(batch)[t] + Cardinality(Places(jobs, t)) + 0
    BY <2>1, <2>3, <2>4
  <2>6. /\ live'[t] = live[t] /\ shown'[t] = next[t] /\ BagOfLines(batch')[t] = BagOfLines(batch)[t]
        /\ Cardinality(Places(jobs', t)) = Cardinality(Places(jobs, t))
    BY <1>2
  <2> QED BY <2>2, <2>5, <2>6
<1>8. HistoryKept'
  <2>1. \A t \in Texts : Merged(history, shown)[t] >= past[t]
    BY DEF StreamConsistent, HistoryKept, AtLeast
  <2>2. \A t \in Texts : next[t] >= past[t]
    <3> SUFFICES ASSUME NEW t \in Texts PROVE next[t] >= past[t]
      OBVIOUS
    <3>1. Merged(history, shown)[t] = history[t] \/ Merged(history, shown)[t] = shown[t]
      BY DEF Merged
    <3> QED BY <1>1, <1>3, <1>4, <1>5, <2>1, <3>1, BagsOf
  <2>3. Merged(history', shown') = next
    BY <1>2, <1>5
  <2>4. ~received' => past' = NoText
    BY DEF StreamConsistent, HistoryKept
  <2> QED BY <2>2, <2>3, <2>4 DEF HistoryKept, AtLeast
<1> QED BY <1>6, <1>7, <1>8 DEF StreamConsistent

LEMMA EmitConsistent ==
  ASSUME StreamConsistent, TypeOK', Emit
  PROVE  StreamConsistent'
<1>1. StreamTypeOK
  BY DEF StreamConsistent
<1>2. /\ accepted' \in Entries
      /\ UNCHANGED <<socket, joins, jobs, past, shown, pending, history, received, fallback, hidden>>
  BY <1>1 DEF Emit, Enqueue, page, StreamTypeOK, TypeOK, Entries
<1>3. CASE socket = "open"
  <2>1. batch' = Append(batch, accepted') /\ live' = live ++ BagOfLines(<<accepted'>>)
    BY <1>3 DEF Emit
  <2>2. batch \in Seq(Entries) /\ batch' \in Seq(Entries)
    BY <1>1, <1>2, <2>1 DEF StreamTypeOK
  <2>3. BagOfLines(<<accepted'>>) \in Bags_ /\ BagOfLines(batch') \in Bags_
    <3>1. <<accepted'>> \in Seq(Entries)
      BY <1>2
    <3> QED BY <2>2, <3>1, BagOfLinesType
  <2>4. live' \in Bags_ /\ \A t \in Texts : live'[t] = live[t] + BagOfLines(<<accepted'>>)[t]
    BY <1>1, <2>1, <2>3, BagsOf, BagsAdd
  <2>5. StreamTypeOK'
    BY <1>1, <1>2, <2>2, <2>4 DEF StreamTypeOK
  <2>6. LinesKept'
    <3> SUFFICES ASSUME NEW t \in Texts
                 PROVE  live'[t] <= shown'[t] + BagOfLines(batch')[t] + Cardinality(Places(jobs', t)) + pending'[t]
      BY DEF LinesKept
    <3>1. live[t] <= shown[t] + BagOfLines(batch)[t] + Cardinality(Places(jobs, t)) + pending[t]
      BY DEF StreamConsistent, LinesKept
    <3>2. BagOfLines(batch')[t] = BagOfLines(batch)[t] + BagOfLines(<<accepted'>>)[t]
      <4>1. PICK e \in Entries : e = accepted'
        BY <1>2
      <4>2. BagOfLines(Append(batch, e))[t] = BagOfLines(batch)[t] + BagOfLines(<<e>>)[t]
        BY <2>2, AppendedLine
      <4> QED BY <2>1, <4>1, <4>2
    <3>3. BagOfLines(<<accepted'>>)[t] \in Nat
      BY <2>3 DEF Bags_
    <3>4. live'[t] = live[t] + BagOfLines(<<accepted'>>)[t]
      BY <2>4
    <3>5. shown'[t] = shown[t] /\ Cardinality(Places(jobs', t)) = Cardinality(Places(jobs, t)) /\ pending'[t] = pending[t]
      BY <1>2
    <3>6. /\ live[t] \in Nat /\ shown[t] \in Nat /\ pending[t] \in Nat
          /\ BagOfLines(batch)[t] \in Nat /\ Cardinality(Places(jobs, t)) \in Nat
      BY <1>1, BagsOf
    <3> QED BY <3>1, <3>2, <3>3, <3>4, <3>5, <3>6
  <2> QED BY <1>2, <2>5, <2>6 DEF StreamConsistent, HistoryKept, AtLeast, Merged
<1>4. CASE socket # "open"
  <2>1. UNCHANGED <<batch, live>>
    BY <1>4 DEF Emit
  <2> QED BY <1>1, <1>2, <2>1 DEF StreamConsistent, StreamTypeOK, LinesKept, HistoryKept, AtLeast, Merged, BagOfLines,
        Places
<1> QED BY <1>3, <1>4

LEMMA PublishConsistent ==
  ASSUME StreamConsistent, TypeOK', Publish
  PROVE  StreamConsistent'
<1>1. StreamTypeOK
  BY DEF StreamConsistent
<1>2. /\ batch \in Seq(Entries) /\ batch # <<>> /\ jobs' = Append(jobs, batch) /\ batch' = <<>>
      /\ UNCHANGED <<socket, joins, live, past, shown, pending, history, received, fallback, hidden>>
  BY <1>1 DEF Publish, page, StreamTypeOK
<1>3. batch # HistoryJob
  <2> SUFFICES ASSUME batch = HistoryJob PROVE FALSE
    OBVIOUS
  <2>1. batch[1] = 0 /\ 1 \in 1..Len(batch)
    BY DEF HistoryJob, None
  <2>2. batch[1] \in Entries
    BY <1>2, <2>1, ElementOfSeq
  <2> QED BY <2>1, <2>2 DEF Entries
<1>4. jobs \in Seq(JobKind) /\ batch \in JobKind /\ jobs' \in Seq(JobKind)
  BY <1>1, <1>2, BagsOf DEF JobKind
<1>5. StreamTypeOK'
  BY <1>1, <1>2, <1>4 DEF StreamTypeOK, JobKind
<1>6. LinesKept'
  <2> SUFFICES ASSUME NEW t \in Texts
               PROVE  live'[t] <= shown'[t] + BagOfLines(batch')[t] + Cardinality(Places(jobs', t)) + pending'[t]
    BY DEF LinesKept
  <2>1. live[t] <= shown[t] + BagOfLines(batch)[t] + Cardinality(Places(jobs, t)) + pending[t]
    BY DEF StreamConsistent, LinesKept
  <2>2. Cardinality(Places(jobs', t)) = Cardinality(Places(jobs, t)) + BagOfLines(batch)[t]
    BY <1>2, <1>3, <1>4, PlacesAppended
  <2>3. BagOfLines(batch')[t] = 0
    BY <1>2, NoLines, NoTextType
  <2> QED BY <1>1, <1>2, <2>1, <2>2, <2>3, BagsOf
<1> QED BY <1>2, <1>5, <1>6 DEF StreamConsistent, HistoryKept, AtLeast, Merged

LEMMA SendHistoryConsistent ==
  ASSUME StreamConsistent, TypeOK', SendHistory
  PROVE  StreamConsistent'
<1>1. StreamTypeOK /\ TypeOK
  BY DEF StreamConsistent, StreamTypeOK
<1>2. /\ jobs # <<>> /\ Head(jobs) = HistoryJob /\ jobs' = Tail(jobs)
      /\ past' = ConsoleLogs /\ received' = TRUE /\ fallback' = [at |-> "over"]
      /\ Flush(pending, ConsoleLogs)
      /\ UNCHANGED <<socket, joins, batch, live, hidden>>
  BY DEF SendHistory
<1>3. ConsoleLogs \in Bags_
  BY <1>1, LogsType
<1>4. /\ shown' \in Bags_ /\ pending' \in Bags_ /\ history' \in Bags_
      /\ \A t \in Texts : shown'[t] + pending'[t] >= shown[t] + pending[t]
      /\ AtLeast(Merged(history', shown'), ConsoleLogs)
  BY <1>1, <1>2, <1>3, FlushKeeps
<1>5. jobs \in Seq(JobKind) /\ jobs' \in Seq(JobKind)
  BY <1>1, <1>2, BagsOf, HeadTailProperties
<1>6. StreamTypeOK'
  BY <1>1, <1>2, <1>3, <1>4, <1>5 DEF StreamTypeOK, JobKind
<1>7. LinesKept'
  <2> SUFFICES ASSUME NEW t \in Texts
               PROVE  live'[t] <= shown'[t] + BagOfLines(batch')[t] + Cardinality(Places(jobs', t)) + pending'[t]
    BY DEF LinesKept
  <2>1. live[t] <= shown[t] + BagOfLines(batch)[t] + Cardinality(Places(jobs, t)) + pending[t]
    BY DEF StreamConsistent, LinesKept
  <2>2. Cardinality(Places(jobs', t)) = Cardinality(Places(jobs, t))
    BY <1>2, <1>5, PlacesOfRest
  <2>3. shown'[t] \in Nat /\ pending'[t] \in Nat
    BY <1>4 DEF Bags_
  <2>4. shown'[t] + pending'[t] >= shown[t] + pending[t]
    BY <1>4
  <2>5. live'[t] = live[t] /\ BagOfLines(batch')[t] = BagOfLines(batch)[t]
    BY <1>2
  <2>6. /\ live[t] \in Nat /\ shown[t] \in Nat /\ pending[t] \in Nat
        /\ BagOfLines(batch)[t] \in Nat /\ Cardinality(Places(jobs, t)) \in Nat
    BY <1>1, BagsOf
  <2> QED BY <2>1, <2>2, <2>3, <2>4, <2>5, <2>6
<1> QED BY <1>2, <1>4, <1>6, <1>7 DEF StreamConsistent, HistoryKept

LEMMA SendLinesConsistent ==
  ASSUME StreamConsistent, TypeOK', SendLines
  PROVE  StreamConsistent'
<1>1. StreamTypeOK
  BY DEF StreamConsistent
<1>2. /\ jobs # <<>> /\ Head(jobs) # HistoryJob /\ jobs' = Tail(jobs)
      /\ pending' = pending ++ BagOfLines(Head(jobs))
      /\ UNCHANGED <<socket, joins, batch, live, past, shown, history, received, fallback, hidden>>
  BY DEF SendLines
<1>3. jobs \in Seq(JobKind) /\ jobs' \in Seq(JobKind) /\ Head(jobs) \in Seq(Entries)
  BY <1>1, <1>2, BagsOf, HeadTailProperties DEF JobKind
<1>4. BagOfLines(Head(jobs)) \in Bags_
  BY <1>3, BagOfLinesType
<1>5. pending' \in Bags_ /\ \A t \in Texts : pending'[t] = pending[t] + BagOfLines(Head(jobs))[t]
  BY <1>1, <1>2, <1>4, BagsOf, BagsAdd
<1>6. StreamTypeOK'
  BY <1>1, <1>2, <1>3, <1>5 DEF StreamTypeOK, JobKind
<1>7. LinesKept'
  <2> SUFFICES ASSUME NEW t \in Texts
               PROVE  live'[t] <= shown'[t] + BagOfLines(batch')[t] + Cardinality(Places(jobs', t)) + pending'[t]
    BY DEF LinesKept
  <2>1. live[t] <= shown[t] + BagOfLines(batch)[t] + Cardinality(Places(jobs, t)) + pending[t]
    BY DEF StreamConsistent, LinesKept
  <2>2. Cardinality(Places(jobs, t)) = Cardinality(Places(jobs', t)) + BagOfLines(Head(jobs))[t]
    BY <1>2, <1>3, PlacesOfRest
  <2>3. BagOfLines(Head(jobs))[t] \in Nat /\ Cardinality(Places(jobs', t)) \in Nat
    BY <1>3, <1>4, PlacesFinite DEF Bags_
  <2>4. pending'[t] = pending[t] + BagOfLines(Head(jobs))[t]
    BY <1>5
  <2>5. live'[t] = live[t] /\ shown'[t] = shown[t] /\ BagOfLines(batch')[t] = BagOfLines(batch)[t]
    BY <1>2
  <2>6. live[t] \in Nat /\ shown[t] \in Nat /\ pending[t] \in Nat /\ BagOfLines(batch)[t] \in Nat
    BY <1>1, BagsOf
  <2> QED BY <2>1, <2>2, <2>3, <2>4, <2>5, <2>6
<1> QED BY <1>2, <1>6, <1>7 DEF StreamConsistent, HistoryKept, AtLeast, Merged

LEMMA AnswerConsistent ==
  ASSUME StreamConsistent, TypeOK', Answer
  PROVE  StreamConsistent'
<1>1. StreamTypeOK
  BY DEF StreamConsistent
<1>2. /\ ~received /\ fallback.at = "answered" /\ fallback' = [at |-> "over"] /\ received' = TRUE
      /\ Flush(pending, fallback.rows)
      /\ UNCHANGED <<socket, joins, batch, jobs, live, past, hidden>>
  BY DEF Answer
<1>3. fallback.rows \in Bags_
  BY <1>1, <1>2 DEF StreamTypeOK
<1>4. /\ shown' \in Bags_ /\ pending' \in Bags_ /\ history' \in Bags_
      /\ \A t \in Texts : shown'[t] + pending'[t] >= shown[t] + pending[t]
  BY <1>1, <1>2, <1>3, FlushKeeps
<1>5. StreamTypeOK'
  BY <1>1, <1>2, <1>4 DEF StreamTypeOK
<1>6. LinesKept'
  <2> SUFFICES ASSUME NEW t \in Texts
               PROVE  live'[t] <= shown'[t] + BagOfLines(batch')[t] + Cardinality(Places(jobs', t)) + pending'[t]
    BY DEF LinesKept
  <2>1. live[t] <= shown[t] + BagOfLines(batch)[t] + Cardinality(Places(jobs, t)) + pending[t]
    BY DEF StreamConsistent, LinesKept
  <2>3. shown'[t] \in Nat /\ pending'[t] \in Nat
    BY <1>4 DEF Bags_
  <2>4. shown'[t] + pending'[t] >= shown[t] + pending[t]
    BY <1>4
  <2>5. /\ live'[t] = live[t] /\ BagOfLines(batch')[t] = BagOfLines(batch)[t]
        /\ Cardinality(Places(jobs', t)) = Cardinality(Places(jobs, t))
    BY <1>2
  <2>6. /\ live[t] \in Nat /\ shown[t] \in Nat /\ pending[t] \in Nat
        /\ BagOfLines(batch)[t] \in Nat /\ Cardinality(Places(jobs, t)) \in Nat
    BY <1>1, BagsOf
  <2> QED BY <2>1, <2>3, <2>4, <2>5, <2>6
<1>7. past' = NoText
  BY <1>2 DEF StreamConsistent, HistoryKept
<1>8. \A t \in Texts : Merged(history', shown')[t] \in Nat /\ past'[t] = 0
  BY <1>4, <1>7, BagsMerge, NoTextType DEF Bags_
<1> QED BY <1>5, <1>6, <1>7, <1>8 DEF StreamConsistent, HistoryKept, AtLeast

LEMMA ConnectionsConsistent ==
  ASSUME StreamConsistent, TypeOK', Mount \/ Unmount \/ Drop \/ Reconnect
  PROVE  StreamConsistent'
<1>1. StreamTypeOK
  BY DEF StreamConsistent
<1>2. live' = NoText /\ past' = NoText
  BY DEF Mount, Unmount, Drop, Reconnect, Joined, Closed
<1>3. StreamTypeOK'
  <2>1. <<HistoryJob>> \in Seq(Seq(Entries) \union {HistoryJob})
    OBVIOUS
  <2>2. CASE Mount \/ Reconnect
    <3>1. joins' \in 0..MaxJoins
      BY <1>1, <2>2, ConsoleStreamAssumption DEF Mount, Reconnect, Joined, StreamTypeOK
    <3>2. jobs' = <<HistoryJob>> /\ batch' = <<>> /\ socket' = "open"
      BY <2>2 DEF Mount, Reconnect, Joined
    <3>3. UNCHANGED <<shown, pending, history, received, fallback, hidden>>
      BY <2>2 DEF Mount, Reconnect, page
    <3> QED BY <1>1, <1>2, <2>1, <3>1, <3>2, <3>3, NoTextType DEF StreamTypeOK
  <2>3. CASE Unmount
    <3>1. /\ socket' = "unmounted" /\ jobs' = <<>> /\ batch' = <<>> /\ joins' = joins /\ hidden' = hidden
          /\ shown' = NoText /\ pending' = NoText /\ history' = NoText
          /\ received' = FALSE /\ fallback' = [at |-> "armed"]
      BY <2>3 DEF Unmount, Blank, Closed
    <3>2. fallback' \in {[at |-> "armed"], [at |-> "over"]}
      BY <3>1
    <3>3. jobs' \in Seq(Seq(Entries) \union {HistoryJob}) /\ batch' \in Seq(Entries)
      BY <3>1
    <3> QED BY <1>1, <1>2, <3>1, <3>2, <3>3, NoTextType DEF StreamTypeOK
  <2>4. CASE Drop
    <3>1. /\ socket' = "closed" /\ jobs' = <<>> /\ batch' = <<>> /\ joins' = joins
          /\ UNCHANGED <<shown, pending, history, received, fallback, hidden>>
      BY <2>4 DEF Drop, Closed, page
    <3> QED BY <1>1, <1>2, <3>1, NoTextType DEF StreamTypeOK
  <2> QED BY <2>2, <2>3, <2>4
<1>4. (StreamTypeOK /\ live = NoText /\ past = NoText => StreamConsistent)'
  BY NothingLive, PTL
<1> QED BY <1>2, <1>3, <1>4

\* What changes neither the lines nor the history shown.
LEMMA AsideConsistent ==
  ASSUME StreamConsistent, TypeOK',
         UNCHANGED <<socket, joins, batch, jobs, live, past, shown, pending, history, received>>,
         hidden' \in BOOLEAN,
         fallback' = fallback \/ fallback' = [at |-> "over"]
           \/ fallback' = [at |-> "answered", rows |-> ConsoleLogs]
  PROVE  StreamConsistent'
<1>1. StreamTypeOK /\ TypeOK
  BY DEF StreamConsistent, StreamTypeOK
<1>2. ConsoleLogs \in Bags_
  BY <1>1, LogsType
<1>3. fallback' \in {[at |-> "armed"], [at |-> "over"]} \union [at : {"answered"}, rows : Bags_]
  BY <1>1, <1>2 DEF StreamTypeOK
<1>4. StreamTypeOK'
  BY <1>1, <1>3 DEF StreamTypeOK
<1> QED BY <1>4 DEF StreamConsistent, LinesKept, HistoryKept, AtLeast, Merged, BagOfLines, Places

\* The stream keeps the invariant while the writer keeps its types.
LEMMA StreamStep ==
  ASSUME StreamConsistent, TypeOK', [StreamNext]_svars
  PROVE  StreamConsistent'
<1>0. hidden \in BOOLEAN
  BY DEF StreamConsistent, StreamTypeOK
<1>1. CASE Emit
  BY <1>1, EmitConsistent
<1>2. CASE Writing \/ UNCHANGED svars
  BY <1>0, <1>2, AsideConsistent DEF Writing, svars, stream, page
<1>3. CASE Hide
  BY <1>3, AsideConsistent DEF Hide
<1>4. CASE Ask \/ AskFails
  BY <1>0, <1>4, AsideConsistent DEF Ask, AskFails
<1>5. CASE Reveal
  BY <1>5, ShowKeeps DEF Reveal
<1>6. CASE ShowLines
  <2>1. Show(pending, history)
    BY <1>6 DEF ShowLines, Flush
  <2> QED BY <1>0, <1>6, <2>1, ShowKeeps DEF ShowLines
<1> QED BY <1>1, <1>2, <1>3, <1>4, <1>5, <1>6, PublishConsistent, SendHistoryConsistent, SendLinesConsistent,
       AnswerConsistent, ConnectionsConsistent DEF StreamNext, Viewing

\* It says that nothing published or sent is missing.
LEMMA ConsistentLinesKept == StreamConsistent => LiveLinesKept
<1> SUFFICES ASSUME StreamConsistent PROVE LiveLinesKept
  OBVIOUS
<1>1. StreamTypeOK
  BY DEF StreamConsistent
<1>2. AtLeast(shown ++ OnTheWay, live)
  <2> SUFFICES ASSUME NEW t \in Texts PROVE (shown ++ OnTheWay)[t] >= live[t]
    BY DEF AtLeast
  <2>1. (shown ++ OnTheWay)[t]
          = shown[t] + ((BagOfLines(batch)[t] + Cardinality(Places(jobs, t))) + pending[t])
    BY DEF ++, OnTheWay
  <2> QED BY <1>1, <2>1, BagsOf DEF StreamConsistent, LinesKept
<1>3. history = NoText => AtLeast(shown, past)
  BY <1>1, BagsOf, BagsMerge DEF StreamConsistent, HistoryKept
<1> QED BY <1>2, <1>3 DEF LiveLinesKept

-----------------------------------------------------------------------------
(***************************************************************************)
(* The card on the dashboard: a list that can be the last one shown has, with *)
(* what the socket is about to bring, all that the listeners were told.    *)
(***************************************************************************)

\* What the socket carries: the numbers of the news of a batch, or the statuses.
News    == UNION {[kinds -> 0..MaxNews] : kinds \in SUBSET Kinds}
Message == [first : BOOLEAN, news : News]

Carried == {wire[i] : i \in DOMAIN wire}

\* What the page is told and shown is never newer than the backend's, and no
\* number is ahead of what it counts.
NewsCounted == \A k \in Kinds : account[k] <= newsMade
ToldBehind == told.image <= account["image"] /\ told.sale <= account["sale"]
CardBehind == lastSale <= told.sale /\ given <= account["image"] /\ upload <= account["image"]
WireBehind == \A m \in Carried : \A k \in DOMAIN m.news : k # "status" => m.news[k] <= told[k]
ReadingsBehind ==
  \A l \in Lists : readings[l].row # Absent =>
    readings[l].row.image <= account["image"] /\ readings[l].row.sale <= account["sale"]
ListBehind == list \in Row => list.image <= given /\ lastSale <= list.sale /\ list.sale <= account["sale"]
NumbersBehind ==
  /\ \A l \in Lists : readings[l].n <= readingsMade
  /\ seen <= newest /\ newest <= readingsMade /\ needs <= readingsMade

NoneAhead ==
  /\ NewsCounted /\ ToldBehind /\ CardBehind /\ WireBehind
  /\ ReadingsBehind /\ ListBehind /\ NumbersBehind

\* A connection begins with the statuses; without one nothing is under way.
Channel ==
  /\ cable # "up" => wire = <<>>
  /\ cable \in {"down", "ended"} => gathered = {}
  /\ \A m \in Carried : m.first => DOMAIN m.news = {"status"}

\* The last status under way, or without one the status shown, is the account's.
StatusFollows ==
  cable = "up" /\ "status" \notin gathered =>
    /\ \A i \in DOMAIN wire :
         "status" \in DOMAIN wire[i].news /\ (\A j \in DOMAIN wire : j > i => "status" \notin DOMAIN wire[j].news)
           => wire[i].news["status"] = account["status"]
    /\ (\A i \in DOMAIN wire : "status" \notin DOMAIN wire[i].news) => liveStatus = account["status"]

\* An account that exists is in every list.
NoneGone ==
  present => list # Absent /\ \A l \in Lists : readings[l].at = "answered" => readings[l].row # Absent

\* A list read later has the later sale, and none goes behind the one shown.
ReadingsInOrder ==
  \A l, m \in Lists :
    /\ readings[l].at = "answered" /\ readings[m].at = "answered" /\ readings[l].n <= readings[m].n
    /\ readings[l].row # Absent /\ readings[m].row # Absent
    => readings[l].row.sale <= readings[m].row.sale
ListInOrder ==
  list \in Row =>
    \A l \in Lists :
      readings[l].at = "answered" /\ readings[l].n >= seen /\ readings[l].row # Absent
        => list.sale <= Larger(lastSale, readings[l].row.sale)
SalesInOrder == ReadingsInOrder /\ ListInOrder

\* A newer list than reading n is on its way.
Later(n) == \E l \in Lists : readings[l].at = "asked" \/ (readings[l].at = "answered" /\ readings[l].n > n)

\* The statuses of a reconnection are still to come, and with them a new list.
ReloadDue == initial /\ (cable \in {"down", "joining"} \/ \E m \in Carried : m.first)

\* Of what the listeners were told the page has this, or is about to have it.
Comes(k, v) ==
  \/ v >= told[k]
  \/ k \in gathered
  \/ \E m \in Carried : k \in DOMAIN m.news /\ m.news[k] >= told[k]

\* The page hears of what is told, and no reload is due.
Listening == cable # "ended" /\ ~ReloadDue

GoneKnown(r) == ~present => r = Absent \/ removal = "done"
NewsKnown(r) ==
  r # Absent /\ Listening =>
    Comes("sale", Larger(r.sale, lastSale)) /\ Comes("image", Larger(r.image, given))

\* If the page comes to rest on reading n it has all there is.
Final(n) == n > needs /\ newest <= n /\ ~Later(n)
Suffices(n, r) == Final(n) => GoneKnown(r) /\ NewsKnown(r)

AllSuffice ==
  /\ list # Unloaded => Suffices(seen, list)
  /\ \A l \in Lists : readings[l].at = "answered" => Suffices(readings[l].n, readings[l].row)

DashTypes == DashTypeOK /\ wire \in Seq(Message)

DashConsistent ==
  /\ DashTypes /\ NoneAhead /\ Channel /\ StatusFollows /\ NoneGone /\ SalesInOrder /\ AllSuffice

-----------------------------------------------------------------------------
(***************************************************************************)
(* The types.                                                              *)
(***************************************************************************)
LEMMA DashBounds ==
  /\ MaxNews \in Nat /\ MaxReadings \in Nat /\ MaxLists \in Nat /\ MaxBreaks \in Nat
  /\ 1 \in Lists /\ 0 \in 0..MaxNews /\ 0 \in 0..MaxReadings /\ 0 \in 0..MaxBreaks
  /\ Unloaded # Absent /\ Unloaded \notin Row /\ Absent \notin Row
BY DashboardViewAssumption DEF Lists

LEMMA RowFields ==
  ASSUME NEW r \in Row
  PROVE  /\ r.image \in 0..MaxNews /\ r.sale \in 0..MaxNews /\ r.image \in Nat /\ r.sale \in Nat
         /\ r["image"] = r.image /\ r["sale"] = r.sale
         /\ r # Absent /\ r # Unloaded
<1>1. r.image \in 0..MaxNews /\ r.sale \in 0..MaxNews
  BY DEF Row
<1>2. r.image \in Nat /\ r.sale \in Nat
  BY <1>1, DashBounds
<1> QED BY <1>1, <1>2, DashBounds DEF Row

LEMMA RowWith ==
  ASSUME NEW r \in Row, NEW v \in 0..MaxNews
  PROVE  /\ [r EXCEPT !.image = v] \in Row /\ [r EXCEPT !.image = v].image = v /\ [r EXCEPT !.image = v].sale = r.sale
         /\ [r EXCEPT !.sale = v] \in Row /\ [r EXCEPT !.sale = v].sale = v /\ [r EXCEPT !.sale = v].image = r.image
BY DEF Row

ReadingKind == [at : {"free", "asked", "answered"}, n : 0..MaxReadings, row : Row \union {Absent}]

LEMMA ReadingFields ==
  ASSUME NEW r \in ReadingKind
  PROVE  /\ r.at \in {"free", "asked", "answered"} /\ r.n \in Nat /\ r.n \in 0..MaxReadings
         /\ r.row \in Row \union {Absent}
<1>1. r.n \in 0..MaxReadings
  BY DEF ReadingKind
<1> QED BY <1>1, DashBounds DEF ReadingKind

LEMMA DashParts ==
  ASSUME DashTypes
  PROVE  /\ account \in [Kinds -> 0..MaxNews] /\ present \in BOOLEAN /\ told \in Row
         /\ cable \in {"down", "joining", "up", "ended"} /\ gathered \subseteq Kinds
         /\ wire \in Seq(Message) /\ initial \in BOOLEAN /\ liveStatus \in -1..MaxNews
         /\ list \in Row \union {Unloaded, Absent} /\ lastSale \in 0..MaxNews
         /\ readings \in [Lists -> ReadingKind] /\ removal \in {"no", "sent", "done"}
         /\ upload \in -1..MaxNews /\ given \in 0..MaxNews
         /\ Carried \subseteq Message
<1>1. Carried \subseteq Message
  BY DEF Carried, DashTypes
<1> QED BY <1>1 DEF DashTypes, DashTypeOK, ReadingKind

LEMMA DashNumbers ==
  ASSUME DashTypes
  PROVE  /\ account["image"] \in Nat /\ account["sale"] \in Nat /\ account["status"] \in Nat
         /\ account.image = account["image"] /\ account.sale = account["sale"]
         /\ told.image \in Nat /\ told.sale \in Nat
         /\ lastSale \in Nat /\ given \in Nat /\ upload \in Int
         /\ readingsMade \in Nat /\ seen \in Nat /\ newest \in Nat /\ needs \in Int
         /\ newsMade \in Nat /\ breaks \in Nat
         /\ readingsMade <= MaxReadings /\ newsMade <= MaxNews /\ breaks <= MaxBreaks
<1>1. account \in [Kinds -> 0..MaxNews]
  BY DashParts
<1>2. account["image"] \in 0..MaxNews /\ account["sale"] \in 0..MaxNews /\ account["status"] \in 0..MaxNews
  BY <1>1 DEF Kinds
<1>3. told.image \in Nat /\ told.sale \in Nat
  BY DashParts, RowFields
<1>4. /\ lastSale \in 0..MaxNews /\ given \in 0..MaxNews /\ upload \in -1..MaxNews
      /\ readingsMade \in 0..MaxReadings /\ seen \in 0..MaxReadings /\ newest \in 0..MaxReadings
      /\ needs \in -1..MaxReadings /\ newsMade \in 0..MaxNews /\ breaks \in 0..MaxBreaks
  BY DEF DashTypes, DashTypeOK
<1>5. MaxNews \in Nat /\ MaxReadings \in Nat /\ MaxBreaks \in Nat
  BY DashBounds
<1>6. /\ account["image"] \in Nat /\ account["sale"] \in Nat /\ account["status"] \in Nat
  BY <1>2, <1>5
<1>7. /\ lastSale \in Nat /\ given \in Nat /\ upload \in Int
      /\ readingsMade \in Nat /\ seen \in Nat /\ newest \in Nat /\ needs \in Int
      /\ newsMade \in Nat /\ breaks \in Nat
      /\ readingsMade <= MaxReadings /\ newsMade <= MaxNews /\ breaks <= MaxBreaks
  BY <1>4, <1>5
<1>8. account.image = account["image"] /\ account.sale = account["sale"]
  BY <1>1
<1> QED BY <1>3, <1>6, <1>7, <1>8

\* What a message says of a kind is a number.
LEMMA NewsValue ==
  ASSUME NEW m \in Message
  PROVE  /\ m.first \in BOOLEAN /\ DOMAIN m.news \subseteq Kinds
         /\ \A k \in DOMAIN m.news : m.news[k] \in 0..MaxNews /\ m.news[k] \in Nat
<1>1. m.first \in BOOLEAN /\ m.news \in News
  BY DEF Message
<1>2. PICK kinds \in SUBSET Kinds : m.news \in [kinds -> 0..MaxNews]
  BY <1>1 DEF News
<1>3. \A v \in 0..MaxNews : v \in Nat
  BY DashBounds
<1> QED BY <1>1, <1>2, <1>3

\* The wire grows at its end and shrinks at its head.
LEMMA WireGrows ==
  ASSUME wire \in Seq(Message), NEW m \in Message, wire' = Append(wire, m)
  PROVE  /\ wire' \in Seq(Message) /\ Carried' = Carried \union {m}
         /\ DOMAIN wire = 1..Len(wire) /\ Len(wire) \in Nat /\ DOMAIN wire' = 1..(Len(wire) + 1)
         /\ \A i \in 1..Len(wire) : wire'[i] = wire[i]
         /\ wire'[Len(wire) + 1] = m
<1>1. /\ wire' \in Seq(Message)
      /\ DOMAIN wire = 1..Len(wire) /\ Len(wire) \in Nat /\ DOMAIN wire' = 1..(Len(wire) + 1)
      /\ \A i \in 1..Len(wire) : wire'[i] = wire[i]
      /\ wire'[Len(wire) + 1] = m
  OBVIOUS
<1>2. \A i : i \in 1..(Len(wire) + 1) <=> i \in 1..Len(wire) \/ i = Len(wire) + 1
  BY <1>1
<1>3. Carried' = Carried \union {m}
  BY <1>1, <1>2 DEF Carried
<1> QED BY <1>1, <1>3

LEMMA WireShrinks ==
  ASSUME wire \in Seq(Message), wire # <<>>, wire' = Tail(wire)
  PROVE  /\ wire' \in Seq(Message) /\ Head(wire) \in Message /\ Head(wire) \in Carried
         /\ Carried' \subseteq Carried /\ Carried \subseteq Carried' \union {Head(wire)}
         /\ 1 \in DOMAIN wire /\ wire[1] = Head(wire)
         /\ DOMAIN wire \subseteq Nat /\ DOMAIN wire' \subseteq Nat
         /\ \A i \in DOMAIN wire' : i + 1 \in DOMAIN wire /\ i + 1 > 1 /\ wire'[i] = wire[i + 1]
         /\ \A i \in DOMAIN wire : i # 1 => \E j \in DOMAIN wire' : i = j + 1 /\ wire'[j] = wire[i]
<1>1. /\ Tail(wire) \in Seq(Message) /\ Head(wire) \in Message /\ Len(Tail(wire)) = Len(wire) - 1
      /\ \A i \in 1..Len(Tail(wire)) : Tail(wire)[i] = wire[i + 1]
  BY HeadTailProperties
<1>2. /\ DOMAIN wire = 1..Len(wire) /\ Len(wire) \in Nat /\ Len(wire) >= 1 /\ Head(wire) = wire[1]
      /\ DOMAIN wire' = 1..(Len(wire) - 1)
  BY <1>1
<1>3. \A i \in DOMAIN wire' : i + 1 \in DOMAIN wire /\ i + 1 > 1 /\ wire'[i] = wire[i + 1]
  BY <1>1, <1>2
<1>4. ASSUME NEW i \in DOMAIN wire, i # 1
      PROVE  \E j \in DOMAIN wire' : i = j + 1 /\ wire'[j] = wire[i]
  <2>1. i - 1 \in DOMAIN wire' /\ (i - 1) + 1 = i
    BY <1>2, <1>4
  <2>2. wire'[i - 1] = wire[(i - 1) + 1]
    BY <1>3, <2>1
  <2> QED BY <2>1, <2>2
<1>5. 1 \in DOMAIN wire /\ DOMAIN wire \subseteq Nat /\ DOMAIN wire' \subseteq Nat
  BY <1>2
<1>6. Carried' \subseteq Carried
  BY <1>3 DEF Carried
<1>7. Carried \subseteq Carried' \union {Head(wire)}
  BY <1>2, <1>4 DEF Carried
<1>8. Head(wire) \in Carried
  BY <1>2, <1>5 DEF Carried
<1> QED BY <1>1, <1>2, <1>3, <1>4, <1>5, <1>6, <1>7, <1>8

LEMMA NoWire == wire = <<>> => Carried = {} /\ wire \in Seq(Message)
BY DEF Carried

LEMMA MessagesTyped ==
  ASSUME wire \in Seq(Message)
  PROVE  \A i \in DOMAIN wire : wire[i].first \in BOOLEAN /\ DOMAIN wire[i].news \subseteq Kinds
BY NewsValue

LEMMA LargerOf ==
  ASSUME NEW a \in Int, NEW b \in Int
  PROVE  /\ Larger(a, b) \in {a, b} /\ Larger(a, b) \in Int
         /\ Larger(a, b) >= a /\ Larger(a, b) >= b
BY DEF Larger

-----------------------------------------------------------------------------
LEMMA HearsTypes ==
  ASSUME DashTypes, NEW kind \in Kinds, Hears(kind)
  PROVE  gathered' \subseteq Kinds /\ needs' \in -1..MaxReadings
<1>1. readingsMade \in 0..MaxReadings /\ needs \in -1..MaxReadings /\ gathered \subseteq Kinds
  BY DEF DashTypes, DashTypeOK
<1>2. readingsMade \in -1..MaxReadings
  BY <1>1, DashBounds
<1> QED BY <1>1, <1>2 DEF Hears

LEMMA LoadTypes ==
  ASSUME DashTypes, Load
  PROVE  readings' \in [Lists -> ReadingKind]
<1>1. readings \in [Lists -> ReadingKind]
  BY DashParts
<1>2. ListAsked \in ReadingKind
  BY DashBounds DEF ListAsked, ReadingKind
<1> QED BY <1>1, <1>2 DEF Load

LEMMA FreeTyped == Free \in ReadingKind
BY DashBounds DEF Free, ReadingKind

\* What one more news, break, reading or step of the page leaves in its range.
LEMMA DashCounters ==
  ASSUME DashTypes
  PROVE  /\ newsMade < MaxNews => newsMade + 1 \in 0..MaxNews
         /\ breaks < MaxBreaks => breaks + 1 \in 0..MaxBreaks
         /\ readingsMade < MaxReadings => readingsMade + 1 \in 0..MaxReadings
         /\ readingsMade \in -1..MaxReadings
BY DashNumbers, DashBounds

LEMMA LargerTyped ==
  ASSUME NEW n \in Nat, NEW a \in 0..n, NEW b \in 0..n
  PROVE  Larger(a, b) \in 0..n
BY DEF Larger

LEMMA AccountChanges ==
  ASSUME DashTypes, NoneAhead, newsMade < MaxNews, NEW kind \in Kinds,
         account' = [account EXCEPT ![kind] = @ + 1]
  PROVE  /\ account' \in [Kinds -> 0..MaxNews] /\ account'[kind] = account[kind] + 1
         /\ \A k \in Kinds : k # kind => account'[k] = account[k]
         /\ \A k \in Kinds : account[k] \in Nat /\ account'[k] \in Nat
                             /\ account'[k] <= newsMade + 1 /\ account[k] <= account'[k]
<1>1. account \in [Kinds -> 0..MaxNews] /\ newsMade \in Nat /\ MaxNews \in Nat
  BY DashParts, DashNumbers, DashBounds
<1>2. account[kind] \in Nat /\ account[kind] <= newsMade
  BY <1>1 DEF NoneAhead, NewsCounted
<1>3. account[kind] + 1 \in 0..MaxNews
  BY <1>1, <1>2
<1>4. account' \in [Kinds -> 0..MaxNews] /\ account'[kind] = account[kind] + 1
  BY <1>1, <1>3
<1>5. \A k \in Kinds : k # kind => account'[k] = account[k]
  BY <1>1
<1>6. ASSUME NEW k \in Kinds
      PROVE  account[k] \in Nat /\ account'[k] \in Nat /\ account'[k] <= newsMade + 1 /\ account[k] <= account'[k]
  <2>1. account[k] \in Nat /\ account[k] <= newsMade
    BY <1>1 DEF NoneAhead, NewsCounted
  <2>2. account'[k] = account[k] \/ account'[k] = account[k] + 1
    BY <1>4, <1>5
  <2> QED BY <1>1, <2>1, <2>2
<1> QED BY <1>4, <1>5, <1>6

LEMMA ToldChanges ==
  ASSUME DashTypes, NoneAhead, NEW kind \in {"image", "sale"}, RowTold(kind)
  PROVE  /\ told' \in Row /\ told'[kind] = told[kind] + 1 /\ told'[kind] <= account[kind]
         /\ \A k \in {"image", "sale"} : k # kind => told'[k] = told[k]
         /\ \A k \in {"image", "sale"} : told[k] \in Nat /\ told'[k] \in Nat
                /\ told[k] <= told'[k] /\ told'[k] <= account[k]
<1>1. told \in Row /\ account \in [Kinds -> 0..MaxNews] /\ kind \in Kinds /\ MaxNews \in Nat
  BY DashParts, DashBounds DEF Kinds
<1>2. told \in [{"image", "sale"} -> 0..MaxNews]
  BY <1>1 DEF Row
<1>3. told[kind] \in Nat /\ account[kind] \in 0..MaxNews /\ told[kind] < account[kind]
  BY <1>1, <1>2 DEF RowTold
<1>4. told[kind] + 1 \in 0..MaxNews /\ told[kind] + 1 <= account[kind]
  BY <1>1, <1>3
<1>5. told' = [told EXCEPT ![kind] = told[kind] + 1]
  BY DEF RowTold
<1>6. told' \in [{"image", "sale"} -> 0..MaxNews] /\ told'[kind] = told[kind] + 1
  BY <1>2, <1>4, <1>5
<1>7. told' \in Row
  BY <1>1, <1>4, <1>5, RowWith, <1>3, RowFields
<1>8. \A k \in {"image", "sale"} : k # kind => told'[k] = told[k]
  BY <1>2, <1>5
<1>9. ASSUME NEW k \in {"image", "sale"}
      PROVE  told[k] \in Nat /\ told'[k] \in Nat /\ told[k] <= told'[k] /\ told'[k] <= account[k]
  <2>1. told[k] \in Nat /\ account[k] \in Nat
    BY <1>1, <1>2 DEF Kinds
  <2>2. told[k] <= account[k]
    BY <1>1, RowFields DEF NoneAhead, ToldBehind
  <2> QED BY <1>3, <1>4, <1>6, <1>8, <2>1, <2>2
<1> QED BY <1>4, <1>6, <1>7, <1>8, <1>9

LEMMA HeadTyped ==
  ASSUME DashTypes, wire # <<>>
  PROVE  /\ Head(wire) \in Message
         /\ wire' = Tail(wire) => wire' \in Seq(Message)
         /\ Head(wire).first \in BOOLEAN /\ DOMAIN Head(wire).news \subseteq Kinds
         /\ \A k \in DOMAIN Head(wire).news : Head(wire).news[k] \in 0..MaxNews
<1>1. wire \in Seq(Message)
  BY DEF DashTypes
<1>2. Head(wire) \in Message /\ Tail(wire) \in Seq(Message)
  BY <1>1, HeadTailProperties
<1> QED BY <1>2, NewsValue

LEMMA FirstMessage ==
  ASSUME DashTypes, SendsStatuses
  PROVE  /\ wire' \in Seq(Message)
         /\ \E m \in Message :
              /\ wire' = Append(wire, m)
              /\ m.first /\ DOMAIN m.news = {"status"} /\ m.news["status"] = account["status"]
<1> DEFINE m == [first |-> TRUE, news |-> [k \in {"status"} |-> account[k]]]
<1>1. account \in [Kinds -> 0..MaxNews] /\ wire \in Seq(Message)
  BY DEF DashTypes, DashTypeOK
<1>2. {"status"} \in SUBSET Kinds
  BY DEF Kinds
<1>3. m.news \in [{"status"} -> 0..MaxNews]
  BY <1>1 DEF Kinds
<1>4. m \in Message
  BY <1>2, <1>3 DEF Message, News
<1>5. wire' = Append(wire, m)
  BY DEF SendsStatuses
<1>6. m.first /\ DOMAIN m.news = {"status"} /\ m.news["status"] = account["status"]
  OBVIOUS
<1> HIDE DEF m
<1>7. wire' \in Seq(Message)
  BY <1>1, <1>4, <1>5, AppendProperties
<1> QED BY <1>4, <1>5, <1>6, <1>7

LEMMA BatchMessage ==
  ASSUME DashTypes, FlushNews
  PROVE  /\ wire' \in Seq(Message)
         /\ \E m \in Message :
              /\ wire' = Append(wire, m)
              /\ ~m.first /\ DOMAIN m.news = gathered
              /\ \A k \in gathered : m.news[k] = IF k = "status" THEN account[k] ELSE told[k]
<1> DEFINE m == [first |-> FALSE, news |-> [k \in gathered |-> IF k = "status" THEN account[k] ELSE told[k]]]
<1>1. account \in [Kinds -> 0..MaxNews] /\ wire \in Seq(Message) /\ gathered \in SUBSET Kinds
  BY DEF DashTypes, DashTypeOK
<1>2. told["image"] \in 0..MaxNews /\ told["sale"] \in 0..MaxNews
  BY RowFields, DashParts
<1>3. \A k \in gathered : (IF k = "status" THEN account[k] ELSE told[k]) \in 0..MaxNews
  BY <1>1, <1>2 DEF Kinds
<1>4. m.news \in [gathered -> 0..MaxNews]
  BY <1>3
<1>5. m \in Message
  BY <1>1, <1>4 DEF Message, News
<1>6. wire' = Append(wire, m)
  BY DEF FlushNews
<1>7. /\ ~m.first /\ DOMAIN m.news = gathered
      /\ \A k \in gathered : m.news[k] = IF k = "status" THEN account[k] ELSE told[k]
  OBVIOUS
<1> HIDE DEF m
<1>8. wire' \in Seq(Message)
  BY <1>1, <1>5, <1>6, AppendProperties
<1> QED BY <1>5, <1>6, <1>7, <1>8

\* The reading answered.
Reply(n) ==
  [at |-> "answered", n |-> n,
   row |-> IF present THEN [image |-> account.image, sale |-> account.sale] ELSE Absent]

LEMMA ReadingTyped ==
  ASSUME DashTypes, NEW l \in Lists, ListIsRead(l)
  PROVE  /\ Reply(readingsMade + 1) \in ReadingKind /\ readingsMade + 1 \in 0..MaxReadings
         /\ readings' = [readings EXCEPT ![l] = Reply(readingsMade + 1)]
         /\ readings' \in [Lists -> ReadingKind]
<1>1. readingsMade + 1 \in 0..MaxReadings
  BY DashCounters DEF ListIsRead
<1>2. account.image \in 0..MaxNews /\ account.sale \in 0..MaxNews
  BY DashParts DEF Kinds
<1>3. Reply(readingsMade + 1) \in ReadingKind
  BY <1>1, <1>2 DEF Reply, ReadingKind, Row
<1>4. readings' = [readings EXCEPT ![l] = Reply(readingsMade + 1)]
  BY DEF ListIsRead, Reply
<1>5. readings \in [Lists -> ReadingKind]
  BY DashParts
<1> QED BY <1>1, <1>3, <1>4, <1>5

\* What the page makes of a row.
LEMMA UpdatedSaleTyped ==
  ASSUME DashTypes, NEW r \in Row, NEW v \in 0..MaxNews
  PROVE  /\ UpdatedSale(r, v) \in Row /\ UpdatedSale(r, v).image = r.image
         /\ UpdatedSale(r, v).sale \in {r.sale, v} /\ UpdatedSale(r, v).sale >= r.sale
         /\ lastSale < v => UpdatedSale(r, v).sale >= v
<1>1. r.sale \in Nat /\ v \in Nat /\ lastSale \in Nat /\ r # Unloaded /\ r # Absent
  BY RowFields, DashNumbers, DashBounds
<1>2. /\ [r EXCEPT !.sale = v] \in Row /\ [r EXCEPT !.sale = v].sale = v
      /\ [r EXCEPT !.sale = v].image = r.image
  BY RowWith
<1>3. CASE lastSale >= v \/ r.sale >= v
  BY <1>1, <1>3 DEF UpdatedSale
<1>4. CASE ~(lastSale >= v \/ r.sale >= v)
  <2>1. UpdatedSale(r, v) = [r EXCEPT !.sale = v]
    BY <1>1, <1>4 DEF UpdatedSale
  <2> QED BY <1>1, <1>2, <1>4, <2>1
<1> QED BY <1>3, <1>4

LEMMA WithLiveSaleTyped ==
  ASSUME DashTypes, NEW r \in Row
  PROVE  /\ WithLiveSale(r) \in Row /\ WithLiveSale(r).image = r.image
         /\ WithLiveSale(r).sale = Larger(r.sale, lastSale)
<1>1. r.sale \in Nat /\ lastSale \in Nat /\ lastSale \in 0..MaxNews /\ r # Absent
  BY RowFields, DashNumbers, DashParts
<1>2. /\ [r EXCEPT !.sale = lastSale] \in Row /\ [r EXCEPT !.sale = lastSale].sale = lastSale
      /\ [r EXCEPT !.sale = lastSale].image = r.image
  BY <1>1, RowWith
<1>3. CASE r.sale >= lastSale
  BY <1>1, <1>3 DEF WithLiveSale, Larger
<1>4. CASE ~(r.sale >= lastSale)
  BY <1>1, <1>2, <1>4 DEF WithLiveSale, Larger
<1> QED BY <1>3, <1>4

LEMMA NoLiveSale == WithLiveSale(Absent) = Absent
BY DEF WithLiveSale

\* What a batch does to the card.
BatchEffect(got) ==
  /\ liveStatus' = IF "status" \in DOMAIN got THEN got["status"] ELSE liveStatus
  /\ lastSale' = IF "sale" \in DOMAIN got THEN Larger(lastSale, got["sale"]) ELSE lastSale
  /\ given' = IF "image" \in DOMAIN got THEN Larger(given, got["image"]) ELSE given
  /\ list \notin Row => list' = list
  /\ list \in Row =>
       /\ list' \in Row
       /\ list'.image = IF "image" \in DOMAIN got THEN got["image"] ELSE list.image
       /\ list'.sale >= list.sale
       /\ "sale" \notin DOMAIN got => list'.sale = list.sale
       /\ "sale" \in DOMAIN got =>
            /\ list'.sale \in {list.sale, got["sale"]}
            /\ lastSale < got["sale"] => list'.sale >= got["sale"]

LEMMA BatchDoes ==
  ASSUME DashTypes, BatchArrives
  PROVE  BatchEffect(Head(wire).news)
<1> DEFINE got == Head(wire).news
           pictured == IF "image" \in DOMAIN got /\ list \notin {Unloaded, Absent}
                       THEN [list EXCEPT !.image = got["image"]] ELSE list
<1>1. /\ liveStatus' = IF "status" \in DOMAIN got THEN got["status"] ELSE liveStatus
      /\ lastSale' = IF "sale" \in DOMAIN got THEN Larger(lastSale, got["sale"]) ELSE lastSale
      /\ given' = IF "image" \in DOMAIN got THEN Larger(given, got["image"]) ELSE given
      /\ list' = IF "sale" \in DOMAIN got THEN UpdatedSale(pictured, got["sale"]) ELSE pictured
  BY DEF BatchArrives
<1>2. \A k \in DOMAIN got : got[k] \in 0..MaxNews
  BY HeadTyped DEF BatchArrives
<1>3. list \in Row \union {Unloaded, Absent}
  BY DashParts
<1>4. ASSUME list \notin Row PROVE list' = list
  BY <1>1, <1>3, <1>4 DEF UpdatedSale
<1>5. ASSUME list \in Row
      PROVE  /\ list' \in Row
             /\ list'.image = IF "image" \in DOMAIN got THEN got["image"] ELSE list.image
             /\ list'.sale >= list.sale
             /\ "sale" \notin DOMAIN got => list'.sale = list.sale
             /\ "sale" \in DOMAIN got =>
                  /\ list'.sale \in {list.sale, got["sale"]}
                  /\ lastSale < got["sale"] => list'.sale >= got["sale"]
  <2>1. list \notin {Unloaded, Absent} /\ list.sale \in Nat
    BY <1>5, DashBounds, RowFields
  <2>2. /\ pictured \in Row /\ pictured.sale = list.sale
        /\ pictured.image = IF "image" \in DOMAIN got THEN got["image"] ELSE list.image
    <3>1. CASE "image" \in DOMAIN got
      <4>1. pictured = [list EXCEPT !.image = got["image"]]
        BY <2>1, <3>1
      <4>2. got["image"] \in 0..MaxNews
        BY <1>2, <3>1
      <4> HIDE DEF pictured, got
      <4> QED BY <1>5, <3>1, <4>1, <4>2, RowWith
    <3>2. CASE "image" \notin DOMAIN got
      BY <1>5, <3>2
    <3> QED BY <3>1, <3>2
  <2> HIDE DEF pictured
  <2>3. CASE "sale" \in DOMAIN got
    BY <1>1, <1>2, <2>2, <2>3, UpdatedSaleTyped
  <2>4. CASE "sale" \notin DOMAIN got
    BY <1>1, <2>1, <2>2, <2>4
  <2> QED BY <2>3, <2>4
<1> QED BY <1>1, <1>4, <1>5 DEF BatchEffect

LEMMA DashInitTypes == DashInit => DashTypes
<1> SUFFICES ASSUME DashInit PROVE DashTypes
  OBVIOUS
<1>1. account \in [Kinds -> 0..MaxNews] /\ told \in Row
  BY DashBounds DEF DashInit, Row
<1>2. readings \in [Lists -> ReadingKind]
  BY DashBounds DEF DashInit, ReadingKind, ListAsked, Free
<1>3. needs \in -1..MaxReadings /\ liveStatus \in -1..MaxNews /\ upload \in -1..MaxNews
  BY DashBounds DEF DashInit
<1>4. wire \in Seq(Message) /\ DOMAIN wire = {}
  BY DEF DashInit
<1>5. /\ seen \in 0..MaxReadings /\ newest \in 0..MaxReadings /\ readingsMade \in 0..MaxReadings
      /\ lastSale \in 0..MaxNews /\ given \in 0..MaxNews /\ newsMade \in 0..MaxNews /\ breaks \in 0..MaxBreaks
  BY DashBounds DEF DashInit
<1>6. /\ present \in BOOLEAN /\ cable \in {"down", "joining", "up", "ended"} /\ gathered \subseteq Kinds
      /\ initial \in BOOLEAN /\ list \in Row \union {Unloaded, Absent} /\ removal \in {"no", "sent", "done"}
  BY DEF DashInit
<1> QED BY <1>1, <1>2, <1>3, <1>4, <1>5, <1>6 DEF DashTypes, DashTypeOK, ReadingKind

\* The types, part by part: the backend, the socket, the card, the requests.
BackendTypes ==
  account \in [Kinds -> 0..MaxNews] /\ present \in BOOLEAN /\ told \in Row /\ newsMade \in 0..MaxNews
CableTypes ==
  cable \in {"down", "joining", "up", "ended"} /\ gathered \subseteq Kinds /\ wire \in Seq(Message)
CardTypes ==
  /\ initial \in BOOLEAN /\ liveStatus \in -1..MaxNews /\ list \in Row \union {Unloaded, Absent}
  /\ lastSale \in 0..MaxNews /\ given \in 0..MaxNews
GhostTypes ==
  seen \in 0..MaxReadings /\ newest \in 0..MaxReadings /\ needs \in -1..MaxReadings
RequestTypes ==
  /\ readings \in [Lists -> ReadingKind] /\ removal \in {"no", "sent", "done"}
  /\ upload \in -1..MaxNews /\ readingsMade \in 0..MaxReadings /\ breaks \in 0..MaxBreaks

LEMMA TypesInParts ==
  DashTypes <=> BackendTypes /\ CableTypes /\ CardTypes /\ GhostTypes /\ RequestTypes
BY MessagesTyped
   DEF DashTypes, DashTypeOK, BackendTypes, CableTypes, CardTypes, GhostTypes, RequestTypes, ReadingKind

LEMMA BackendTypesStep ==
  ASSUME DashTypes, NoneAhead, [DashNext]_dashVars
  PROVE  BackendTypes'
<1>1. BackendTypes
  BY TypesInParts
<1>2. CASE StatusNews
  BY <1>1, <1>2, AccountChanges, DashCounters DEF StatusNews, BackendTypes, Kinds
<1>3. ASSUME NEW kind \in {"image", "sale"}, RowNews(kind) PROVE BackendTypes'
  BY <1>1, <1>3, AccountChanges, DashCounters DEF RowNews, BackendTypes, Kinds
<1>4. ASSUME NEW kind \in {"image", "sale"}, RowTold(kind) PROVE BackendTypes'
  BY <1>1, <1>4, ToldChanges DEF RowTold, BackendTypes
<1>5. CASE UploadDone
  BY <1>1, <1>5, AccountChanges, DashCounters DEF UploadDone, BackendTypes, Kinds
<1>6. CASE RemovalDone
  BY <1>1, <1>6 DEF RemovalDone, BackendTypes
<1>7. CASE UNCHANGED <<backend, newsMade>>
  BY <1>1, <1>7 DEF backend, BackendTypes
<1> QED
  BY <1>2, <1>3, <1>4, <1>5, <1>6, <1>7
     DEF DashNext, dashVars, SendsStatuses, FlushNews, ListIsRead, ListArrives, ListFails, BatchArrives,
         StatusesArrive, SocketCloses, SocketConnects, AsksRemoval, RemovalAnswered, RemovalFails,
         AsksUpload, UploadAnswered, UploadFails

LEMMA CableTypesStep ==
  ASSUME DashTypes, NoneAhead, [DashNext]_dashVars
  PROVE  CableTypes'
<1>1. CableTypes
  BY TypesInParts
<1>2. CASE StatusNews
  BY <1>1, <1>2, HearsTypes DEF StatusNews, CableTypes, Kinds
<1>3. ASSUME NEW kind \in {"image", "sale"}, RowTold(kind) PROVE CableTypes'
  BY <1>1, <1>3, HearsTypes DEF RowTold, CableTypes, Kinds
<1>4. CASE SendsStatuses
  BY <1>1, <1>4, FirstMessage DEF SendsStatuses, CableTypes
<1>5. CASE FlushNews
  BY <1>1, <1>5, BatchMessage DEF FlushNews, CableTypes
<1>6. CASE BatchArrives \/ StatusesArrive
  BY <1>1, <1>6, HeadTyped DEF BatchArrives, StatusesArrive, CableTypes
<1>7. CASE SocketCloses \/ SocketConnects
  <2>1. /\ cable' \in {"down", "joining", "up", "ended"} /\ gathered' \in {gathered, {}}
        /\ wire' \in {wire, <<>>}
    BY <1>7 DEF SocketCloses, SocketConnects
  <2>2. <<>> \in Seq(Message)
    OBVIOUS
  <2> QED BY <1>1, <2>1, <2>2 DEF CableTypes
<1>8. CASE UNCHANGED <<cable, gathered, wire>>
  BY <1>1, <1>8 DEF CableTypes
<1> QED
  BY <1>2, <1>3, <1>4, <1>5, <1>6, <1>7, <1>8
     DEF DashNext, dashVars, RowNews, ListIsRead, ListArrives, ListFails, AsksRemoval, RemovalDone,
         RemovalAnswered, RemovalFails, AsksUpload, UploadDone, UploadAnswered, UploadFails

\* The statuses of a new connection.
LEMMA FirstNews ==
  ASSUME DashTypes, Channel, StatusesArrive
  PROVE  DOMAIN Head(wire).news = {"status"} /\ Head(wire).news["status"] \in 0..MaxNews
<1>1. Head(wire) \in Carried
  BY HeadTyped, HeadTailProperties DEF Carried, StatusesArrive, DashTypes
<1>2. DOMAIN Head(wire).news = {"status"}
  BY <1>1 DEF Channel, StatusesArrive
<1> QED BY <1>2, HeadTyped DEF StatusesArrive

LEMMA CardTypesStep ==
  ASSUME DashTypes, Channel, [DashNext]_dashVars
  PROVE  CardTypes'
<1>1. CardTypes
  BY TypesInParts
<1>2. CASE BatchArrives
  <2>1. BatchEffect(Head(wire).news) /\ initial' = initial
    BY <1>2, BatchDoes DEF BatchArrives
  <2>2. \A k \in DOMAIN Head(wire).news : Head(wire).news[k] \in 0..MaxNews
    BY <1>2, HeadTyped DEF BatchArrives
  <2>3. liveStatus' \in -1..MaxNews
    BY <1>1, <2>1, <2>2, DashBounds DEF BatchEffect, CardTypes
  <2>4. lastSale' \in 0..MaxNews /\ given' \in 0..MaxNews
    BY <1>1, <2>1, <2>2, DashBounds, LargerTyped DEF BatchEffect, CardTypes
  <2> QED BY <1>1, <2>1, <2>3, <2>4 DEF BatchEffect, CardTypes
<1>3. CASE StatusesArrive
  <2>1. /\ liveStatus' = Head(wire).news["status"] /\ initial' = TRUE
        /\ UNCHANGED <<list, lastSale, given>>
    BY <1>3 DEF StatusesArrive
  <2>2. Head(wire).news["status"] \in 0..MaxNews
    BY <1>3, FirstNews
  <2>3. liveStatus' \in -1..MaxNews
    BY <2>1, <2>2, DashBounds
  <2> QED BY <1>1, <2>1, <2>3 DEF CardTypes
<1>4. ASSUME NEW l \in Lists, ListArrives(l) PROVE CardTypes'
  <2>1. readings[l].row \in Row \union {Absent}
    BY DashParts, ReadingFields
  <2>2. list' \in Row \union {Unloaded, Absent}
    BY <1>4, <2>1, WithLiveSaleTyped, NoLiveSale DEF ListArrives
  <2>3. given' \in 0..MaxNews
    BY <1>1, <1>4, <2>1, LargerTyped, RowFields, DashBounds DEF ListArrives, CardTypes
  <2> QED BY <1>1, <1>4, <2>2, <2>3 DEF CardTypes, ListArrives
<1>5. CASE UploadAnswered
  <2>1. upload \in 0..MaxNews
    BY <1>5, DashParts, DashNumbers, DashBounds DEF UploadAnswered
  <2>2. list' \in Row \union {Unloaded, Absent}
    BY <1>1, <1>5, <2>1, RowWith DEF UploadAnswered, UpdateImage, CardTypes
  <2>3. given' \in 0..MaxNews
    BY <1>1, <1>5, <2>1, LargerTyped, DashBounds DEF UploadAnswered, UpdateImage, CardTypes
  <2> QED BY <1>1, <1>5, <2>2, <2>3 DEF CardTypes, UploadAnswered
<1>6. CASE UNCHANGED <<initial, liveStatus, list, lastSale, given>>
  BY <1>1, <1>6 DEF CardTypes
<1> QED
  BY <1>2, <1>3, <1>4, <1>5, <1>6
     DEF DashNext, dashVars, card, StatusNews, RowNews, RowTold, SendsStatuses, FlushNews, ListIsRead,
         ListFails, SocketCloses, SocketConnects, AsksRemoval, RemovalDone, RemovalAnswered, RemovalFails,
         AsksUpload, UploadDone, UploadFails

LEMMA GhostTypesStep ==
  ASSUME DashTypes, NoneAhead, [DashNext]_dashVars
  PROVE  GhostTypes'
<1>1. GhostTypes
  BY TypesInParts
<1>2. CASE StatusNews
  BY <1>1, <1>2, HearsTypes DEF StatusNews, GhostTypes, Kinds
<1>3. ASSUME NEW kind \in {"image", "sale"}, RowTold(kind) PROVE GhostTypes'
  BY <1>1, <1>3, HearsTypes DEF RowTold, GhostTypes, Kinds
<1>4. ASSUME NEW l \in Lists, ListArrives(l) PROVE GhostTypes'
  <2>1. readings[l].n \in 0..MaxReadings
    BY DashParts, ReadingFields
  <2>2. Larger(newest, readings[l].n) \in 0..MaxReadings
    BY <1>1, <2>1, DashBounds, LargerTyped DEF GhostTypes
  <2> QED BY <1>1, <1>4, <2>1, <2>2 DEF ListArrives, GhostTypes
<1>5. CASE needs' \in {needs, readingsMade} /\ UNCHANGED <<seen, newest>>
  BY <1>1, <1>5, DashCounters DEF GhostTypes
<1> QED
  BY <1>2, <1>3, <1>4, <1>5
     DEF DashNext, dashVars, card, RowNews, SendsStatuses, FlushNews, ListIsRead, ListFails, BatchArrives,
         StatusesArrive, SocketCloses, SocketConnects, AsksRemoval, RemovalDone, RemovalAnswered, RemovalFails,
         AsksUpload, UploadDone, UploadAnswered, UploadFails

LEMMA RequestTypesStep ==
  ASSUME DashTypes, NoneAhead, [DashNext]_dashVars
  PROVE  RequestTypes'
<1>1. RequestTypes
  BY TypesInParts
<1>2. ASSUME NEW l \in Lists, ListIsRead(l) PROVE RequestTypes'
  BY <1>1, <1>2, ReadingTyped DEF ListIsRead, RequestTypes
<1>3. ASSUME NEW l \in Lists, ListArrives(l) PROVE RequestTypes'
  BY <1>1, <1>3, FreeTyped DEF ListArrives, RequestTypes
<1>4. ASSUME NEW l \in Lists, ListFails(l) PROVE RequestTypes'
  BY <1>1, <1>4, FreeTyped, DashCounters DEF ListFails, RequestTypes
<1>5. CASE StatusesArrive
  BY <1>1, <1>5, LoadTypes DEF StatusesArrive, RequestTypes
<1>6. CASE SocketCloses
  BY <1>1, <1>6, DashCounters DEF SocketCloses, RequestTypes, requests
<1>7. CASE AsksRemoval \/ RemovalDone \/ RemovalFails
  BY <1>1, <1>7, DashCounters DEF AsksRemoval, RemovalDone, RemovalFails, RequestTypes
<1>8. CASE RemovalAnswered
  BY <1>1, <1>8, LoadTypes DEF RemovalAnswered, RequestTypes
<1>9. CASE AsksUpload \/ UploadAnswered
  BY <1>1, <1>9, DashBounds DEF AsksUpload, UploadAnswered, RequestTypes
<1>10. CASE UploadDone
  <2>1. /\ upload' = account["image"] + 1 /\ newsMade < MaxNews
        /\ UNCHANGED <<readings, removal, readingsMade, breaks>>
    BY <1>10, DashNumbers DEF UploadDone
  <2>2. account["image"] <= newsMade
    BY DEF NoneAhead, NewsCounted, Kinds
  <2>3. upload' \in -1..MaxNews
    BY <2>1, <2>2, DashNumbers, DashBounds
  <2> QED BY <1>1, <2>1, <2>3 DEF RequestTypes
<1>11. CASE UploadFails
  BY <1>1, <1>11, DashBounds, DashCounters DEF UploadFails, RequestTypes
<1>12. CASE UNCHANGED <<requests, breaks>>
  BY <1>1, <1>12 DEF requests, RequestTypes
<1> QED
  BY <1>2, <1>3, <1>4, <1>5, <1>6, <1>7, <1>8, <1>9, <1>10, <1>11, <1>12
     DEF DashNext, dashVars, StatusNews, RowNews, RowTold, SendsStatuses, FlushNews, BatchArrives,
         SocketConnects

LEMMA DashTypesStep ==
  ASSUME DashTypes, NoneAhead, Channel, [DashNext]_dashVars
  PROVE  DashTypes'
<1>1. BackendTypes' /\ CableTypes' /\ CardTypes' /\ GhostTypes' /\ RequestTypes'
  BY BackendTypesStep, CableTypesStep, CardTypesStep, GhostTypesStep, RequestTypesStep
<1>2. CableTypes' => \A i \in DOMAIN wire' : wire'[i].first \in BOOLEAN /\ DOMAIN wire'[i].news \subseteq Kinds
  BY NewsValue DEF CableTypes
<1> QED
  BY <1>1, <1>2
     DEF DashTypes, DashTypeOK, BackendTypes, CableTypes, CardTypes, GhostTypes, RequestTypes, ReadingKind

-----------------------------------------------------------------------------
\* The backend only goes forward.
Forward ==
  /\ \A k \in Kinds : account[k] \in Nat /\ account'[k] \in Nat /\ account[k] <= account'[k]
  /\ \A k \in {"image", "sale"} : told[k] \in Nat /\ told'[k] \in Nat /\ told[k] <= told'[k]
  /\ readingsMade \in Nat /\ readingsMade' \in Nat /\ readingsMade <= readingsMade'

LEMMA BackendForward ==
  ASSUME DashTypes, DashTypes', NoneAhead, [DashNext]_dashVars
  PROVE  /\ Forward
         /\ account.image <= account'.image /\ account["image"] <= account'["image"]
         /\ account["sale"] <= account'["sale"]
         /\ told.image <= told'.image /\ told.sale <= told'.sale
<1>0. /\ account \in [Kinds -> 0..MaxNews] /\ account' \in [Kinds -> 0..MaxNews]
      /\ told \in Row /\ told' \in Row /\ MaxNews \in Nat
      /\ readingsMade' \in 0..MaxReadings
  BY DashBounds DEF DashTypes, DashTypeOK
<1>1. /\ account \in [Kinds -> 0..MaxNews] /\ account' \in [Kinds -> 0..MaxNews]
      /\ told \in Row /\ told' \in Row /\ readingsMade \in Nat /\ readingsMade' \in Nat
      /\ MaxNews \in Nat
  BY <1>0, DashNumbers, DashBounds
<1>2. \A k \in Kinds : account[k] \in Nat /\ account'[k] \in Nat
  BY <1>1
<1>3. \A k \in {"image", "sale"} : told[k] \in Nat /\ told'[k] \in Nat
  BY <1>1, RowFields
<1>4. \A k \in Kinds : account[k] <= account'[k]
  <2>1. CASE StatusNews
    BY <2>1, AccountChanges DEF StatusNews, Kinds
  <2>2. ASSUME NEW kind \in {"image", "sale"}, RowNews(kind) PROVE \A k \in Kinds : account[k] <= account'[k]
    BY <2>2, AccountChanges DEF RowNews, Kinds
  <2>3. CASE UploadDone
    BY <2>3, AccountChanges DEF UploadDone, Kinds
  <2>4. CASE account' = account
    BY <1>2, <2>4
  <2> QED
    BY <2>1, <2>2, <2>3, <2>4
       DEF DashNext, dashVars, backend, RowTold, SendsStatuses, FlushNews, ListIsRead, ListArrives, ListFails,
           BatchArrives, StatusesArrive, SocketCloses, SocketConnects, AsksRemoval, RemovalDone,
           RemovalAnswered, RemovalFails, AsksUpload, UploadAnswered, UploadFails
<1>5. \A k \in {"image", "sale"} : told[k] <= told'[k]
  <2>1. ASSUME NEW kind \in {"image", "sale"}, RowTold(kind) PROVE \A k \in {"image", "sale"} : told[k] <= told'[k]
    BY <2>1, ToldChanges
  <2>2. CASE told' = told
    BY <1>3, <2>2
  <2> QED
    BY <2>1, <2>2
       DEF DashNext, dashVars, backend, StatusNews, RowNews, SendsStatuses, FlushNews, ListIsRead,
           ListArrives, ListFails, BatchArrives, StatusesArrive, SocketCloses, SocketConnects, AsksRemoval,
           RemovalDone, RemovalAnswered, RemovalFails, AsksUpload, UploadDone, UploadAnswered, UploadFails
<1>6. readingsMade <= readingsMade'
  <2>1. ASSUME NEW l \in Lists, ListIsRead(l) PROVE readingsMade <= readingsMade'
    BY <1>1, <2>1 DEF ListIsRead
  <2>2. CASE readingsMade' = readingsMade
    BY <1>1, <2>2
  <2> QED
    BY <2>1, <2>2
       DEF DashNext, dashVars, requests, StatusNews, RowNews, RowTold, SendsStatuses, FlushNews,
           ListArrives, ListFails, BatchArrives, StatusesArrive, SocketCloses, SocketConnects, AsksRemoval,
           RemovalDone, RemovalAnswered, RemovalFails, AsksUpload, UploadDone, UploadAnswered, UploadFails
<1>7. /\ account.image = account["image"] /\ account'.image = account'["image"]
      /\ told["image"] = told.image /\ told["sale"] = told.sale
      /\ told'["image"] = told'.image /\ told'["sale"] = told'.sale
  BY <1>1, RowFields
<1>8. Forward
  BY <1>1, <1>2, <1>3, <1>4, <1>5, <1>6 DEF Forward
<1>9. account["image"] <= account'["image"] /\ account["sale"] <= account'["sale"]
  BY <1>4 DEF Kinds
<1>10. told["image"] <= told'["image"] /\ told["sale"] <= told'["sale"]
  BY <1>5
<1> QED BY <1>7, <1>8, <1>9, <1>10

LEMMA NewsCountedStep ==
  ASSUME DashTypes, NoneAhead, [DashNext]_dashVars
  PROVE  NewsCounted'
<1>1. NewsCounted
  BY DEF NoneAhead
<1>2. CASE StatusNews
  BY <1>2, AccountChanges DEF StatusNews, Kinds, NewsCounted
<1>3. ASSUME NEW kind \in {"image", "sale"}, RowNews(kind) PROVE NewsCounted'
  BY <1>3, AccountChanges DEF RowNews, Kinds, NewsCounted
<1>4. CASE UploadDone
  BY <1>4, AccountChanges DEF UploadDone, Kinds, NewsCounted
<1>5. CASE UNCHANGED <<account, newsMade>>
  BY <1>1, <1>5 DEF NewsCounted
<1> QED
  BY <1>2, <1>3, <1>4, <1>5
     DEF DashNext, dashVars, backend, RowTold, SendsStatuses, FlushNews, ListIsRead, ListArrives, ListFails,
         BatchArrives, StatusesArrive, SocketCloses, SocketConnects, AsksRemoval, RemovalDone,
         RemovalAnswered, RemovalFails, AsksUpload, UploadAnswered, UploadFails

LEMMA ToldBehindStep ==
  ASSUME DashTypes, DashTypes', NoneAhead, [DashNext]_dashVars
  PROVE  ToldBehind'
<1>1. ToldBehind
  BY DEF NoneAhead
<1>2. ASSUME NEW kind \in {"image", "sale"}, RowTold(kind) PROVE ToldBehind'
  <2>1. told' \in Row /\ account' = account
    BY <1>2, ToldChanges DEF RowTold
  <2>2. told'["image"] <= account["image"] /\ told'["sale"] <= account["sale"]
    BY <1>2, ToldChanges
  <2> QED BY <2>1, <2>2, RowFields DEF ToldBehind
<1>3. CASE told' = told
  <2>1. /\ told.image \in Nat /\ told.sale \in Nat /\ account["image"] \in Nat /\ account["sale"] \in Nat
        /\ account'["image"] \in Nat /\ account'["sale"] \in Nat
    BY DashNumbers, BackendForward DEF Forward, Kinds
  <2>2. account["image"] <= account'["image"] /\ account["sale"] <= account'["sale"]
    BY BackendForward
  <2> QED BY <1>1, <1>3, <2>1, <2>2 DEF ToldBehind
<1> QED
  BY <1>2, <1>3
     DEF DashNext, dashVars, backend, StatusNews, RowNews, SendsStatuses, FlushNews, ListIsRead,
         ListArrives, ListFails, BatchArrives, StatusesArrive, SocketCloses, SocketConnects, AsksRemoval,
         RemovalDone, RemovalAnswered, RemovalFails, AsksUpload, UploadDone, UploadAnswered, UploadFails

\* What arrives in a batch was told.
LEMMA BatchTold ==
  ASSUME DashTypes, NoneAhead, wire # <<>>, NEW k \in DOMAIN Head(wire).news, k \in {"image", "sale"}
  PROVE  /\ Head(wire).news[k] \in Nat /\ Head(wire).news[k] <= told[k]
         /\ Head(wire).news[k] <= account[k]
<1>1. Head(wire) \in Carried
  BY HeadTailProperties DEF Carried, DashTypes
<1>2. Head(wire).news[k] <= told[k]
  BY <1>1 DEF NoneAhead, WireBehind
<1>3. Head(wire).news[k] \in Nat /\ told[k] \in Nat /\ account[k] \in Nat
  <2>1. Head(wire).news[k] \in 0..MaxNews
    BY HeadTyped
  <2>2. told["image"] \in Nat /\ told["sale"] \in Nat
    BY RowFields, DashParts
  <2>3. Head(wire).news[k] \in Nat
    BY <2>1, DashBounds
  <2>4. account["image"] \in Nat /\ account["sale"] \in Nat
    BY DashNumbers
  <2> QED BY <2>2, <2>3, <2>4
<1>4. told[k] <= account[k]
  BY RowFields, DashParts DEF NoneAhead, ToldBehind
<1> QED BY <1>2, <1>3, <1>4

LEMMA CardBehindStep ==
  ASSUME DashTypes, DashTypes', NoneAhead, [DashNext]_dashVars
  PROVE  CardBehind'
<1>1. lastSale <= told.sale /\ given <= account["image"] /\ upload <= account["image"]
  BY DEF NoneAhead, CardBehind
<1>2. /\ lastSale \in Nat /\ given \in Nat /\ upload \in Int
      /\ told.sale \in Nat /\ told'.sale \in Nat /\ account["image"] \in Nat /\ account'["image"] \in Nat
  BY DashNumbers, BackendForward, RowFields, DashParts DEF Forward, Kinds
<1>3. told.sale <= told'.sale /\ account["image"] <= account'["image"]
  BY BackendForward
<1>4. lastSale <= told'.sale /\ given <= account'["image"] /\ upload <= account'["image"]
  BY <1>1, <1>2, <1>3
<1>5. CASE BatchArrives
  <2>1. BatchEffect(Head(wire).news) /\ wire # <<>> /\ UNCHANGED <<told, account, upload>>
    BY <1>5, BatchDoes DEF BatchArrives, backend, requests
  <2>2. lastSale' \in {lastSale} \union {Head(wire).news[k] : k \in DOMAIN Head(wire).news \intersect {"sale"}}
    BY <2>1 DEF BatchEffect, Larger
  <2>3. given' \in {given} \union {Head(wire).news[k] : k \in DOMAIN Head(wire).news \intersect {"image"}}
    BY <2>1 DEF BatchEffect, Larger
  <2>4. lastSale' <= told["sale"] /\ given' <= account["image"]
    BY <1>1, <2>1, <2>2, <2>3, BatchTold, RowFields, DashParts
  <2> QED BY <1>1, <2>1, <2>4, RowFields, DashParts DEF CardBehind
<1>6. ASSUME NEW l \in Lists, ListArrives(l) PROVE CardBehind'
  <2>1. /\ UNCHANGED <<told, account, upload, lastSale>>
        /\ given' = IF readings[l].row = Absent THEN given ELSE Larger(given, readings[l].row.image)
    BY <1>6 DEF ListArrives, backend
  <2>2. readings[l].row # Absent => readings[l].row.image <= account["image"]
    BY DEF NoneAhead, ReadingsBehind
  <2>3. given' <= account["image"]
    BY <1>1, <2>1, <2>2 DEF Larger
  <2> QED BY <1>1, <2>1, <2>3 DEF CardBehind
<1>7. CASE UploadAnswered
  <2>1. UNCHANGED <<told, account, lastSale>> /\ given' = Larger(given, upload) /\ upload' = 0
    BY <1>7 DEF UploadAnswered, UpdateImage, backend
  <2>2. given' <= account["image"] /\ upload' <= account["image"]
    BY <1>1, <1>2, <2>1 DEF Larger
  <2> QED BY <1>1, <2>1, <2>2 DEF CardBehind
<1>8. CASE UploadDone
  <2>1. upload' = account["image"] + 1 /\ account' = [account EXCEPT !["image"] = @ + 1] /\ newsMade < MaxNews
        /\ UNCHANGED <<told, lastSale, given>>
    BY <1>8, DashNumbers DEF UploadDone, card
  <2>2. account'["image"] = account["image"] + 1
    BY <2>1, AccountChanges DEF Kinds
  <2> QED BY <1>4, <1>2, <2>1, <2>2 DEF CardBehind
<1>9. CASE upload' \in {upload, -1, 0} /\ UNCHANGED <<lastSale, given>>
  <2>1. upload' <= account'["image"]
    BY <1>2, <1>4, <1>9
  <2> QED BY <1>4, <1>9, <2>1 DEF CardBehind
<1> QED
  BY <1>5, <1>6, <1>7, <1>8, <1>9
     DEF DashNext, dashVars, card, requests, StatusNews, RowNews, RowTold, SendsStatuses, FlushNews,
         ListIsRead, ListFails, StatusesArrive, SocketCloses, SocketConnects, AsksRemoval, RemovalDone,
         RemovalAnswered, RemovalFails, AsksUpload, UploadFails

LEMMA WireBehindStep ==
  ASSUME DashTypes, DashTypes', NoneAhead, Channel, [DashNext]_dashVars
  PROVE  WireBehind'
<1>1. /\ \A m \in Carried : \A k \in DOMAIN m.news : k # "status" => m.news[k] <= told[k]
      /\ Carried \subseteq Message
  BY DashParts DEF NoneAhead, WireBehind
<1>2. \A k \in {"image", "sale"} : told[k] \in Nat /\ told'[k] \in Nat /\ told[k] <= told'[k]
  BY BackendForward DEF Forward
<1>3. ASSUME NEW m \in Carried, NEW k \in DOMAIN m.news, k # "status"
      PROVE  m.news[k] <= told'[k]
  <2>1. m.news[k] \in Nat /\ k \in {"image", "sale"} /\ m.news[k] <= told[k]
    BY <1>1, <1>3, NewsValue DEF Kinds
  <2> QED BY <1>2, <2>1
<1>4. CASE SendsStatuses
  <2>1. PICK m \in Message : wire' = Append(wire, m) /\ DOMAIN m.news = {"status"}
    BY <1>4, FirstMessage
  <2>2. Carried' = Carried \union {m}
    BY <2>1, WireGrows DEF DashTypes
  <2> QED BY <1>3, <2>1, <2>2 DEF WireBehind
<1>5. CASE FlushNews
  <2>1. PICK m \in Message : /\ wire' = Append(wire, m) /\ DOMAIN m.news = gathered
                             /\ \A k \in gathered : m.news[k] = IF k = "status" THEN account[k] ELSE told[k]
    BY <1>5, BatchMessage
  <2>2. Carried' = Carried \union {m}
    BY <2>1, WireGrows DEF DashTypes
  <2>3. ASSUME NEW k \in DOMAIN m.news, k # "status" PROVE m.news[k] <= told'[k]
    <3>1. m.news[k] = told[k] /\ k \in {"image", "sale"}
      BY <2>1, <2>3, NewsValue DEF Kinds
    <3> QED BY <1>2, <3>1
  <2> QED BY <1>3, <2>1, <2>2, <2>3 DEF WireBehind
<1>6. CASE BatchArrives \/ StatusesArrive
  <2>1. Carried' \subseteq Carried
    BY <1>6, WireShrinks DEF BatchArrives, StatusesArrive, DashTypes
  <2> QED BY <1>3, <2>1 DEF WireBehind
<1>7. CASE SocketCloses
  <2>1. Carried' = {}
    BY <1>7 DEF SocketCloses, Carried
  <2> QED BY <2>1 DEF WireBehind
<1>8. CASE wire' = wire
  <2>1. Carried' = Carried
    BY <1>8 DEF Carried
  <2> QED BY <1>3, <2>1 DEF WireBehind
<1> QED
  BY <1>4, <1>5, <1>6, <1>7, <1>8
     DEF DashNext, dashVars, StatusNews, RowNews, RowTold, ListIsRead, ListArrives, ListFails,
         SocketConnects, AsksRemoval, RemovalDone, RemovalAnswered, RemovalFails, AsksUpload, UploadDone,
         UploadAnswered, UploadFails

\* A reading forgotten or asked for anew says nothing.
Forgotten(l, r) == readings' = [readings EXCEPT ![l] = r] /\ r \in {Free, ListAsked}

LEMMA LoadForgets ==
  ASSUME Load
  PROVE  \E l \in Lists : Forgotten(l, ListAsked) /\ readings[l].at = "free"
BY DEF Load, Forgotten

\* The other readings stay as they are.
LEMMA ReadingsElsewhere ==
  ASSUME DashTypes, NEW l \in Lists, NEW r, readings' = [readings EXCEPT ![l] = r]
  PROVE  readings'[l] = r /\ \A m \in Lists : m # l => readings'[m] = readings[m]
<1>1. readings \in [Lists -> ReadingKind]
  BY DashParts
<1> QED BY <1>1

LEMMA ForgottenFields ==
  /\ Free.at = "free" /\ Free.n = 0 /\ Free.row = Absent
  /\ ListAsked.at = "asked" /\ ListAsked.n = 0 /\ ListAsked.row = Absent
BY DEF Free, ListAsked

\* The step a reading can take.
LEMMA ReadingSteps ==
  ASSUME DashTypes, [DashNext]_dashVars
  PROVE  \/ readings' = readings /\ readingsMade' = readingsMade
         \/ (\E l \in Lists, r \in {Free, ListAsked} : Forgotten(l, r)) /\ readingsMade' = readingsMade
         \/ \E l \in Lists : ListIsRead(l)
<1>1. CASE \E l \in Lists : ListArrives(l) \/ ListFails(l)
  BY <1>1 DEF ListArrives, ListFails, Forgotten
<1>2. CASE StatusesArrive
  <2>1. readings' = readings \/ Load
    BY <1>2 DEF StatusesArrive
  <2>2. readingsMade' = readingsMade
    BY <1>2 DEF StatusesArrive
  <2> QED BY <2>1, <2>2, LoadForgets
<1>3. CASE RemovalAnswered
  BY <1>3, LoadForgets DEF RemovalAnswered
<1>4. CASE UNCHANGED <<readings, readingsMade>>
  BY <1>4
<1> QED
  BY <1>1, <1>2, <1>3, <1>4
     DEF DashNext, dashVars, requests, StatusNews, RowNews, RowTold, SendsStatuses, FlushNews,
         BatchArrives, SocketCloses, SocketConnects, AsksRemoval, RemovalDone, RemovalFails, AsksUpload,
         UploadDone, UploadAnswered, UploadFails

LEMMA ReplyFields ==
  ASSUME DashTypes, NEW n
  PROVE  /\ Reply(n).at = "answered" /\ Reply(n).n = n
         /\ ~present => Reply(n).row = Absent
         /\ present => /\ Reply(n).row \in Row
                       /\ Reply(n).row.image = account["image"] /\ Reply(n).row.sale = account["sale"]
<1>1. account \in [Kinds -> 0..MaxNews]
  BY DashParts
<1> QED BY <1>1 DEF Reply, Row, Kinds

LEMMA ReadingsBehindStep ==
  ASSUME DashTypes, DashTypes', NoneAhead, [DashNext]_dashVars
  PROVE  ReadingsBehind'
<1>1. /\ account["image"] \in Nat /\ account["sale"] \in Nat /\ account'["image"] \in Nat
      /\ account'["sale"] \in Nat
      /\ account["image"] <= account'["image"] /\ account["sale"] <= account'["sale"]
  BY BackendForward DEF Forward, Kinds
<1>2. ASSUME NEW m \in Lists, readings[m].row # Absent
      PROVE  readings[m].row.image <= account'["image"] /\ readings[m].row.sale <= account'["sale"]
  <2>1. readings[m].row.image \in Nat /\ readings[m].row.sale \in Nat
    BY <1>2, DashParts, ReadingFields, RowFields
  <2>2. readings[m].row.image <= account["image"] /\ readings[m].row.sale <= account["sale"]
    BY <1>2 DEF NoneAhead, ReadingsBehind
  <2> QED BY <1>1, <2>1, <2>2
<1>3. ASSUME NEW l \in Lists, NEW r \in {Free, ListAsked}, Forgotten(l, r) PROVE ReadingsBehind'
  BY <1>2, <1>3, ReadingsElsewhere, ForgottenFields DEF Forgotten, ReadingsBehind
<1>4. ASSUME NEW l \in Lists, ListIsRead(l) PROVE ReadingsBehind'
  <2>1. readings' = [readings EXCEPT ![l] = Reply(readingsMade + 1)]
    BY <1>4, ReadingTyped
  <2>2. readings'[l] = Reply(readingsMade + 1) /\ \A m \in Lists : m # l => readings'[m] = readings[m]
    BY <2>1, ReadingsElsewhere
  <2>3. Reply(readingsMade + 1).row # Absent =>
          /\ Reply(readingsMade + 1).row.image <= account'["image"]
          /\ Reply(readingsMade + 1).row.sale <= account'["sale"]
    BY <1>1, ReplyFields
  <2> QED BY <1>2, <2>2, <2>3 DEF ReadingsBehind
<1>5. CASE readings' = readings
  BY <1>2, <1>5 DEF ReadingsBehind
<1> QED BY <1>3, <1>4, <1>5, ReadingSteps

LEMMA NumbersBehindStep ==
  ASSUME DashTypes, DashTypes', NoneAhead, [DashNext]_dashVars
  PROVE  NumbersBehind'
<1>1. /\ readingsMade \in Nat /\ readingsMade' \in Nat /\ readingsMade <= readingsMade'
      /\ seen \in Nat /\ newest \in Nat /\ needs \in Int
  BY DashNumbers, BackendForward DEF Forward
<1>2. /\ \A l \in Lists : readings[l].n <= readingsMade
      /\ seen <= newest /\ newest <= readingsMade /\ needs <= readingsMade
  BY DEF NoneAhead, NumbersBehind
<1>3. \A m \in Lists : readings[m].n \in Nat
  BY DashParts, ReadingFields
<1>4. \A m \in Lists : readings[m].n <= readingsMade'
  BY <1>1, <1>2, <1>3
<1>5. \A m \in Lists : readings'[m].n <= readingsMade'
  <2>1. ASSUME NEW l \in Lists, NEW r \in {Free, ListAsked}, Forgotten(l, r)
        PROVE  \A m \in Lists : readings'[m].n <= readingsMade'
    BY <1>1, <1>4, <2>1, ReadingsElsewhere, ForgottenFields DEF Forgotten
  <2>2. ASSUME NEW l \in Lists, ListIsRead(l) PROVE \A m \in Lists : readings'[m].n <= readingsMade'
    <3>1. readings' = [readings EXCEPT ![l] = Reply(readingsMade + 1)] /\ readingsMade' = readingsMade + 1
      BY <2>2, ReadingTyped DEF ListIsRead
    <3>2. Reply(readingsMade + 1).n <= readingsMade'
      BY <1>1, <3>1, ReplyFields
    <3> QED BY <1>4, <3>1, <3>2, ReadingsElsewhere
  <2> QED BY <1>4, <2>1, <2>2, ReadingSteps
<1>6. seen' <= newest' /\ newest' <= readingsMade'
  <2>1. ASSUME NEW l \in Lists, ListArrives(l) PROVE seen' <= newest' /\ newest' <= readingsMade'
    <3>1. seen' = readings[l].n /\ newest' = Larger(newest, readings[l].n)
      BY <2>1 DEF ListArrives
    <3>2. readings[l].n \in Nat /\ readings[l].n <= readingsMade' /\ newest <= readingsMade'
      BY <1>1, <1>2, <1>3, <1>4
    <3> QED BY <1>1, <3>1, <3>2 DEF Larger
  <2>2. CASE UNCHANGED <<seen, newest>>
    BY <1>1, <1>2, <2>2
  <2> QED
    BY <2>1, <2>2
       DEF DashNext, dashVars, card, StatusNews, RowNews, RowTold, SendsStatuses, FlushNews, ListIsRead,
           ListFails, BatchArrives, StatusesArrive, SocketCloses, SocketConnects, AsksRemoval, RemovalDone,
           RemovalAnswered, RemovalFails, AsksUpload, UploadDone, UploadAnswered, UploadFails
<1>7. needs' <= readingsMade'
  <2>1. needs' \in {needs, readingsMade}
    BY DEF DashNext, dashVars, card, Hears, StatusNews, RowNews, RowTold, SendsStatuses, FlushNews,
           ListIsRead, ListArrives, ListFails, BatchArrives, StatusesArrive, SocketCloses, SocketConnects,
           AsksRemoval, RemovalDone, RemovalAnswered, RemovalFails, AsksUpload, UploadDone, UploadAnswered,
           UploadFails
  <2> QED BY <1>1, <1>2, <2>1
<1> QED BY <1>5, <1>6, <1>7 DEF NumbersBehind

LEMMA ListBehindStep ==
  ASSUME DashTypes, DashTypes', NoneAhead, [DashNext]_dashVars
  PROVE  ListBehind'
<1>1. /\ lastSale \in Nat /\ given \in Nat /\ upload \in Int /\ account["sale"] \in Nat
      /\ account'["sale"] \in Nat /\ account["sale"] <= account'["sale"]
      /\ list \in Row => list.image \in Nat /\ list.sale \in Nat
      /\ lastSale <= told.sale /\ told.sale <= account["sale"] /\ told.sale \in Nat
  BY DashNumbers, BackendForward, RowFields DEF Forward, Kinds, NoneAhead, CardBehind, ToldBehind
<1>2. list \in Row => list.image <= given /\ lastSale <= list.sale /\ list.sale <= account["sale"]
  BY DEF NoneAhead, ListBehind
<1>3. list \in Row \union {Unloaded, Absent} /\ list' \in Row \union {Unloaded, Absent}
  BY DEF DashTypes, DashTypeOK
<1>4. CASE BatchArrives
  <2>1. BatchEffect(Head(wire).news) /\ wire # <<>> /\ UNCHANGED account
    BY <1>4, BatchDoes DEF BatchArrives, backend
  <2>2. CASE list \notin Row
    BY <2>1, <2>2 DEF BatchEffect, ListBehind
  <2>3. CASE list \in Row
    <3>1. list'.image <= given'
      <4>1. CASE "image" \in DOMAIN Head(wire).news
        <5> DEFINE v == Head(wire).news["image"]
        <5>1. v \in Nat
          BY <2>1, <4>1, BatchTold
        <5>2. list'.image = v /\ given' = Larger(given, v)
          BY <2>1, <2>3, <4>1 DEF BatchEffect
        <5> HIDE DEF v
        <5> QED BY <1>1, <5>1, <5>2, LargerOf
      <4>2. CASE "image" \notin DOMAIN Head(wire).news
        BY <1>1, <1>2, <2>1, <2>3, <4>2 DEF BatchEffect
      <4> QED BY <4>1, <4>2
    <3>2. lastSale' <= list'.sale /\ list'.sale <= account["sale"]
      <4>1. CASE "sale" \in DOMAIN Head(wire).news
        <5> DEFINE v == Head(wire).news["sale"]
        <5>1. v \in Nat /\ v <= account["sale"]
          BY <2>1, <4>1, BatchTold
        <5>2. /\ list'.sale \in {list.sale, v} /\ list'.sale >= list.sale
              /\ lastSale < v => list'.sale >= v
              /\ lastSale' = Larger(lastSale, v)
          BY <2>1, <2>3, <4>1 DEF BatchEffect
        <5> HIDE DEF v
        <5>3. list'.sale \in Nat /\ list.sale \in Nat
          BY <1>1, <2>3, <5>1, <5>2
        <5>4. list.sale <= account["sale"] /\ lastSale <= list.sale
          BY <1>2, <2>3
        <5>5. list'.sale <= account["sale"]
          BY <5>1, <5>2, <5>4
        <5>6. lastSale' <= list'.sale
          BY <1>1, <5>1, <5>2, <5>3, <5>4 DEF Larger
        <5> QED BY <5>5, <5>6
      <4>2. CASE "sale" \notin DOMAIN Head(wire).news
        BY <1>1, <1>2, <2>1, <2>3, <4>2 DEF BatchEffect
      <4> QED BY <4>1, <4>2
    <3> QED BY <2>1, <3>1, <3>2 DEF ListBehind
  <2> QED BY <2>2, <2>3
<1>5. ASSUME NEW l \in Lists, ListArrives(l) PROVE ListBehind'
  <2>1. /\ list' = WithLiveSale(readings[l].row) /\ UNCHANGED <<account, lastSale>>
        /\ given' = IF readings[l].row = Absent THEN given ELSE Larger(given, readings[l].row.image)
    BY <1>5 DEF ListArrives, backend
  <2>2. readings[l].row \in Row \union {Absent}
    BY DashParts, ReadingFields
  <2>3. CASE readings[l].row = Absent
    BY <2>1, <2>3, NoLiveSale, DashBounds DEF ListBehind
  <2>4. CASE readings[l].row \in Row
    <3>1. /\ readings[l].row.image \in Nat /\ readings[l].row.sale \in Nat /\ readings[l].row # Absent
          /\ readings[l].row.sale <= account["sale"]
      BY <2>4, RowFields DEF NoneAhead, ReadingsBehind
    <3>2. list'.image = readings[l].row.image /\ list'.sale = Larger(readings[l].row.sale, lastSale)
      BY <2>1, <2>4, WithLiveSaleTyped
    <3>3. list'.image <= given'
      <4>1. given' = Larger(given, readings[l].row.image)
        BY <2>1, <3>1
      <4>2. given \in Int /\ readings[l].row.image \in Int
        BY <1>1, <3>1
      <4>3. Larger(given, readings[l].row.image) >= readings[l].row.image
        BY <4>2, LargerOf
      <4> QED BY <3>2, <4>1, <4>2, <4>3
    <3>4. lastSale <= list'.sale /\ list'.sale <= account["sale"]
      BY <1>1, <3>1, <3>2 DEF Larger
    <3> QED BY <2>1, <3>3, <3>4 DEF ListBehind
  <2> QED BY <2>2, <2>3, <2>4
<1>6. CASE UploadAnswered
  <2>1. /\ list' = IF list \in {Unloaded, Absent} THEN list ELSE [list EXCEPT !.image = upload]
        /\ given' = Larger(given, upload) /\ UNCHANGED <<account, lastSale>>
    BY <1>6 DEF UploadAnswered, UpdateImage, backend
  <2>2. CASE list \in {Unloaded, Absent}
    BY <2>1, <2>2, DashBounds DEF ListBehind
  <2>3. CASE list \in Row
    <3>1. upload \in 0..MaxNews
      BY <1>1, <1>6, DashParts, DashBounds DEF UploadAnswered
    <3>2. list'.image = upload /\ list'.sale = list.sale
      BY <2>1, <2>3, <3>1, RowWith, RowFields
    <3> QED BY <1>1, <1>2, <2>1, <2>3, <3>2, LargerOf DEF ListBehind
  <2> QED BY <1>3, <2>2, <2>3
<1>7. CASE UNCHANGED <<list, given, lastSale>>
  <2>1. list \in Row => list.sale <= account'["sale"]
    BY <1>1, <1>2
  <2> QED BY <1>2, <1>7, <2>1 DEF ListBehind
<1> QED
  BY <1>4, <1>5, <1>6, <1>7
     DEF DashNext, dashVars, card, StatusNews, RowNews, RowTold, SendsStatuses, FlushNews, ListIsRead,
         ListFails, StatusesArrive, SocketCloses, SocketConnects, AsksRemoval, RemovalDone,
         RemovalAnswered, RemovalFails, AsksUpload, UploadDone, UploadFails

LEMMA NoneAheadStep ==
  ASSUME DashTypes, DashTypes', NoneAhead, Channel, [DashNext]_dashVars
  PROVE  NoneAhead'
BY NewsCountedStep, ToldBehindStep, CardBehindStep, WireBehindStep, ReadingsBehindStep, ListBehindStep,
   NumbersBehindStep DEF NoneAhead

-----------------------------------------------------------------------------
LEMMA ChannelStep ==
  ASSUME DashTypes, Channel, [DashNext]_dashVars
  PROVE  Channel'
<1>1. /\ cable # "up" => wire = <<>>
      /\ cable \in {"down", "ended"} => gathered = {}
      /\ \A m \in Carried : m.first => DOMAIN m.news = {"status"}
  BY DEF Channel
<1>2. ASSUME NEW kind, Hears(kind), UNCHANGED <<cable, wire>> PROVE Channel'
  BY <1>1, <1>2 DEF Hears, Channel, Carried
<1>3. CASE SendsStatuses
  <2>1. PICK m \in Message : wire' = Append(wire, m) /\ m.first /\ DOMAIN m.news = {"status"}
    BY <1>3, FirstMessage
  <2>2. Carried' = Carried \union {m}
    BY <2>1, WireGrows DEF DashTypes
  <2>3. cable' = "up"
    BY <1>3 DEF SendsStatuses
  <2> QED BY <1>1, <2>1, <2>2, <2>3 DEF Channel
<1>4. CASE FlushNews
  <2>1. PICK m \in Message : wire' = Append(wire, m) /\ ~m.first
    BY <1>4, BatchMessage
  <2>2. Carried' = Carried \union {m}
    BY <2>1, WireGrows DEF DashTypes
  <2>3. cable' = "up"
    BY <1>4 DEF FlushNews
  <2> QED BY <1>1, <2>1, <2>2, <2>3 DEF Channel
<1>5. CASE BatchArrives \/ StatusesArrive
  <2>1. Carried' \subseteq Carried /\ wire # <<>> /\ UNCHANGED <<cable, gathered>>
    BY <1>5, WireShrinks DEF BatchArrives, StatusesArrive, DashTypes
  <2> QED BY <1>1, <2>1 DEF Channel
<1>6. CASE SocketCloses
  <2>1. wire' = <<>> /\ gathered' = {} /\ Carried' = {}
    BY <1>6 DEF SocketCloses, Carried
  <2> QED BY <2>1 DEF Channel
<1>7. CASE SocketConnects
  BY <1>1, <1>7 DEF SocketConnects, Channel, Carried
<1>8. CASE UNCHANGED <<cable, wire, gathered>>
  BY <1>1, <1>8 DEF Channel, Carried
<1> QED
  BY <1>2, <1>3, <1>4, <1>5, <1>6, <1>7, <1>8
     DEF DashNext, dashVars, StatusNews, RowNews, RowTold, ListIsRead, ListArrives, ListFails,
         AsksRemoval, RemovalDone, RemovalAnswered, RemovalFails, AsksUpload, UploadDone,
         UploadAnswered, UploadFails

\* The last status under way, and the status if none is.
LastUnderWay ==
  \A i \in DOMAIN wire :
    "status" \in DOMAIN wire[i].news /\ (\A j \in DOMAIN wire : j > i => "status" \notin DOMAIN wire[j].news)
      => wire[i].news["status"] = account["status"]
NoneUnderWay ==
  (\A i \in DOMAIN wire : "status" \notin DOMAIN wire[i].news) => liveStatus = account["status"]

\* A message that carries a status is the last to do so.
LEMMA StatusSent ==
  ASSUME wire \in Seq(Message), NEW m \in Message, wire' = Append(wire, m),
         "status" \in DOMAIN m.news, m.news["status"] = account'["status"]
  PROVE  LastUnderWay' /\ NoneUnderWay'
<1>1. /\ DOMAIN wire = 1..Len(wire) /\ Len(wire) \in Nat /\ DOMAIN wire' = 1..(Len(wire) + 1)
      /\ wire'[Len(wire) + 1] = m
  BY WireGrows
<1>2. Len(wire) + 1 \in DOMAIN wire' /\ \A i \in DOMAIN wire' : i # Len(wire) + 1 => Len(wire) + 1 > i
  BY <1>1
<1> QED BY <1>1, <1>2 DEF LastUnderWay, NoneUnderWay

\* A message without one changes nothing.
LEMMA OtherSent ==
  ASSUME wire \in Seq(Message), NEW m \in Message, wire' = Append(wire, m),
         "status" \notin DOMAIN m.news, UNCHANGED <<account, liveStatus>>,
         LastUnderWay, NoneUnderWay
  PROVE  LastUnderWay' /\ NoneUnderWay'
<1>1. /\ DOMAIN wire = 1..Len(wire) /\ Len(wire) \in Nat /\ DOMAIN wire' = 1..(Len(wire) + 1)
      /\ \A i \in 1..Len(wire) : wire'[i] = wire[i]
      /\ wire'[Len(wire) + 1] = m
  BY WireGrows
<1>2. \A i \in DOMAIN wire' : i \in DOMAIN wire \/ i = Len(wire) + 1
  BY <1>1
<1>3. \A i \in DOMAIN wire : i \in DOMAIN wire' /\ wire'[i] = wire[i]
  BY <1>1
<1> QED BY <1>1, <1>2, <1>3 DEF LastUnderWay, NoneUnderWay

\* What the head says of the status is shown.
LEMMA StatusReceived ==
  ASSUME wire \in Seq(Message), wire # <<>>, wire' = Tail(wire), UNCHANGED account,
         LastUnderWay, NoneUnderWay,
         liveStatus' = IF "status" \in DOMAIN Head(wire).news THEN Head(wire).news["status"] ELSE liveStatus
  PROVE  LastUnderWay' /\ NoneUnderWay'
<1>1. /\ 1 \in DOMAIN wire /\ wire[1] = Head(wire) /\ DOMAIN wire \subseteq Nat /\ DOMAIN wire' \subseteq Nat
      /\ \A i \in DOMAIN wire' : i + 1 \in DOMAIN wire /\ i + 1 > 1 /\ wire'[i] = wire[i + 1]
      /\ \A i \in DOMAIN wire : i # 1 => \E j \in DOMAIN wire' : i = j + 1 /\ wire'[j] = wire[i]
  BY WireShrinks
<1>2. LastUnderWay'
  <2> SUFFICES ASSUME NEW i \in DOMAIN wire', "status" \in DOMAIN wire'[i].news,
                      \A j \in DOMAIN wire' : j > i => "status" \notin DOMAIN wire'[j].news
               PROVE  wire'[i].news["status"] = account'["status"]
    BY DEF LastUnderWay
  <2>1. i + 1 \in DOMAIN wire /\ wire'[i] = wire[i + 1]
    BY <1>1
  <2>2. ASSUME NEW j \in DOMAIN wire, j > i + 1 PROVE "status" \notin DOMAIN wire[j].news
    <3>1. j # 1
      BY <1>1, <2>2
    <3>2. PICK k \in DOMAIN wire' : j = k + 1 /\ wire'[k] = wire[j]
      BY <1>1, <3>1
    <3>3. k > i
      BY <1>1, <2>2, <3>2
    <3> QED BY <3>2, <3>3
  <2> QED BY <2>1, <2>2 DEF LastUnderWay
<1>3. NoneUnderWay'
  <2> SUFFICES ASSUME \A i \in DOMAIN wire' : "status" \notin DOMAIN wire'[i].news
               PROVE  liveStatus' = account["status"]
    BY DEF NoneUnderWay
  <2>1. \A i \in DOMAIN wire : i # 1 => "status" \notin DOMAIN wire[i].news
    BY <1>1
  <2>2. CASE "status" \in DOMAIN Head(wire).news
    <3>1. \A j \in DOMAIN wire : j > 1 => "status" \notin DOMAIN wire[j].news
      BY <1>1, <2>1
    <3> QED BY <1>1, <2>2, <3>1 DEF LastUnderWay
  <2>3. CASE "status" \notin DOMAIN Head(wire).news
    BY <1>1, <2>1, <2>3 DEF NoneUnderWay
  <2> QED BY <2>2, <2>3
<1> QED BY <1>2, <1>3

LEMMA StatusFollowsStep ==
  ASSUME DashTypes, DashTypes', NoneAhead, Channel, StatusFollows, [DashNext]_dashVars
  PROVE  StatusFollows'
<1>0. StatusFollows <=> (cable = "up" /\ "status" \notin gathered => LastUnderWay /\ NoneUnderWay)
  BY DEF StatusFollows, LastUnderWay, NoneUnderWay
<1>a. StatusFollows' <=> (cable' = "up" /\ "status" \notin gathered' => LastUnderWay' /\ NoneUnderWay')
  BY DEF StatusFollows, LastUnderWay, NoneUnderWay
<1>b. wire \in Seq(Message)
  BY DEF DashTypes
<1>1. CASE StatusNews
  BY <1>1, <1>a DEF StatusNews, Hears
<1>2. ASSUME account'["status"] = account["status"], gathered \subseteq gathered',
             UNCHANGED <<cable, wire, liveStatus>>
      PROVE  StatusFollows'
  BY <1>0, <1>a, <1>2 DEF LastUnderWay, NoneUnderWay
<1>3. ASSUME NEW kind \in {"image", "sale"}, RowNews(kind) PROVE StatusFollows'
  <2>1. account'["status"] = account["status"]
    BY <1>3, AccountChanges DEF RowNews, Kinds
  <2> QED BY <1>2, <1>3, <2>1 DEF RowNews, card
<1>4. ASSUME NEW kind \in {"image", "sale"}, RowTold(kind) PROVE StatusFollows'
  BY <1>2, <1>4 DEF RowTold, Hears
<1>5. CASE SendsStatuses
  <2>1. PICK m \in Message : /\ wire' = Append(wire, m) /\ DOMAIN m.news = {"status"}
                             /\ m.news["status"] = account["status"]
    BY <1>5, FirstMessage
  <2>2. account' = account
    BY <1>5 DEF SendsStatuses, backend
  <2> QED BY <1>a, <1>b, <2>1, <2>2, StatusSent
<1>6. CASE FlushNews
  <2>1. PICK m \in Message : /\ wire' = Append(wire, m) /\ DOMAIN m.news = gathered
                             /\ \A k \in gathered : m.news[k] = IF k = "status" THEN account[k] ELSE told[k]
    BY <1>6, BatchMessage
  <2>2. UNCHANGED <<account, liveStatus>> /\ cable = "up"
    BY <1>6 DEF FlushNews, backend, card
  <2>3. CASE "status" \in gathered
    BY <1>a, <1>b, <2>1, <2>2, <2>3, StatusSent
  <2>4. CASE "status" \notin gathered
    BY <1>0, <1>a, <1>b, <2>1, <2>2, <2>4, OtherSent
  <2> QED BY <2>3, <2>4
<1>7. CASE BatchArrives
  <2>1. /\ wire # <<>> /\ wire' = Tail(wire) /\ UNCHANGED <<account, cable, gathered>>
        /\ liveStatus' = IF "status" \in DOMAIN Head(wire).news THEN Head(wire).news["status"] ELSE liveStatus
    BY <1>7 DEF BatchArrives, backend
  <2> QED BY <1>0, <1>a, <1>b, <2>1, StatusReceived
<1>8. CASE StatusesArrive
  <2>1. /\ wire # <<>> /\ wire' = Tail(wire) /\ UNCHANGED <<account, cable, gathered>>
        /\ liveStatus' = Head(wire).news["status"]
    BY <1>8 DEF StatusesArrive, backend
  <2>2. "status" \in DOMAIN Head(wire).news
    BY <1>8, FirstNews
  <2> QED BY <1>0, <1>a, <1>b, <2>1, <2>2, StatusReceived
<1>9. CASE SocketCloses \/ SocketConnects
  BY <1>9, <1>a DEF SocketCloses, SocketConnects
<1>10. CASE UploadDone
  <2>1. account'["status"] = account["status"]
    BY <1>10, AccountChanges DEF UploadDone, Kinds
  <2> QED BY <1>2, <1>10, <2>1 DEF UploadDone, card
<1>11. CASE UNCHANGED <<account, cable, gathered, wire, liveStatus>>
  BY <1>2, <1>11
<1> QED
  BY <1>1, <1>3, <1>4, <1>5, <1>6, <1>7, <1>8, <1>9, <1>10, <1>11
     DEF DashNext, dashVars, backend, card, ListIsRead, ListArrives, ListFails, AsksRemoval, RemovalDone,
         RemovalAnswered, RemovalFails, AsksUpload, UploadAnswered, UploadFails

LEMMA NoneGoneStep ==
  ASSUME DashTypes, DashTypes', NoneAhead, NoneGone, [DashNext]_dashVars
  PROVE  NoneGone'
<1> SUFFICES ASSUME present'
             PROVE  list' # Absent /\ \A l \in Lists : readings'[l].at = "answered" => readings'[l].row # Absent
  BY DEF NoneGone
<1>1. present
  BY DEF DashNext, dashVars, backend, StatusNews, RowNews, RowTold, SendsStatuses, FlushNews, ListIsRead,
         ListArrives, ListFails, BatchArrives, StatusesArrive, SocketCloses, SocketConnects, AsksRemoval,
         RemovalDone, RemovalAnswered, RemovalFails, AsksUpload, UploadDone, UploadAnswered, UploadFails
<1>2. list # Absent /\ \A l \in Lists : readings[l].at = "answered" => readings[l].row # Absent
  BY <1>1 DEF NoneGone
<1>3. \A l \in Lists : readings'[l].at = "answered" => readings'[l].row # Absent
  <2>1. ASSUME NEW l \in Lists, NEW r \in {Free, ListAsked}, Forgotten(l, r)
        PROVE  \A m \in Lists : readings'[m].at = "answered" => readings'[m].row # Absent
    BY <1>2, <2>1, ReadingsElsewhere, ForgottenFields DEF Forgotten
  <2>2. ASSUME NEW l \in Lists, ListIsRead(l)
        PROVE  \A m \in Lists : readings'[m].at = "answered" => readings'[m].row # Absent
    <3>1. readings' = [readings EXCEPT ![l] = Reply(readingsMade + 1)]
      BY <2>2, ReadingTyped
    <3>2. Reply(readingsMade + 1).row # Absent
      BY <1>1, ReplyFields, DashBounds
    <3> QED BY <1>2, <3>1, <3>2, ReadingsElsewhere
  <2> QED BY <1>2, <2>1, <2>2, ReadingSteps
<1>4. list' # Absent
  <2>1. CASE BatchArrives
    <3>1. BatchEffect(Head(wire).news)
      BY <2>1, BatchDoes
    <3> QED BY <1>2, <3>1, DashBounds DEF BatchEffect
  <2>2. ASSUME NEW l \in Lists, ListArrives(l) PROVE list' # Absent
    <3>1. readings[l].row \in Row /\ list' = WithLiveSale(readings[l].row)
      BY <1>2, <2>2, DashParts, ReadingFields DEF ListArrives
    <3> QED BY <3>1, WithLiveSaleTyped, DashBounds
  <2>3. CASE UploadAnswered
    <3>1. list' = list \/ (list \in Row /\ list' = [list EXCEPT !.image = upload] /\ upload \in 0..MaxNews)
      <4>1. upload \in 0..MaxNews
        BY <2>3, DashParts, DashNumbers, DashBounds DEF UploadAnswered
      <4> QED BY <2>3, <4>1, DashParts DEF UploadAnswered, UpdateImage
    <3>2. ASSUME list \in Row, upload \in 0..MaxNews PROVE [list EXCEPT !.image = upload] \in Row
      BY <3>2, RowWith
    <3> QED BY <1>2, <3>1, <3>2, DashBounds
  <2>4. CASE list' = list
    BY <1>2, <2>4
  <2> QED
    BY <2>1, <2>2, <2>3, <2>4
       DEF DashNext, dashVars, card, StatusNews, RowNews, RowTold, SendsStatuses, FlushNews, ListIsRead,
           ListFails, StatusesArrive, SocketCloses, SocketConnects, AsksRemoval, RemovalDone,
           RemovalAnswered, RemovalFails, AsksUpload, UploadDone, UploadFails
<1> QED BY <1>3, <1>4

-----------------------------------------------------------------------------
LEMMA ReadingNumbers ==
  ASSUME DashTypes, NEW l \in Lists
  PROVE  /\ readings[l].n \in Nat /\ readings[l].row \in Row \union {Absent}
         /\ readings[l].row # Absent => readings[l].row \in Row /\ readings[l].row.sale \in Nat
                                        /\ readings[l].row.image \in Nat
BY DashParts, ReadingFields, RowFields

LEMMA ReadingsInOrderStep ==
  ASSUME DashTypes, NoneAhead, ReadingsInOrder, [DashNext]_dashVars
  PROVE  ReadingsInOrder'
<1>1. ASSUME NEW l \in Lists, NEW r \in {Free, ListAsked}, Forgotten(l, r) PROVE ReadingsInOrder'
  BY <1>1, ReadingsElsewhere, ForgottenFields DEF Forgotten, ReadingsInOrder
<1>2. ASSUME NEW l \in Lists, ListIsRead(l) PROVE ReadingsInOrder'
  <2> DEFINE a == Reply(readingsMade + 1)
  <2>1. readings'[l] = a /\ \A m \in Lists : m # l => readings'[m] = readings[m]
    BY <1>2, ReadingTyped, ReadingsElsewhere
  <2>2. a.n = readingsMade + 1 /\ a.row # Absent => a.row.sale = account["sale"]
    BY ReplyFields
  <2>3. a.n = readingsMade + 1
    BY ReplyFields
  <2>4. readingsMade \in Nat /\ account["sale"] \in Nat
    BY DashNumbers
  <2> HIDE DEF a
  <2>5. ASSUME NEW m \in Lists, m # l
        PROVE  ~(a.n <= readings[m].n)
    <3>1. readings[m].n \in Nat /\ readings[m].n <= readingsMade
      BY ReadingNumbers DEF NoneAhead, NumbersBehind
    <3> QED BY <2>3, <2>4, <3>1
  <2>6. ASSUME NEW m \in Lists, readings[m].row # Absent, a.row # Absent
        PROVE  readings[m].row.sale <= a.row.sale
    BY <2>2, <2>3, <2>6 DEF NoneAhead, ReadingsBehind
  <2>7. a.row # Absent => a.row.sale <= a.row.sale
    BY <2>2, <2>3, <2>4
  <2> QED BY <2>1, <2>5, <2>6, <2>7 DEF ReadingsInOrder
<1>3. CASE readings' = readings
  BY <1>3 DEF ReadingsInOrder
<1> QED BY <1>1, <1>2, <1>3, ReadingSteps

\* What a step of the page does to the list and the last sale.
LEMMA ListSteps ==
  ASSUME DashTypes, [DashNext]_dashVars
  PROVE  \/ BatchArrives
         \/ \E l \in Lists : ListArrives(l)
         \/ /\ UNCHANGED <<lastSale, seen, newest>>
            /\ list' \in Row <=> list \in Row
            /\ list \in Row => list'.sale = list.sale
            /\ list \notin Row => list' = list
<1>1. CASE UploadAnswered
  <2>1. upload \in 0..MaxNews
    BY <1>1, DashParts, DashNumbers, DashBounds DEF UploadAnswered
  <2>2. list' = IF list \in {Unloaded, Absent} THEN list ELSE [list EXCEPT !.image = upload]
    BY <1>1 DEF UploadAnswered, UpdateImage
  <2>3. UNCHANGED <<lastSale, seen, newest>>
    BY <1>1 DEF UploadAnswered
  <2>4. CASE list \in Row
    <3>1. list' = [list EXCEPT !.image = upload]
      BY <2>2, <2>4, DashBounds
    <3> QED BY <2>1, <2>3, <2>4, <3>1, RowWith
  <2>5. CASE list \notin Row
    BY <2>2, <2>3, <2>5, DashParts
  <2> QED BY <2>4, <2>5
<1>2. CASE UNCHANGED <<list, lastSale, seen, newest>>
  BY <1>2
<1> QED
  BY <1>1, <1>2
     DEF DashNext, dashVars, card, StatusNews, RowNews, RowTold, SendsStatuses, FlushNews, ListIsRead,
         ListFails, StatusesArrive, SocketCloses, SocketConnects, AsksRemoval, RemovalDone,
         RemovalAnswered, RemovalFails, AsksUpload, UploadDone, UploadFails

\* The readings as a step that shows no list leaves them.
LEMMA ListInOrderStep ==
  ASSUME DashTypes, DashTypes', NoneAhead, SalesInOrder, [DashNext]_dashVars
  PROVE  ListInOrder'
<1>1. /\ lastSale \in Nat /\ seen \in Nat /\ account["sale"] \in Nat
      /\ list \in Row => list.sale \in Nat /\ list.sale <= account["sale"]
  BY DashNumbers, RowFields DEF NoneAhead, ListBehind
<1>2. CASE BatchArrives
  <2>1. /\ BatchEffect(Head(wire).news) /\ wire # <<>>
        /\ UNCHANGED <<seen, readings>>
    BY <1>2, BatchDoes DEF BatchArrives, requests
  <2> SUFFICES ASSUME list' \in Row, NEW l \in Lists, readings[l].at = "answered", readings[l].n >= seen,
                      readings[l].row # Absent
               PROVE  list'.sale <= Larger(lastSale', readings[l].row.sale)
    BY <2>1 DEF ListInOrder
  <2> DEFINE s == readings[l].row.sale
             v == Head(wire).news["sale"]
  <2>2. list \in Row
    BY <2>1 DEF BatchEffect
  <2>3. s \in Nat
    BY ReadingNumbers
  <2>4. list.sale <= Larger(lastSale, s)
    BY <2>2 DEF SalesInOrder, ListInOrder
  <2>5. CASE "sale" \in DOMAIN Head(wire).news
    <3>1. v \in Nat
      BY <2>1, <2>5, BatchTold
    <3>2. list'.sale \in {list.sale, v} /\ lastSale' = Larger(lastSale, v)
      BY <2>1, <2>2, <2>5 DEF BatchEffect
    <3>3. list.sale \in Nat
      BY <1>1, <2>2
    <3> HIDE DEF s, v
    <3>4. list'.sale <= Larger(lastSale', s)
      BY <1>1, <2>3, <2>4, <3>1, <3>2, <3>3 DEF Larger
    <3> QED BY <3>4 DEF s
  <2>6. CASE "sale" \notin DOMAIN Head(wire).news
    <3>1. list'.sale = list.sale /\ lastSale' = lastSale
      BY <2>1, <2>2, <2>6 DEF BatchEffect
    <3> QED BY <2>4, <3>1
  <2> QED BY <2>5, <2>6
<1>3. ASSUME NEW l \in Lists, ListArrives(l) PROVE ListInOrder'
  <2>1. /\ list' = WithLiveSale(readings[l].row) /\ seen' = readings[l].n /\ lastSale' = lastSale
        /\ readings' = [readings EXCEPT ![l] = Free] /\ readings[l].at = "answered"
    BY <1>3 DEF ListArrives
  <2>2. readings'[l] = Free /\ \A m \in Lists : m # l => readings'[m] = readings[m]
    BY <2>1, ReadingsElsewhere
  <2> SUFFICES ASSUME list' \in Row, NEW m \in Lists, readings'[m].at = "answered", readings'[m].n >= readings[l].n,
                      readings'[m].row # Absent
               PROVE  list'.sale <= Larger(lastSale, readings'[m].row.sale)
    BY <2>1 DEF ListInOrder
  <2>3. readings'[m] = readings[m]
    BY <2>2, ForgottenFields
  <2>4. readings[l].row # Absent
    BY <2>1, NoLiveSale, DashBounds
  <2>5. /\ readings[l].row \in Row /\ readings[l].row.sale \in Nat /\ readings[m].row.sale \in Nat
        /\ readings[l].n \in Nat /\ readings[m].n \in Nat
    BY <2>3, <2>4, ReadingNumbers
  <2>6. list'.sale = Larger(readings[l].row.sale, lastSale)
    BY <2>1, <2>5, WithLiveSaleTyped
  <2>7. readings[l].n <= readings[m].n
    BY <2>3, <2>5
  <2>8. readings[l].row.sale <= readings[m].row.sale
    BY <2>1, <2>3, <2>4, <2>7 DEF SalesInOrder, ReadingsInOrder
  <2>9. Larger(readings[l].row.sale, lastSale) <= Larger(lastSale, readings[m].row.sale)
    BY <1>1, <2>5, <2>8 DEF Larger
  <2> QED BY <2>3, <2>6, <2>9
<1>4. ASSUME UNCHANGED <<lastSale, seen>>, list' \in Row <=> list \in Row, list \in Row => list'.sale = list.sale
      PROVE  ListInOrder'
  <2>1. ASSUME NEW l \in Lists, NEW r \in {Free, ListAsked}, Forgotten(l, r) PROVE ListInOrder'
    BY <1>4, <2>1, ReadingsElsewhere, ForgottenFields DEF Forgotten, SalesInOrder, ListInOrder
  <2>2. ASSUME NEW l \in Lists, ListIsRead(l) PROVE ListInOrder'
    <3>1. readings'[l] = Reply(readingsMade + 1) /\ \A m \in Lists : m # l => readings'[m] = readings[m]
      BY <2>2, ReadingTyped, ReadingsElsewhere
    <3>2. Reply(readingsMade + 1).row # Absent => Reply(readingsMade + 1).row.sale = account["sale"]
      BY ReplyFields
    <3>3. list \in Row => list.sale <= Larger(lastSale, account["sale"])
      BY <1>1 DEF Larger
    <3> QED BY <1>4, <3>1, <3>2, <3>3 DEF SalesInOrder, ListInOrder
  <2>3. CASE readings' = readings
    BY <1>4, <2>3 DEF SalesInOrder, ListInOrder
  <2> QED BY <2>1, <2>2, <2>3, ReadingSteps
<1> QED BY <1>2, <1>3, <1>4, ListSteps

\* A sale shown is never replaced by an older one, but by a list that was
\* overtaken.
LEMMA SaleStays ==
  ASSUME DashTypes, NoneAhead, SalesInOrder, [DashNext]_dashVars,
         list \in Row, list' \in Row, seen' = newest'
  PROVE  list'.sale >= list.sale
<1>1. list.sale \in Nat /\ lastSale \in Nat /\ seen \in Nat /\ newest \in Nat
  BY DashNumbers, RowFields
<1>2. CASE BatchArrives
  BY <1>2, BatchDoes DEF BatchEffect
<1>3. ASSUME NEW l \in Lists, ListArrives(l) PROVE list'.sale >= list.sale
  <2>1. /\ list' = WithLiveSale(readings[l].row) /\ seen' = readings[l].n
        /\ newest' = Larger(newest, readings[l].n) /\ readings[l].at = "answered"
    BY <1>3 DEF ListArrives
  <2>2. readings[l].row # Absent
    BY <2>1, NoLiveSale, DashBounds
  <2>3. readings[l].row \in Row /\ readings[l].row.sale \in Nat /\ readings[l].n \in Nat
    BY <2>2, ReadingNumbers
  <2>4. list'.sale = Larger(readings[l].row.sale, lastSale)
    BY <2>1, <2>3, WithLiveSaleTyped
  <2>5. readings[l].n >= seen
    <3>1. seen <= newest
      BY DEF NoneAhead, NumbersBehind
    <3>2. readings[l].n = Larger(newest, readings[l].n)
      BY <2>1
    <3>3. Larger(newest, readings[l].n) >= newest
      <4>1. newest \in Int /\ readings[l].n \in Int
        BY <1>1, <2>3
      <4> QED BY <4>1, LargerOf
    <3> QED BY <1>1, <2>3, <3>1, <3>2, <3>3
  <2>6. list.sale <= Larger(lastSale, readings[l].row.sale)
    BY <2>1, <2>2, <2>5 DEF SalesInOrder, ListInOrder
  <2> QED BY <1>1, <2>3, <2>4, <2>6 DEF Larger
<1>4. CASE list'.sale = list.sale
  BY <1>1, <1>4
<1> QED BY <1>2, <1>3, <1>4, ListSteps

-----------------------------------------------------------------------------
LEMMA ReadingActions ==
  ASSUME [DashNext]_dashVars
  PROVE  \/ readings' = readings
         \/ Load
         \/ \E l \in Lists : ListIsRead(l) \/ ListArrives(l) \/ ListFails(l)
BY DEF DashNext, dashVars, requests, StatusNews, RowNews, RowTold, SendsStatuses, FlushNews,
       BatchArrives, StatusesArrive, SocketCloses, SocketConnects, AsksRemoval, RemovalDone,
       RemovalAnswered, RemovalFails, AsksUpload, UploadDone, UploadAnswered, UploadFails

\* A reading on which the page comes to rest after a step it could come to rest
\* on before; the step asks for no list, reads none and excuses nothing.
LEMMA FinalBefore ==
  ASSUME DashTypes, DashTypes', NoneAhead, [DashNext]_dashVars,
         NEW n \in Nat, n <= readingsMade, Final(n)'
  PROVE  Final(n) /\ needs' < readingsMade /\ ~Load /\ ~(\E l \in Lists : ListIsRead(l))
<1>1. /\ readingsMade \in Nat /\ needs \in Int /\ newest \in Nat
  BY DashNumbers
<1>2. needs' \in Int /\ newest' \in Nat
  <2>1. needs' \in -1..MaxReadings /\ newest' \in 0..MaxReadings
    BY DEF DashTypes, DashTypeOK
  <2> QED BY <2>1, DashBounds
<1>3. n > needs' /\ newest' <= n /\ ~Later(n)'
  BY DEF Final
<1>4. needs' < readingsMade
  BY <1>1, <1>2, <1>3
<1>5. needs' = needs
  <2>1. needs' \in {needs, readingsMade}
    BY DEF DashNext, dashVars, card, Hears, StatusNews, RowNews, RowTold, SendsStatuses, FlushNews,
           ListIsRead, ListArrives, ListFails, BatchArrives, StatusesArrive, SocketCloses, SocketConnects,
           AsksRemoval, RemovalDone, RemovalAnswered, RemovalFails, AsksUpload, UploadDone, UploadAnswered,
           UploadFails
  <2> QED BY <1>1, <1>4, <2>1
<1>6. ~Load
  <2> SUFFICES ASSUME Load PROVE FALSE
    OBVIOUS
  <2>1. PICK l \in Lists : readings' = [readings EXCEPT ![l] = ListAsked]
    BY DEF Load
  <2>2. readings'[l].at = "asked"
    BY <2>1, ReadingsElsewhere, ForgottenFields
  <2> QED BY <1>3, <2>2 DEF Later
<1>7. ASSUME NEW l \in Lists, ListIsRead(l) PROVE FALSE
  <2>1. readings'[l] = Reply(readingsMade + 1)
    BY <1>7, ReadingTyped, ReadingsElsewhere
  <2>2. readings'[l].at = "answered" /\ readings'[l].n = readingsMade + 1
    BY <2>1, ReplyFields
  <2>3. readingsMade + 1 > n
    BY <1>1
  <2> QED BY <1>3, <2>2, <2>3 DEF Later
<1>8. newest <= n
  <2>1. ASSUME NEW l \in Lists, ListArrives(l) PROVE newest <= n
    <3>1. newest' = Larger(newest, readings[l].n) /\ readings[l].n \in Nat
      BY <2>1, ReadingNumbers DEF ListArrives
    <3>2. newest <= newest'
      BY <1>1, <3>1 DEF Larger
    <3> QED BY <1>1, <1>2, <1>3, <3>2
  <2>2. CASE newest' = newest
    BY <1>3, <2>2
  <2> QED BY <2>1, <2>2, ListSteps DEF BatchArrives
<1>9. ~Later(n)
  <2> SUFFICES ASSUME NEW l \in Lists,
                      readings[l].at = "asked" \/ (readings[l].at = "answered" /\ readings[l].n > n)
               PROVE  FALSE
    BY DEF Later
  <2>1. readings'[l] # readings[l]
    BY <1>3 DEF Later
  <2>2. ASSUME NEW m \in Lists, ListFails(m) PROVE FALSE
    BY <1>1, <1>4, <2>2 DEF ListFails
  <2>3. ASSUME NEW m \in Lists, ListArrives(m) PROVE FALSE
    <3>1. m = l
      BY <2>1, <2>3, ReadingsElsewhere DEF ListArrives
    <3>2. newest' = Larger(newest, readings[l].n) /\ readings[l].at = "answered"
      BY <2>3, <3>1 DEF ListArrives
    <3>3. readings[l].n > n /\ readings[l].n \in Nat
      BY <3>2, ReadingNumbers
    <3>4. newest' > n
      BY <1>1, <3>2, <3>3 DEF Larger
    <3> QED BY <1>2, <1>3, <3>4
  <2> QED BY <1>6, <1>7, <2>1, <2>2, <2>3, ReadingActions
<1>10. Final(n)
  BY <1>3, <1>5, <1>8, <1>9 DEF Final
<1> QED BY <1>4, <1>6, <1>7, <1>10

LEMMA GoneStays ==
  ASSUME DashTypes, [DashNext]_dashVars, ~Load, needs' # readingsMade,
         NEW r, NEW q, GoneKnown(r), r = Absent => q = Absent
  PROVE  GoneKnown(q)'
<1>1. CASE RemovalDone
  BY <1>1 DEF RemovalDone, GoneKnown
<1>2. CASE AsksRemoval
  BY <1>2 DEF AsksRemoval, GoneKnown, backend
<1>3. CASE RemovalAnswered \/ RemovalFails
  BY <1>3 DEF RemovalAnswered, RemovalFails
<1>4. CASE UNCHANGED <<present, removal>>
  BY <1>4 DEF GoneKnown
<1> QED
  BY <1>1, <1>2, <1>3, <1>4
     DEF DashNext, dashVars, backend, requests, StatusNews, RowNews, RowTold, SendsStatuses, FlushNews,
         ListIsRead, ListArrives, ListFails, BatchArrives, StatusesArrive, SocketCloses, SocketConnects,
         AsksUpload, UploadDone, UploadAnswered, UploadFails

\* Of the news of one kind.
Kind == {"image", "sale"}

LEMMA ComesTyped ==
  ASSUME DashTypes, NEW k \in Kind
  PROVE  /\ told[k] \in Nat
         /\ \A m \in Carried : k \in DOMAIN m.news => m.news[k] \in Nat
BY DashParts, RowFields, NewsValue DEF Kind

\* What does not tell, gather, send or lose news lets them come.
LEMMA ComesUnmoved ==
  ASSUME DashTypes, NEW k \in Kind, NEW v \in Nat, NEW w \in Nat, v <= w, Comes(k, v),
         told'[k] = told[k], gathered \subseteq gathered', Carried \subseteq Carried'
  PROVE  Comes(k, w)'
<1>1. told[k] \in Nat
  BY ComesTyped
<1>2. CASE v >= told[k]
  <2>1. w >= told'[k]
    BY <1>1, <1>2
  <2> QED BY <2>1 DEF Comes
<1>3. CASE k \in gathered
  BY <1>3 DEF Comes
<1>4. ASSUME NEW m \in Carried, k \in DOMAIN m.news, m.news[k] >= told[k] PROVE Comes(k, w)'
  <2>1. m \in Carried' /\ m.news[k] >= told'[k]
    BY <1>4
  <2> QED BY <1>4, <2>1 DEF Comes
<1> QED BY <1>2, <1>3, <1>4 DEF Comes

LEMMA ListeningBefore ==
  ASSUME DashTypes, [DashNext]_dashVars, ~Load, Listening'
  PROVE  Listening
<1>1. cable' # "ended" /\ ~ReloadDue'
  BY DEF Listening
<1>2. cable # "ended"
  BY <1>1
     DEF DashNext, dashVars, StatusNews, RowNews, RowTold, SendsStatuses, FlushNews, ListIsRead,
         ListArrives, ListFails, BatchArrives, StatusesArrive, SocketCloses, SocketConnects, AsksRemoval,
         RemovalDone, RemovalAnswered, RemovalFails, AsksUpload, UploadDone, UploadAnswered, UploadFails
<1>3. wire \in Seq(Message)
  BY DEF DashTypes
<1>4. ~ReloadDue
  <2> SUFFICES ASSUME ReloadDue PROVE FALSE
    OBVIOUS
  <2>1. CASE SendsStatuses
    <3>1. PICK m \in Message : wire' = Append(wire, m) /\ m.first
      BY <2>1, FirstMessage
    <3>2. m \in Carried' /\ initial' = initial
      BY <1>3, <2>1, <3>1, WireGrows DEF SendsStatuses, card
    <3> QED BY <1>1, <3>1, <3>2 DEF ReloadDue
  <2>2. CASE FlushNews
    <3>1. PICK m \in Message : wire' = Append(wire, m)
      BY <2>2, BatchMessage
    <3>2. Carried \subseteq Carried' /\ initial' = initial /\ cable' = cable
      BY <1>3, <2>2, <3>1, WireGrows DEF FlushNews, card
    <3> QED BY <1>1, <3>2 DEF ReloadDue
  <2>3. CASE BatchArrives
    <3>1. Carried \subseteq Carried' \union {Head(wire)} /\ ~Head(wire).first
      BY <1>3, <2>3, WireShrinks DEF BatchArrives
    <3>2. initial' = initial /\ cable' = cable
      BY <2>3 DEF BatchArrives
    <3> QED BY <1>1, <3>1, <3>2 DEF ReloadDue
  <2>4. CASE StatusesArrive
    BY <2>4 DEF StatusesArrive, ReloadDue
  <2>5. CASE SocketCloses \/ SocketConnects
    BY <1>1, <2>5 DEF SocketCloses, SocketConnects, card, ReloadDue
  <2>6. CASE UNCHANGED <<wire, initial, cable>>
    BY <1>1, <2>6 DEF ReloadDue, Carried
  <2> QED
    BY <2>1, <2>2, <2>3, <2>4, <2>5, <2>6
       DEF DashNext, dashVars, card, StatusNews, RowNews, RowTold, ListIsRead, ListArrives, ListFails,
           AsksRemoval, RemovalDone, RemovalAnswered, RemovalFails, AsksUpload, UploadDone,
           UploadAnswered, UploadFails
<1> QED BY <1>2, <1>4 DEF Listening

\* A listener's news escape only a page that excuses it or reloads.
LEMMA HeardOrExcused ==
  ASSUME DashTypes, NEW kind, Hears(kind), UNCHANGED <<cable, initial>>, Listening, needs' # readingsMade
  PROVE  gathered' = gathered \union {kind}
<1>1. cable \in {"joining", "up"}
  BY DEF Hears, Listening, ReloadDue, DashTypes, DashTypeOK
<1> QED BY <1>1 DEF Hears

LEMMA ComesStays ==
  ASSUME DashTypes, DashTypes', NoneAhead, Channel, [DashNext]_dashVars,
         Listening, Listening', ~Load, needs' # readingsMade,
         NEW k \in Kind, NEW v \in Nat, NEW w \in Nat, v <= w, Comes(k, v),
         k = "sale" => w >= lastSale', k = "image" => w >= given'
  PROVE  Comes(k, w)'
<1>0. wire \in Seq(Message) /\ k # "status" /\ told[k] \in Nat
  BY ComesTyped DEF DashTypes, Kind
<1>1. CASE StatusNews
  BY <1>1, ComesUnmoved DEF StatusNews, Hears, Carried
<1>2. ASSUME NEW kind \in Kind, RowTold(kind) PROVE Comes(k, w)'
  <2>1. gathered' = gathered \union {kind}
    BY <1>2, HeardOrExcused DEF RowTold
  <2>2. CASE k = kind
    BY <2>1, <2>2 DEF Comes
  <2>3. CASE k # kind
    <3>1. told'[k] = told[k]
      BY <1>2, <2>3, ToldChanges DEF Kind
    <3>2. Carried' = Carried
      BY <1>2 DEF RowTold, Carried
    <3> QED BY <2>1, <3>1, <3>2, ComesUnmoved
  <2> QED BY <2>2, <2>3
<1>3. CASE SendsStatuses
  <2>1. PICK m \in Message : wire' = Append(wire, m)
    BY <1>3, FirstMessage
  <2>2. Carried \subseteq Carried' /\ UNCHANGED <<told, gathered>>
    BY <1>0, <1>3, <2>1, WireGrows DEF SendsStatuses, backend
  <2> QED BY <2>2, ComesUnmoved
<1>4. CASE FlushNews
  <2>1. PICK m \in Message : /\ wire' = Append(wire, m) /\ DOMAIN m.news = gathered
                             /\ \A j \in gathered : m.news[j] = IF j = "status" THEN account[j] ELSE told[j]
    BY <1>4, BatchMessage
  <2>2. Carried' = Carried \union {m} /\ told' = told
    BY <1>0, <1>4, <2>1, WireGrows DEF FlushNews, backend
  <2>3. CASE k \in gathered
    <3>1. m.news[k] = told[k] /\ told'[k] = told[k]
      BY <1>0, <2>1, <2>2, <2>3
    <3>2. m.news[k] >= told'[k]
      BY <1>0, <3>1
    <3> QED BY <2>1, <2>2, <2>3, <3>2 DEF Comes
  <2>4. CASE k \notin gathered
    <3>1. CASE v >= told[k]
      <4>1. w >= told'[k]
        BY <1>0, <2>2, <3>1
      <4> QED BY <4>1 DEF Comes
    <3>2. ASSUME NEW x \in Carried, k \in DOMAIN x.news, x.news[k] >= told[k] PROVE Comes(k, w)'
      BY <2>2, <3>2 DEF Comes
    <3> QED BY <2>4, <3>1, <3>2 DEF Comes
  <2> QED BY <2>3, <2>4
<1>5. CASE BatchArrives \/ StatusesArrive
  <2>1. /\ wire # <<>> /\ wire' = Tail(wire) /\ UNCHANGED <<told, gathered>>
    BY <1>5 DEF BatchArrives, StatusesArrive, backend
  <2>2. Carried \subseteq Carried' \union {Head(wire)} /\ Head(wire) \in Carried
    BY <1>0, <2>1, WireShrinks
  <2>3. CASE v >= told[k]
    <3>1. w >= told'[k]
      BY <1>0, <2>1, <2>3
    <3> QED BY <3>1 DEF Comes
  <2>4. CASE k \in gathered
    BY <2>1, <2>4 DEF Comes
  <2>5. ASSUME NEW m \in Carried, k \in DOMAIN m.news, m.news[k] >= told[k] PROVE Comes(k, w)'
    <3>1. CASE m \in Carried'
      BY <2>1, <2>5, <3>1 DEF Comes
    <3>2. CASE m = Head(wire)
      <4>1. BatchArrives
        BY <1>0, <1>5, <2>5, <3>2, FirstNews
      <4>2. BatchEffect(Head(wire).news)
        BY <4>1, BatchDoes
      <4>3. m.news[k] \in Nat /\ lastSale \in Nat /\ given \in Nat
        BY <2>5, ComesTyped, DashNumbers
      <4>4. CASE k = "sale"
        <5>1. lastSale' = Larger(lastSale, m.news[k])
          BY <2>5, <3>2, <4>2, <4>4 DEF BatchEffect
        <5>2. w >= lastSale'
          BY <4>4
        <5>3. w >= told'[k]
          BY <1>0, <2>1, <2>5, <4>3, <5>1, <5>2 DEF Larger
        <5> QED BY <5>3 DEF Comes
      <4>5. CASE k = "image"
        <5>1. given' = Larger(given, m.news[k])
          BY <2>5, <3>2, <4>2, <4>5 DEF BatchEffect
        <5>2. w >= given'
          BY <4>5
        <5>3. w >= told'[k]
          BY <1>0, <2>1, <2>5, <4>3, <5>1, <5>2 DEF Larger
        <5> QED BY <5>3 DEF Comes
      <4> QED BY <4>4, <4>5 DEF Kind
    <3> QED BY <2>2, <3>1, <3>2
  <2> QED BY <2>3, <2>4, <2>5 DEF Comes
<1>6. CASE SocketCloses
  BY <1>6 DEF SocketCloses, Listening, ReloadDue
<1>7. CASE UNCHANGED <<told, gathered, wire>>
  BY <1>7, ComesUnmoved DEF Carried
<1> QED
  BY <1>1, <1>2, <1>3, <1>4, <1>5, <1>6, <1>7
     DEF DashNext, dashVars, backend, Kind, RowNews, ListIsRead, ListArrives, ListFails, SocketConnects,
         AsksRemoval, RemovalDone, RemovalAnswered, RemovalFails, AsksUpload, UploadDone,
         UploadAnswered, UploadFails

\* A reading that suffices still does, with what the page makes of it.
LEMMA SufficesStays ==
  ASSUME DashTypes, DashTypes', NoneAhead, Channel, [DashNext]_dashVars,
         NEW n \in Nat, n <= readingsMade,
         NEW r \in Row \union {Absent}, NEW q \in Row \union {Absent}, r = Absent => q = Absent,
         r \in Row /\ q \in Row =>
           /\ Larger(r.sale, lastSale) <= Larger(q.sale, lastSale')
           /\ Larger(r.image, given) <= Larger(q.image, given'),
         Suffices(n, r)
  PROVE  Suffices(n, q)'
<1> SUFFICES ASSUME Final(n)' PROVE GoneKnown(q)' /\ NewsKnown(q)'
  BY DEF Suffices
<1>1. Final(n) /\ needs' < readingsMade /\ ~Load
  BY FinalBefore
<1>2. needs' # readingsMade
  <2>1. readingsMade \in Nat
    BY DashNumbers
  <2> QED BY <1>1, <2>1
<1>3. GoneKnown(r) /\ NewsKnown(r)
  BY <1>1 DEF Suffices
<1>4. GoneKnown(q)'
  BY <1>1, <1>2, <1>3, GoneStays
<1>5. NewsKnown(q)'
  <2> SUFFICES ASSUME q # Absent, Listening'
               PROVE  /\ Comes("sale", Larger(q.sale, lastSale))'
                      /\ Comes("image", Larger(q.image, given))'
    BY DEF NewsKnown
  <2>1. r \in Row /\ q \in Row /\ Listening
    BY <1>1, ListeningBefore
  <2>2. Comes("sale", Larger(r.sale, lastSale)) /\ Comes("image", Larger(r.image, given))
    BY <1>3, <2>1, DashBounds DEF NewsKnown
  <2>3. /\ r.sale \in Nat /\ r.image \in Nat /\ q.sale \in Nat /\ q.image \in Nat
        /\ lastSale \in Nat /\ given \in Nat
    BY <2>1, RowFields, DashNumbers
  <2>4. lastSale' \in Nat /\ given' \in Nat
    <3>1. lastSale' \in 0..MaxNews /\ given' \in 0..MaxNews
      BY DEF DashTypes, DashTypeOK
    <3> QED BY <3>1, DashBounds
  <2>5. PICK v \in Nat : v = Larger(r.sale, lastSale)
    BY <2>3 DEF Larger
  <2>6. PICK w \in Nat : w = Larger(q.sale, lastSale')
    BY <2>3, <2>4 DEF Larger
  <2>7. PICK x \in Nat : x = Larger(r.image, given)
    BY <2>3 DEF Larger
  <2>8. PICK y \in Nat : y = Larger(q.image, given')
    BY <2>3, <2>4 DEF Larger
  <2>9. v <= w /\ x <= y
    BY <2>1, <2>5, <2>6, <2>7, <2>8
  <2>10. w >= lastSale' /\ y >= given'
    BY <2>3, <2>4, <2>6, <2>8 DEF Larger
  <2>11. Comes("sale", w)'
    <3>1. "sale" \in Kind /\ Comes("sale", v)
      BY <2>2, <2>5 DEF Kind
    <3> QED BY <1>1, <1>2, <2>1, <2>9, <2>10, <3>1, ComesStays
  <2>12. Comes("image", y)'
    <3>1. "image" \in Kind /\ Comes("image", x)
      BY <2>2, <2>7 DEF Kind
    <3> QED BY <1>1, <1>2, <2>1, <2>9, <2>10, <3>1, ComesStays
  <2> QED BY <2>6, <2>8, <2>11, <2>12
<1> QED BY <1>4, <1>5

\* The answer of a reading has all there is.
LEMMA ReplySuffices ==
  ASSUME DashTypes, DashTypes', NoneAhead, NEW l \in Lists, ListIsRead(l),
         NEW n, NEW q, n = readingsMade + 1, q = Reply(n).row
  PROVE  Suffices(n, q)'
<1>1. UNCHANGED <<present, removal, told, lastSale, given>>
  BY DEF ListIsRead, backend, card
<1>2. GoneKnown(q)'
  BY <1>1, ReplyFields DEF GoneKnown
<1>3. NewsKnown(q)'
  <2> SUFFICES ASSUME q # Absent
               PROVE  /\ Comes("sale", Larger(q.sale, lastSale))'
                      /\ Comes("image", Larger(q.image, given))'
    BY DEF NewsKnown
  <2>1. q.sale = account["sale"] /\ q.image = account["image"]
    BY ReplyFields
  <2>2. /\ account["sale"] \in Nat /\ account["image"] \in Nat /\ lastSale \in Nat /\ given \in Nat
        /\ told.sale \in Nat /\ told.image \in Nat
    BY DashNumbers
  <2>3. told.sale <= account["sale"] /\ told.image <= account["image"]
    BY DEF NoneAhead, ToldBehind
  <2>4. Larger(q.sale, lastSale) >= told.sale /\ Larger(q.image, given) >= told.image
    BY <2>1, <2>2, <2>3 DEF Larger
  <2>5. told'["sale"] = told.sale /\ told'["image"] = told.image
    BY <1>1, DashParts, RowFields
  <2> QED BY <1>1, <2>4, <2>5 DEF Comes
<1> QED BY <1>2, <1>3 DEF Suffices

\* What the page was told of sales and images only grows.
LEMMA LiveGrows ==
  ASSUME DashTypes, DashTypes', [DashNext]_dashVars
  PROVE  /\ lastSale \in Nat /\ given \in Nat /\ lastSale' \in Nat /\ given' \in Nat
         /\ lastSale <= lastSale' /\ given <= given'
<1>1. lastSale \in Nat /\ given \in Nat
  BY DashNumbers
<1>2. lastSale' \in Nat /\ given' \in Nat
  <2>1. lastSale' \in 0..MaxNews /\ given' \in 0..MaxNews
    BY DEF DashTypes, DashTypeOK
  <2> QED BY <2>1, DashBounds
<1>3. ASSUME NEW a \in Int, NEW b \in Int PROVE Larger(a, b) = a \/ Larger(a, b) > a
  BY <1>3 DEF Larger
<1>4. CASE BatchArrives
  <2>1. /\ lastSale' = IF "sale" \in DOMAIN Head(wire).news THEN Larger(lastSale, Head(wire).news["sale"]) ELSE lastSale
        /\ given' = IF "image" \in DOMAIN Head(wire).news THEN Larger(given, Head(wire).news["image"]) ELSE given
    BY <1>4, BatchDoes DEF BatchEffect
  <2>2. \A k \in DOMAIN Head(wire).news : Head(wire).news[k] \in Int
    BY <1>4, HeadTyped, DashBounds DEF BatchArrives
  <2>3. lastSale' = lastSale \/ lastSale' > lastSale
    BY <1>1, <1>3, <2>1, <2>2
  <2>4. given' = given \/ given' > given
    BY <1>1, <1>3, <2>1, <2>2
  <2> QED BY <1>1, <1>2, <2>3, <2>4
<1>5. ASSUME UNCHANGED lastSale, given' = given \/ \E b \in Int : given' = Larger(given, b)
      PROVE  lastSale <= lastSale' /\ given <= given'
  <2>1. given' = given \/ given' > given
    BY <1>1, <1>3, <1>5
  <2> QED BY <1>1, <1>2, <1>5, <2>1
<1>6. ASSUME NEW l \in Lists, ListArrives(l) PROVE lastSale <= lastSale' /\ given <= given'
  <2>1. readings[l].row # Absent => readings[l].row.image \in Int
    BY ReadingNumbers
  <2> QED BY <1>5, <1>6, <2>1 DEF ListArrives
<1>7. CASE UploadAnswered
  BY <1>1, <1>2, <1>5, <1>7, DashNumbers DEF UploadAnswered, UpdateImage
<1>8. CASE UNCHANGED <<lastSale, given>>
  BY <1>1, <1>2, <1>5, <1>8
<1>9. lastSale <= lastSale' /\ given <= given'
  BY <1>4, <1>6, <1>7, <1>8
     DEF DashNext, dashVars, card, StatusNews, RowNews, RowTold, SendsStatuses, FlushNews, ListIsRead,
         ListFails, StatusesArrive, SocketCloses, SocketConnects, AsksRemoval, RemovalDone,
         RemovalAnswered, RemovalFails, AsksUpload, UploadDone, UploadFails
<1> QED BY <1>1, <1>2, <1>9

LEMMA ReadingsSufficeStep ==
  ASSUME DashTypes, DashTypes', NoneAhead, Channel, AllSuffice, [DashNext]_dashVars,
         NEW l \in Lists, readings'[l].at = "answered"
  PROVE  Suffices(readings[l].n, readings[l].row)'
<1>0. PICK n, q : n = readings'[l].n /\ q = readings'[l].row
  OBVIOUS
<1> SUFFICES Suffices(n, q)'
  BY <1>0 DEF Suffices, Final, Later, GoneKnown, NewsKnown, Comes
<1>1. CASE ListIsRead(l)
  <2>1. readings'[l] = Reply(readingsMade + 1)
    BY <1>1, ReadingTyped, ReadingsElsewhere
  <2>2. n = readingsMade + 1 /\ q = Reply(n).row
    BY <1>0, <2>1, ReplyFields
  <2> QED BY <1>1, <2>2, ReplySuffices
<1>2. CASE readings'[l] = readings[l]
  <2>1. n \in Nat /\ q \in Row \union {Absent} /\ n <= readingsMade
    BY <1>0, <1>2, ReadingNumbers DEF NoneAhead, NumbersBehind
  <2>2. Suffices(n, q)
    BY <1>0, <1>2 DEF AllSuffice
  <2>3. q \in Row => /\ Larger(q.sale, lastSale) <= Larger(q.sale, lastSale')
                     /\ Larger(q.image, given) <= Larger(q.image, given')
    BY LiveGrows, RowFields DEF Larger
  <2> QED BY <2>1, <2>2, <2>3, SufficesStays
<1> QED
  <2>1. readings'[l] = readings[l] \/ ListIsRead(l)
    <3>1. ASSUME NEW m \in Lists, NEW r \in {Free, ListAsked}, Forgotten(m, r)
          PROVE  readings'[l] = readings[l]
      BY <3>1, ReadingsElsewhere, ForgottenFields DEF Forgotten
    <3>2. ASSUME NEW m \in Lists, ListIsRead(m)
          PROVE  readings'[l] = readings[l] \/ ListIsRead(l)
      BY <3>2, ReadingTyped, ReadingsElsewhere
    <3> QED BY <3>1, <3>2, ReadingSteps
  <2> QED BY <1>1, <1>2, <2>1

LEMMA ListSufficesStep ==
  ASSUME DashTypes, DashTypes', NoneAhead, Channel, AllSuffice, [DashNext]_dashVars, list' # Unloaded
  PROVE  Suffices(seen, list)'
<1>0. PICK n, q : n = seen' /\ q = list'
  OBVIOUS
<1>a. q \in Row \union {Absent}
  BY <1>0 DEF DashTypes, DashTypeOK
<1>b. /\ lastSale \in Nat /\ given \in Nat /\ lastSale' \in Nat /\ given' \in Nat
      /\ lastSale <= lastSale' /\ given <= given'
  BY LiveGrows
<1> SUFFICES Suffices(n, q)'
  BY <1>0 DEF Suffices, Final, Later, GoneKnown, NewsKnown, Comes
<1>1. ASSUME NEW l \in Lists, ListArrives(l) PROVE Suffices(n, q)'
  <2>1. /\ readings[l].at = "answered" /\ q = WithLiveSale(readings[l].row) /\ n = readings[l].n
        /\ UNCHANGED lastSale
        /\ given' = IF readings[l].row = Absent THEN given ELSE Larger(given, readings[l].row.image)
    BY <1>0, <1>1 DEF ListArrives
  <2>2. PICK r : r = readings[l].row
    OBVIOUS
  <2>3. n \in Nat /\ r \in Row \union {Absent} /\ n <= readingsMade
    BY <2>1, <2>2, ReadingNumbers DEF NoneAhead, NumbersBehind
  <2>4. Suffices(n, r)
    BY <2>1, <2>2 DEF AllSuffice
  <2>5. r = Absent => q = Absent
    BY <2>1, <2>2, NoLiveSale
  <2>6. ASSUME r \in Row
        PROVE  /\ Larger(r.sale, lastSale) <= Larger(q.sale, lastSale')
               /\ Larger(r.image, given) <= Larger(q.image, given')
    <3>1. q.image = r.image /\ q.sale = Larger(r.sale, lastSale) /\ r.image \in Nat /\ r.sale \in Nat
      BY <2>1, <2>2, <2>6, WithLiveSaleTyped, RowFields
    <3>2. Larger(r.sale, lastSale) <= Larger(q.sale, lastSale')
      BY <1>b, <2>1, <3>1 DEF Larger
    <3>3. Larger(r.image, given) <= Larger(q.image, given')
      BY <1>b, <3>1 DEF Larger
    <3> QED BY <3>2, <3>3
  <2> QED BY <1>a, <2>3, <2>4, <2>5, <2>6, SufficesStays
<1>2. ASSUME seen' = seen, list \in Row <=> list' \in Row, list \notin Row => list' = list,
             list \in Row => list'.sale >= list.sale
      PROVE  Suffices(n, q)'
  <2>1. PICK r : r = list
    OBVIOUS
  <2>2. r \in Row \union {Absent} /\ (r = Absent => q = Absent)
    BY <1>0, <1>2, <2>1, DashParts, DashBounds
  <2>3. Suffices(n, r)
    BY <1>0, <1>2, <2>1, <2>2, DashBounds DEF AllSuffice
  <2>4. n \in Nat /\ n <= readingsMade
    <3>1. seen \in Nat /\ newest \in Nat /\ readingsMade \in Nat /\ seen <= newest /\ newest <= readingsMade
      BY DashNumbers DEF NoneAhead, NumbersBehind
    <3> QED BY <1>0, <1>2, <3>1
  <2>5. ASSUME r \in Row, q \in Row
        PROVE  /\ Larger(r.sale, lastSale) <= Larger(q.sale, lastSale')
               /\ Larger(r.image, given) <= Larger(q.image, given')
    <3>1. r.sale \in Nat /\ r.image \in Nat /\ q.sale \in Nat /\ q.image \in Nat
      BY <2>5, RowFields
    <3>2. q.sale >= r.sale
      BY <1>0, <1>2, <2>1, <2>5
    <3>3. r.image <= given
      BY <2>1, <2>5 DEF NoneAhead, ListBehind
    <3>4. Larger(r.sale, lastSale) <= Larger(q.sale, lastSale')
      BY <1>b, <3>1, <3>2 DEF Larger
    <3>5. Larger(r.image, given) <= Larger(q.image, given')
      BY <1>b, <3>1, <3>3 DEF Larger
    <3> QED BY <3>4, <3>5
  <2> QED BY <1>a, <2>2, <2>3, <2>4, <2>5, SufficesStays
<1>3. CASE BatchArrives
  <2>1. BatchEffect(Head(wire).news) /\ seen' = seen
    BY <1>3, BatchDoes DEF BatchArrives
  <2> QED BY <1>2, <2>1 DEF BatchEffect
<1>4. ASSUME UNCHANGED seen, list' \in Row <=> list \in Row, list \in Row => list'.sale = list.sale,
             list \notin Row => list' = list
      PROVE  Suffices(n, q)'
  <2>1. list \in Row => list.sale \in Nat
    BY RowFields
  <2>2. list \in Row => list'.sale >= list.sale
    BY <1>4, <2>1
  <2> QED BY <1>2, <1>4, <2>2
<1> QED BY <1>1, <1>3, <1>4, ListSteps

LEMMA AllSufficeStep ==
  ASSUME DashTypes, DashTypes', NoneAhead, Channel, AllSuffice, [DashNext]_dashVars
  PROVE  AllSuffice'
BY ReadingsSufficeStep, ListSufficesStep DEF AllSuffice

-----------------------------------------------------------------------------
LEMMA DashInitConsistent == DashInit => DashConsistent
<1> SUFFICES ASSUME DashInit PROVE DashConsistent
  OBVIOUS
<1>1. DashTypes
  BY DashInitTypes
<1>2. /\ Carried = {} /\ wire = <<>> /\ DOMAIN wire = {} /\ cable = "down" /\ gathered = {}
      /\ list = Unloaded /\ list \notin Row
  BY DashBounds DEF DashInit, Carried
<1>3. \A l \in Lists : readings[l] \in {Free, ListAsked}
  BY DEF DashInit
<1>4. /\ \A k \in Kinds : account[k] = 0
      /\ told.image = 0 /\ told.sale = 0 /\ account["image"] = 0 /\ account["sale"] = 0
      /\ lastSale = 0 /\ given = 0 /\ upload = 0 /\ newsMade = 0
      /\ seen = 0 /\ newest = 0 /\ readingsMade = 0 /\ needs = -1
  BY DEF DashInit, Kinds
<1>5. NoneAhead
  BY <1>2, <1>3, <1>4, ForgottenFields
     DEF NoneAhead, NewsCounted, ToldBehind, CardBehind, WireBehind, ReadingsBehind, ListBehind, NumbersBehind
<1>6. Channel /\ StatusFollows
  BY <1>2 DEF Channel, StatusFollows
<1>7. NoneGone /\ SalesInOrder /\ AllSuffice
  BY <1>2, <1>3, ForgottenFields, DashBounds DEF NoneGone, SalesInOrder, ReadingsInOrder, ListInOrder, AllSuffice
<1> QED BY <1>1, <1>5, <1>6, <1>7 DEF DashConsistent

LEMMA DashStep ==
  ASSUME DashConsistent, [DashNext]_dashVars
  PROVE  DashConsistent'
<1>1. DashTypes'
  BY DashTypesStep DEF DashConsistent
<1>2. NoneAhead' /\ Channel' /\ StatusFollows' /\ NoneGone'
  BY <1>1, NoneAheadStep, ChannelStep, StatusFollowsStep, NoneGoneStep DEF DashConsistent
<1>3. SalesInOrder'
  BY <1>1, ReadingsInOrderStep, ListInOrderStep DEF DashConsistent, SalesInOrder
<1>4. AllSuffice'
  BY <1>1, AllSufficeStep DEF DashConsistent
<1> QED BY <1>1, <1>2, <1>3, <1>4 DEF DashConsistent

\* The card at rest shows the account as it is.
CardTrue ==
  Rests /\ UpToDate =>
    IF present
    THEN /\ list # Absent /\ liveStatus = account.status /\ list.sale = account.sale
         /\ list.image = account.image \/ list.image < given
    ELSE list = Absent

LEMMA RestingIsFinal ==
  ASSUME DashConsistent, Rests, UpToDate
  PROVE  GoneKnown(list) /\ NewsKnown(list) /\ Listening /\ Carried = {}
<1>1. ~Later(seen)
  BY DEF Rests, Later
<1>2. newest <= seen /\ seen > needs /\ list # Unloaded
  BY DashNumbers DEF UpToDate, DashConsistent
<1>3. Suffices(seen, list)
  BY <1>2 DEF DashConsistent, AllSuffice
<1>4. Carried = {} /\ cable = "up"
  BY DEF Rests, Carried
<1>5. Listening
  BY <1>4 DEF Listening, ReloadDue
<1> QED BY <1>1, <1>2, <1>3, <1>4, <1>5 DEF Suffices, Final

LEMMA ConsistentCardTrue == DashConsistent => CardTrue
<1> SUFFICES ASSUME DashConsistent, Rests, UpToDate
             PROVE  IF present
                    THEN /\ list # Absent /\ liveStatus = account.status /\ list.sale = account.sale
                         /\ list.image = account.image \/ list.image < given
                    ELSE list = Absent
  BY DEF CardTrue
<1>0. DashTypes /\ NoneAhead /\ StatusFollows /\ NoneGone
  BY DEF DashConsistent
<1>1. CASE ~present
  <2>1. list = Absent
    BY <1>1, RestingIsFinal DEF GoneKnown, Rests
  <2> QED BY <1>1, <2>1
<1>2. CASE present
  <2>1. list \in Row
    BY <1>0, <1>2, DashParts DEF NoneGone, UpToDate
  <2>2. /\ list.sale \in Nat /\ list.image \in Nat /\ lastSale \in Nat /\ given \in Nat
        /\ account["sale"] \in Nat /\ account["image"] \in Nat
        /\ account.image = account["image"] /\ account.sale = account["sale"]
    BY <1>0, <2>1, RowFields, DashNumbers
  <2>3. liveStatus = account.status
    <3>1. liveStatus = account["status"]
      BY <1>0 DEF StatusFollows, Rests
    <3> QED BY <1>0, <3>1, DashParts
  <2>4. told["image"] = account["image"] /\ told["sale"] = account["sale"]
    BY <2>2 DEF Rests
  <2>5. /\ Larger(list.sale, lastSale) >= account["sale"]
        /\ Larger(list.image, given) >= account["image"]
    <3>1. NewsKnown(list) /\ Listening /\ Carried = {} /\ gathered = {} /\ list # Absent
      BY <2>1, RestingIsFinal, DashBounds DEF Rests
    <3>2. Comes("sale", Larger(list.sale, lastSale)) /\ Comes("image", Larger(list.image, given))
      BY <3>1 DEF NewsKnown
    <3> QED BY <2>4, <3>1, <3>2 DEF Comes
  <2>6. list.image <= given /\ lastSale <= list.sale /\ list.sale <= account["sale"]
    BY <1>0, <2>1 DEF NoneAhead, ListBehind
  <2>7. list.sale = account["sale"]
    BY <2>2, <2>5, <2>6 DEF Larger
  <2>8. given <= account["image"]
    BY <1>0 DEF NoneAhead, CardBehind
  <2>9. list.image = account["image"] \/ list.image < given
    BY <2>2, <2>5, <2>6, <2>8 DEF Larger
  <2>10. list # Absent
    BY <2>1, DashBounds
  <2> QED BY <1>2, <2>2, <2>3, <2>7, <2>9, <2>10
<1> QED BY <1>1, <1>2

LEMMA SaleNeverBack ==
  ASSUME DashConsistent, DashConsistent', [DashNext]_dashVars
  PROVE  [{list, list'} \intersect {Unloaded, Absent} = {} /\ seen' = newest'
            => list'.sale >= list.sale]_dashVars
<1>1. list \in Row \union {Unloaded, Absent} /\ list' \in Row \union {Unloaded, Absent}
  BY DEF DashConsistent, DashTypes, DashTypeOK
<1> QED BY <1>1, SaleStays DEF DashConsistent

-----------------------------------------------------------------------------
(***************************************************************************)
(* The note: without a request under way the text that was saved is known. *)
(***************************************************************************)

\* The timer is armed by a key.
TypedFirst == timerOf => keys # 0

\* Without a request under way the saved text is known, and shown unless the
\* timer runs; with one, that is the one whose text will be.
KnowsSaved ==
  \/ patches = {} /\ savedRef = noteRow /\ (~timerOf => value = savedRef)
  \/ \E p \in patches :
       patches = {p} /\ (p.written => noteRow = p.text) /\ (~timerOf => value = p.text)

TextConsistent == TextTypeOK /\ TypedFirst /\ (~astray => KnowsSaved)

\* The field is opened with the note of the row.
LEMMA TextInitConsistent == TextInit => TextConsistent
<1> SUFFICES ASSUME TextInit PROVE TextConsistent
  OBVIOUS
<1>1. TextTypeOK
  <2>1. {timerOf, astray} \subseteq BOOLEAN
    BY DEF TextInit
  <2>2. {noteRow, initialOf, value, savedRef} \subseteq NoteTexts
    BY DEF TextInit
  <2> QED BY <2>1, <2>2, AccountNoteAssumption DEF TextInit, TextTypeOK
<1>2. TypedFirst /\ KnowsSaved
  BY DEF TextInit, TypedFirst, KnowsSaved
<1> QED BY <1>1, <1>2 DEF TextConsistent

\* The invariant says of a field at rest what NoteSaved says.
LEMMA ConsistentNoteSaved == TextConsistent => NoteSaved
BY DEF TextConsistent, KnowsSaved, NoteSaved

LEMMA TypesConsistent ==
  ASSUME TextConsistent, NEW text \in NoteTexts, Types(text)
  PROVE  TextConsistent'
<1>1. TextTypeOK' /\ TypedFirst'
  BY AccountNoteAssumption DEF Types, TextConsistent, TextTypeOK, TypedFirst
<1>2. ~astray' => KnowsSaved'
  <2>1. CASE patches = {}
    BY <2>1 DEF Types, KnowsSaved, TextConsistent
  <2>2. CASE patches # {}
    BY <2>2 DEF Types, KnowsSaved, TextConsistent
  <2> QED BY <2>1, <2>2
<1> QED BY <1>1, <1>2 DEF TextConsistent

LEMMA SendsTextConsistent ==
  ASSUME TextConsistent, SendsText
  PROVE  TextConsistent'
<1> DEFINE new == [n |-> keys, text |-> value, written |-> FALSE]
<1>1. new \in Patch /\ ~new.written /\ new.text = value
  BY AccountNoteAssumption DEF SendsText, TextConsistent, TextTypeOK, TypedFirst, Patch
<1>2. patches' = patches \union {new} /\ timerOf' = FALSE /\ astray' = (patches # {})
      /\ UNCHANGED <<noteRow, initialOf, value, savedRef, listed, keys, upsetsOf>>
  BY DEF SendsText
<1> HIDE DEF new
<1>3. ~astray' => KnowsSaved'
  BY <1>1, <1>2 DEF KnowsSaved
<1> QED BY <1>1, <1>2, <1>3 DEF TextConsistent, TextTypeOK, TypedFirst

LEMMA CarriedOutConsistent ==
  ASSUME TextConsistent, NEW p \in patches, CarriedOut(p)
  PROVE  TextConsistent'
<1> DEFINE done == [p EXCEPT !.written = TRUE]
<1>1. done \in Patch /\ done.written /\ done.text = p.text /\ p.text \in NoteTexts
  BY DEF TextConsistent, TextTypeOK, Patch
<1>2. patches' = (patches \ {p}) \union {done} /\ noteRow' = p.text
      /\ UNCHANGED <<initialOf, value, savedRef, timerOf, listed, astray, keys, upsetsOf>>
  BY DEF CarriedOut
<1> HIDE DEF done
<1>3. ~astray' => KnowsSaved'
  BY <1>1, <1>2 DEF KnowsSaved, TextConsistent
<1> QED BY <1>1, <1>2, <1>3 DEF TextConsistent, TextTypeOK, TypedFirst

LEMMA AcknowledgedConsistent ==
  ASSUME TextConsistent, NEW p \in patches, Acknowledged(p)
  PROVE  TextConsistent'
<1>1. p.text \in NoteTexts
  BY DEF TextConsistent, TextTypeOK, Patch
<1>2. ~astray' => KnowsSaved'
  BY DEF Acknowledged, KnowsSaved, TextConsistent
<1> QED BY <1>1, <1>2 DEF Acknowledged, TextConsistent, TextTypeOK, TypedFirst

LEMMA ListShownConsistent ==
  ASSUME TextConsistent, NEW text \in NoteTexts, ListShown(text)
  PROVE  TextConsistent'
<1>1. ~astray' => KnowsSaved'
  <2>1. CASE patches = {}
    BY <2>1 DEF ListShown, KnowsSaved, TextConsistent
  <2>2. CASE patches # {} /\ text = initialOf
    BY <2>2 DEF ListShown, KnowsSaved, TextConsistent
  <2>3. CASE patches # {} /\ text # initialOf
    BY <2>3 DEF ListShown, KnowsSaved, TextConsistent
  <2> QED BY <2>1, <2>2, <2>3
<1>2. TextTypeOK' /\ TypedFirst'
  BY DEF ListShown, TextConsistent, TextTypeOK, TypedFirst
<1> QED BY <1>1, <1>2 DEF TextConsistent

LEMMA UpsetsConsistent ==
  ASSUME TextConsistent, OtherWrites \/ ListReadAgain \/ \E p \in patches : Ignored(p)
  PROVE  TextConsistent'
<1>1. upsetsOf' \in 0..MaxUpsetsOf
  BY AccountNoteAssumption DEF OtherWrites, ListReadAgain, Ignored, Upset, TextConsistent, TextTypeOK
<1>2. ~astray' => KnowsSaved'
  BY DEF OtherWrites, ListReadAgain, Ignored, KnowsSaved, TextConsistent
<1>3. patches' \subseteq patches /\ noteRow' \in NoteTexts /\ listed' \subseteq NoteTexts
      /\ astray' \in BOOLEAN /\ UNCHANGED <<initialOf, value, savedRef, timerOf, keys>>
  BY DEF OtherWrites, ListReadAgain, Ignored, TextConsistent, TextTypeOK
<1> QED BY <1>1, <1>2, <1>3 DEF TextConsistent, TextTypeOK, TypedFirst

\* The field keeps the invariant.
LEMMA TextStep ==
  ASSUME TextConsistent, [NoteFieldNext]_textVars
  PROVE  TextConsistent'
<1>1. CASE NoteFieldNext
  BY <1>1, TypesConsistent, SendsTextConsistent, CarriedOutConsistent, AcknowledgedConsistent,
     ListShownConsistent, UpsetsConsistent DEF NoteFieldNext
<1>2. CASE UNCHANGED textVars
  BY <1>2 DEF textVars, TextConsistent, TextTypeOK, TypedFirst, KnowsSaved
<1> QED BY <1>1, <1>2

-----------------------------------------------------------------------------
(***************************************************************************)
(* The page of an account: a request is of a visit, and only the one of the *)
(* visit under way says anything.                                          *)
(***************************************************************************)

\* Requests under way belong to visits made; one of the present visit is about
\* the account shown.
RequestsOfVisits ==
  /\ id = Elsewhere => command = 0 /\ shownAccount = Nobody
  /\ \A r \in asked :
       /\ r.visit <= visit
       /\ id # Elsewhere /\ r.visit = visit => r.of = id /\ r.mount = mount
       /\ r.kind = "command" => r.text \in Commands
       /\ r.at # "sent" => r.kind = "command" /\ <<r.of, r.text>> \in sentTo

\* What the page says is about the account it shows.
SaysOfShown ==
  /\ error.kind = "load" => error.of = id
  /\ commandError \in {id, Nobody}
  /\ id # Elsewhere /\ shownAccount # id /\ error = NoError =>
       \E r \in asked : r.kind = "load" /\ r.visit = visit

\* One command of the visit, and none when the button is free.
OneCommand ==
  id # Elsewhere /\ ~freed =>
    \A r \in asked : r.kind = "command" /\ r.visit = visit =>
      /\ sendingCommand
      /\ \A q \in asked : q.kind = "command" /\ q.visit = visit => q = r

PageConsistent == PageTypeOK /\ RequestsOfVisits /\ SaysOfShown /\ OneCommand

-----------------------------------------------------------------------------
LEMMA PageInitConsistent == PageInit => PageConsistent
<1> SUFFICES ASSUME PageInit PROVE PageConsistent
  OBVIOUS
<1>1. PageTypeOK
  <2>1. 0 \in 0..MaxVisits /\ 0 \in 0..MaxAsks
    BY AccountPageAssumption
  <2>2. NoError \in [of : Accounts \union {Nobody}, kind : {"none", "load", "action"}]
    BY DEF NoError
  <2> QED BY <2>1, <2>2 DEF PageInit, PageTypeOK
<1> QED BY <1>1, AccountPageAssumption DEF PageInit, PageConsistent, RequestsOfVisits, SaysOfShown, OneCommand, NoError

\* A request asked now.
LEMMA AskType ==
  ASSUME NEW kind \in {"load", "command", "action", "delete"}, NEW a \in Accounts,
         NEW text \in Commands \union {0}, visit' \in 0..MaxVisits, mount' \in 0..MaxVisits
  PROVE  LET r == AskFor(kind, a, text)
         IN  /\ r \in RequestOf
             /\ r.kind = kind /\ r.of = a /\ r.visit = visit' /\ r.mount = mount'
             /\ r.text = text /\ r.at = "sent"
BY DEF AskFor, RequestOf

LEMMA RequestFields ==
  ASSUME NEW r \in RequestOf
  PROVE  /\ r.kind \in {"load", "command", "action", "delete"} /\ r.of \in Accounts
         /\ r.visit \in 0..MaxVisits /\ r.mount \in 0..MaxVisits
         /\ r.text \in Commands \union {0} /\ r.at \in {"sent", "executed", "recorded"}
BY DEF RequestOf

\* A request that goes on: only where it is changes.
LEMMA GoneOn ==
  ASSUME NEW r \in RequestOf, NEW place \in {"executed", "recorded"}
  PROVE  LET q == [r EXCEPT !.at = place]
         IN  /\ q \in RequestOf /\ q.at = place
             /\ q.kind = r.kind /\ q.of = r.of /\ q.visit = r.visit /\ q.mount = r.mount /\ q.text = r.text
BY DEF RequestOf

LEMMA OpensConsistent ==
  ASSUME PageConsistent, NEW a \in Accounts, Opens(a)
  PROVE  PageConsistent'
<1>1. /\ visit \in 0..MaxVisits /\ mount \in 0..MaxVisits /\ visit' = visit + 1 /\ visit' \in 0..MaxVisits
      /\ mount' \in 0..MaxVisits /\ id' = a /\ a # id /\ a # Elsewhere
  BY AccountPageAssumption DEF Opens, PageConsistent, PageTypeOK
<1>2. PICK l \in RequestOf : /\ l = AskFor("load", a, 0)
                            /\ l.kind = "load" /\ l.of = a /\ l.visit = visit' /\ l.mount = mount' /\ l.at = "sent"
  BY <1>1, AskType
<1>3. asked' = asked \union {l}
  BY <1>2 DEF Opens
<1>4. /\ shownAccount' = Nobody /\ error' = NoError /\ command' = 0 /\ commandError' = Nobody
      /\ sendingCommand' = FALSE /\ freed' = FALSE /\ UNCHANGED <<sentTo, asks>>
  BY DEF Opens
<1>5. \A r \in asked : r \in RequestOf /\ r.visit <= visit /\ r.visit \in Nat
  <2> SUFFICES ASSUME NEW r \in asked PROVE r \in RequestOf /\ r.visit <= visit /\ r.visit \in Nat
    OBVIOUS
  <2>1. r \in RequestOf
    BY DEF PageConsistent, PageTypeOK
  <2>2. r.visit \in 0..MaxVisits
    BY <2>1, RequestFields
  <2>3. r.visit \in Nat
    BY <2>2, AccountPageAssumption
  <2>4. r.visit <= visit
    BY DEF PageConsistent, RequestsOfVisits
  <2> QED BY <2>1, <2>3, <2>4
<1>6. PageTypeOK'
  BY <1>1, <1>2, <1>3, <1>4 DEF PageConsistent, PageTypeOK, NoError
<1>7. \A r \in asked : r.visit # visit'
  BY <1>1, <1>5
<1>8. RequestsOfVisits'
  BY <1>1, <1>2, <1>3, <1>4, <1>5, <1>7 DEF PageConsistent, RequestsOfVisits
<1>9. SaysOfShown'
  BY <1>2, <1>3, <1>4 DEF SaysOfShown, NoError
<1>10. OneCommand'
  BY <1>2, <1>3, <1>7 DEF OneCommand
<1> QED BY <1>6, <1>8, <1>9, <1>10 DEF PageConsistent

\* The browser is elsewhere, with requests fewer or the same.
LEMMA LeavesConsistent ==
  ASSUME PageConsistent,
         id' = Elsewhere, shownAccount' = Nobody, error' = NoError, sendingCommand' = FALSE,
         commandError' = Nobody, command' = 0, freed' = FALSE,
         asked' \subseteq asked, UNCHANGED <<visit, mount, sentTo, asks>>
  PROVE  PageConsistent'
<1>1. PageTypeOK'
  BY DEF PageConsistent, PageTypeOK, NoError
<1>2. RequestsOfVisits'
  BY DEF PageConsistent, RequestsOfVisits
<1>3. SaysOfShown' /\ OneCommand'
  BY DEF SaysOfShown, OneCommand, NoError
<1> QED BY <1>1, <1>2, <1>3 DEF PageConsistent

LEMMA RequestsConsistent ==
  ASSUME PageConsistent, NEW kind \in {"load", "action", "delete"}, Requests(kind)
  PROVE  PageConsistent'
<1>1. /\ visit \in 0..MaxVisits /\ mount \in 0..MaxVisits /\ asks \in 0..MaxAsks /\ id \in Accounts
      /\ UNCHANGED <<id, visit, mount, sentTo, shownAccount, error, command, sendingCommand, commandError, freed>>
      /\ asks' = asks + 1 /\ asks < MaxAsks /\ id # Elsewhere
  BY DEF Requests, Asks, shownVars, inputVars, PageConsistent, PageTypeOK
<1>2. PICK l \in RequestOf : /\ l = AskFor(kind, id, 0)
                            /\ l.kind = kind /\ l.of = id /\ l.visit = visit /\ l.mount = mount /\ l.at = "sent"
  <2>1. visit' \in 0..MaxVisits /\ mount' \in 0..MaxVisits
    BY <1>1
  <2> QED BY <1>1, <2>1, AskType
<1>3. asked' = asked \union {l}
  BY <1>2 DEF Requests, Asks
<1>4. PageTypeOK'
  BY <1>1, <1>2, <1>3, AccountPageAssumption DEF PageConsistent, PageTypeOK
<1>5. RequestsOfVisits'
  BY <1>1, <1>2, <1>3 DEF PageConsistent, RequestsOfVisits
<1>6. SaysOfShown'
  BY <1>1, <1>3 DEF PageConsistent, SaysOfShown
<1>7. OneCommand'
  BY <1>1, <1>2, <1>3 DEF PageConsistent, OneCommand
<1> QED BY <1>4, <1>5, <1>6, <1>7 DEF PageConsistent

LEMMA TypesCommandConsistent ==
  ASSUME PageConsistent, NEW text \in Commands \union {0}, TypesCommand(text)
  PROVE  PageConsistent'
<1>1. id # Elsewhere
  BY AccountPageAssumption DEF TypesCommand, PageConsistent, RequestsOfVisits
<1> QED BY <1>1 DEF TypesCommand, PageConsistent, PageTypeOK, RequestsOfVisits, SaysOfShown, OneCommand, shownVars

LEMMA SendsCommandConsistent ==
  ASSUME PageConsistent, SendsCommand
  PROVE  PageConsistent'
<1>1. /\ visit \in 0..MaxVisits /\ mount \in 0..MaxVisits /\ asks \in 0..MaxAsks /\ id \in Accounts
      /\ command \in Commands
      /\ UNCHANGED <<id, visit, mount, sentTo, shownAccount, error, command, freed>>
      /\ asks' = asks + 1 /\ asks < MaxAsks /\ id # Elsewhere
      /\ ~sendingCommand /\ sendingCommand' = TRUE /\ commandError' = Nobody
  BY DEF SendsCommand, Asks, shownVars, PageConsistent, PageTypeOK
<1>2. PICK l \in RequestOf : /\ l = AskFor("command", id, command)
                            /\ l.kind = "command" /\ l.of = id /\ l.visit = visit /\ l.mount = mount /\ l.at = "sent"
                            /\ l.text = command
  <2>1. visit' \in 0..MaxVisits /\ mount' \in 0..MaxVisits
    BY <1>1
  <2> QED BY <1>1, <2>1, AskType
<1>3. asked' = asked \union {l}
  BY <1>2 DEF SendsCommand, Asks
<1>4. PageTypeOK'
  BY <1>1, <1>2, <1>3, AccountPageAssumption DEF PageConsistent, PageTypeOK
<1>5. RequestsOfVisits'
  BY <1>1, <1>2, <1>3 DEF PageConsistent, RequestsOfVisits
<1>6. SaysOfShown'
  BY <1>1, <1>3 DEF PageConsistent, SaysOfShown
<1>7. OneCommand'
  <2>1. CASE freed
    BY <1>1, <2>1 DEF OneCommand
  <2>2. CASE ~freed
    <3>1. \A r \in asked : ~(r.kind = "command" /\ r.visit = visit)
      BY <1>1, <2>2 DEF PageConsistent, OneCommand
    <3> QED BY <1>1, <1>2, <1>3, <3>1 DEF OneCommand
  <2> QED BY <2>1, <2>2
<1> QED BY <1>4, <1>5, <1>6, <1>7 DEF PageConsistent

LEMMA LoadAnsweredConsistent ==
  ASSUME PageConsistent, NEW r \in asked, NEW ok \in BOOLEAN, LoadAnswered(r, ok)
  PROVE  PageConsistent'
<1>1. /\ r \in RequestOf /\ r.of \in Accounts /\ r.kind = "load"
      /\ asked' = asked \ {r}
      /\ UNCHANGED <<id, visit, mount, sentTo, asks, command, sendingCommand, commandError, freed>>
  BY RequestFields DEF LoadAnswered, Answered, inputVars, PageConsistent, PageTypeOK
<1>2. CASE StillShown(r)
  <2>1. r.of = id /\ id # Elsewhere
    BY <1>2 DEF StillShown, OfThisPage
  <2>2. \/ shownAccount' = id /\ error' = NoError
        \/ error' = [of |-> id, kind |-> "load"] /\ shownAccount' = shownAccount
    BY <1>2, <2>1 DEF LoadAnswered
  <2>3. PageTypeOK'
    BY <1>1, <2>1, <2>2 DEF PageConsistent, PageTypeOK, NoError
  <2>4. RequestsOfVisits' /\ OneCommand'
    BY <1>1, <2>1 DEF PageConsistent, RequestsOfVisits, OneCommand
  <2>5. SaysOfShown'
    BY <1>1, <2>1, <2>2 DEF PageConsistent, SaysOfShown, NoError
  <2> QED BY <2>3, <2>4, <2>5 DEF PageConsistent
<1>3. CASE ~StillShown(r)
  <2>1. UNCHANGED <<shownAccount, error>>
    BY <1>3 DEF LoadAnswered, shownVars
  <2>2. id # Elsewhere => r.visit # visit
    BY <1>3 DEF PageConsistent, RequestsOfVisits, StillShown, OfThisPage
  <2>3. PageTypeOK' /\ RequestsOfVisits' /\ OneCommand'
    BY <1>1, <2>1 DEF PageConsistent, PageTypeOK, RequestsOfVisits, OneCommand
  <2>4. SaysOfShown'
    BY <1>1, <2>1, <2>2 DEF PageConsistent, SaysOfShown
  <2> QED BY <2>3, <2>4 DEF PageConsistent
<1> QED BY <1>2, <1>3

\* Answers that say no more than that an action failed.
LEMMA FailureConsistent ==
  ASSUME PageConsistent, NEW r \in asked, r.kind \in {"action", "delete"}, Answered(r),
         error' = [of |-> r.of, kind |-> "action"] \/ error' = error,
         UNCHANGED <<id, mount, shownAccount, inputVars>>
  PROVE  PageConsistent'
<1>1. /\ r \in RequestOf /\ r.of \in Accounts
      /\ asked' = asked \ {r}
      /\ UNCHANGED <<visit, sentTo, asks, command, sendingCommand, commandError, freed>>
  BY RequestFields DEF Answered, inputVars, PageConsistent, PageTypeOK
<1>2. PageTypeOK'
  BY <1>1 DEF PageConsistent, PageTypeOK
<1>3. RequestsOfVisits' /\ OneCommand'
  BY <1>1 DEF PageConsistent, RequestsOfVisits, OneCommand
<1>4. SaysOfShown'
  BY <1>1 DEF PageConsistent, SaysOfShown, NoError
<1> QED BY <1>2, <1>3, <1>4 DEF PageConsistent

\* A command on its way through the backend.
LEMMA ServedConsistent ==
  ASSUME PageConsistent, NEW r \in asked, Executed(r) \/ Recorded(r)
  PROVE  PageConsistent'
<1>1. PICK q \in RequestOf :
        /\ asked' = (asked \ {r}) \union {q} /\ q.at # "sent"
        /\ q.kind = r.kind /\ q.of = r.of /\ q.visit = r.visit /\ q.mount = r.mount /\ q.text = r.text
  <2>1. r \in RequestOf
    BY DEF PageConsistent, PageTypeOK
  <2>2. CASE Executed(r)
    BY <2>1, <2>2, GoneOn DEF Executed
  <2>3. CASE Recorded(r)
    BY <2>1, <2>3, GoneOn DEF Recorded
  <2> QED BY <2>2, <2>3
<1>2. /\ r.kind = "command" /\ r.text \in Commands /\ <<r.of, r.text>> \in sentTo'
      /\ sentTo \subseteq sentTo' /\ sentTo' \subseteq Accounts \X Commands
  <2>1. r \in RequestOf /\ r.of \in Accounts
    BY RequestFields DEF PageConsistent, PageTypeOK
  <2> QED BY <2>1 DEF Executed, Recorded, PageConsistent, RequestsOfVisits, PageTypeOK
<1>3. UNCHANGED <<id, visit, mount, shownAccount, error, command, sendingCommand, commandError, freed, asks>>
  BY DEF Executed, Recorded, shownVars, inputVars
<1>4. PageTypeOK'
  BY <1>1, <1>2, <1>3 DEF PageConsistent, PageTypeOK
<1>5. RequestsOfVisits'
  BY <1>1, <1>2, <1>3 DEF PageConsistent, RequestsOfVisits
<1>6. SaysOfShown'
  BY <1>1, <1>2, <1>3 DEF PageConsistent, SaysOfShown
<1>7. OneCommand'
  BY <1>1, <1>2, <1>3 DEF PageConsistent, OneCommand
<1> QED BY <1>4, <1>5, <1>6, <1>7 DEF PageConsistent

LEMMA CommandAnsweredConsistent ==
  ASSUME PageConsistent, NEW r \in asked, NEW ok \in BOOLEAN, CommandAnswered(r, ok)
  PROVE  PageConsistent'
<1>1. /\ r \in RequestOf /\ r.of \in Accounts /\ r.kind = "command"
      /\ asked' = asked \ {r}
      /\ UNCHANGED <<id, visit, mount, sentTo, asks, shownAccount, error>>
  BY RequestFields DEF CommandAnswered, Answered, shownVars, PageConsistent, PageTypeOK
<1>2. CASE StillShown(r)
  <2>1. /\ r.of = id /\ id # Elsewhere /\ command' \in {command, 0} /\ commandError' \in {commandError, id}
        /\ sendingCommand' = FALSE /\ freed' = (freed \/ r.visit # visit)
    BY <1>2 DEF CommandAnswered, StillShown, OfThisPage
  <2>2. PageTypeOK'
    BY <1>1, <2>1 DEF PageConsistent, PageTypeOK
  <2>3. RequestsOfVisits'
    BY <1>1, <2>1 DEF PageConsistent, RequestsOfVisits
  <2>4. SaysOfShown'
    BY <1>1, <2>1 DEF PageConsistent, SaysOfShown
  <2>5. OneCommand'
    BY <1>1, <2>1 DEF PageConsistent, OneCommand
  <2> QED BY <2>2, <2>3, <2>4, <2>5 DEF PageConsistent
<1>3. CASE ~StillShown(r)
  <2>1. UNCHANGED <<command, sendingCommand, commandError, freed>>
    BY <1>3 DEF CommandAnswered, inputVars
  <2> QED BY <1>1, <2>1 DEF PageConsistent, PageTypeOK, RequestsOfVisits, SaysOfShown, OneCommand
<1> QED BY <1>2, <1>3

\* The page keeps the invariant.
LEMMA PageStep ==
  ASSUME PageConsistent, [PageNext]_pageVars
  PROVE  PageConsistent'
<1>1. ASSUME Leaves PROVE PageConsistent'
  BY <1>1, LeavesConsistent DEF Leaves
<1>2. ASSUME NEW r \in asked, NEW ok \in BOOLEAN, ActionAnswered(r, ok) PROVE PageConsistent'
  BY <1>2, FailureConsistent DEF ActionAnswered
<1>3. ASSUME NEW r \in asked, NEW ok \in BOOLEAN, DeleteAnswered(r, ok) PROVE PageConsistent'
  <2>1. CASE id' = Elsewhere /\ shownAccount' = Nobody /\ error' = NoError /\ sendingCommand' = FALSE
             /\ commandError' = Nobody /\ command' = 0 /\ freed' = FALSE /\ UNCHANGED mount /\ Answered(r)
    BY <2>1, LeavesConsistent DEF Answered
  <2>2. CASE ~ok /\ UNCHANGED <<id, mount, shownAccount, inputVars>> /\ Answered(r)
             /\ error' = IF OfThisPage(r) THEN [of |-> r.of, kind |-> "action"] ELSE error
    BY <1>3, <2>2, FailureConsistent DEF DeleteAnswered
  <2> QED BY <1>3, <2>1, <2>2 DEF DeleteAnswered
<1>4. CASE UNCHANGED pageVars
  BY <1>4 DEF pageVars, shownVars, inputVars, PageConsistent, PageTypeOK, RequestsOfVisits, SaysOfShown, OneCommand
<1> QED BY <1>1, <1>2, <1>3, <1>4, OpensConsistent, RequestsConsistent, TypesCommandConsistent, SendsCommandConsistent,
       LoadAnsweredConsistent, ServedConsistent, CommandAnsweredConsistent DEF PageNext

\* What the page says while it shows an account.
PageSaysTrue ==
  id # Elsewhere =>
    /\ OfThisVisit("load") = {} => shownAccount = id \/ error # NoError
    /\ error.kind = "load" => error.of = id
    /\ commandError \in {id, Nobody}
    /\ Cardinality(OfThisVisit("command")) <= 1 \/ freed

LEMMA ConsistentPageSaysTrue == PageConsistent => PageSaysTrue
<1> SUFFICES ASSUME PageConsistent, id # Elsewhere
             PROVE  /\ OfThisVisit("load") = {} => shownAccount = id \/ error # NoError
                    /\ error.kind = "load" => error.of = id
                    /\ commandError \in {id, Nobody}
                    /\ Cardinality(OfThisVisit("command")) <= 1 \/ freed
  BY DEF PageSaysTrue
<1>1. OfThisVisit("load") = {} => shownAccount = id \/ error # NoError
  BY DEF PageConsistent, SaysOfShown, OfThisVisit
<1>2. ASSUME ~freed PROVE Cardinality(OfThisVisit("command")) <= 1
  <2>1. CASE OfThisVisit("command") = {}
    BY <2>1, FS_EmptySet
  <2>2. CASE OfThisVisit("command") # {}
    <3>1. PICK r : OfThisVisit("command") = {r}
      BY <1>2, <2>2 DEF PageConsistent, OneCommand, OfThisVisit
    <3> QED BY <3>1, FS_Singleton
  <2> QED BY <2>1, <2>2
<1> QED BY <1>1, <1>2 DEF PageConsistent, SaysOfShown

\* The text goes away with its account's bot.
LEMMA TextGoesWhenSent ==
  ASSUME PageConsistent, [PageNext]_pageVars,
         command # 0, command' = 0, id' = id, asked' # asked
  PROVE  <<id, command>> \in sentTo
<1>0. id # Elsewhere
  BY DEF PageConsistent, RequestsOfVisits
<1>1. PICK r \in asked, ok \in BOOLEAN : CommandAnswered(r, ok)
  BY <1>0 DEF PageNext, Opens, Leaves, SendsCommand, Requests, TypesCommand, Executed, Recorded, LoadAnswered,
     ActionAnswered, DeleteAnswered, inputVars, pageVars
<1>2. ok /\ command = r.text /\ r.of = id /\ r.at = "recorded"
  BY <1>1 DEF CommandAnswered, StillShown, inputVars
<1> QED BY <1>2 DEF PageConsistent, RequestsOfVisits

-----------------------------------------------------------------------------
(***************************************************************************)
(* The form of who may see an account: of the saves under way only one is of *)
(* the panel shown, and what it wrote so far is what was pressed.          *)
(***************************************************************************)

\* The users the account has once the access of a save is written.
Granted(what) == IF isAdmin THEN what.users ELSE what.users \union {Me}

\* A panel open has a form of its own and lookups; a save belongs to a panel
\* opened before.
PanelsInTurn ==
  /\ panel \in {0, panels}
  /\ panel # 0 => form \in AccountRow
  /\ panel = 0 => lookups = {}
  /\ \A s \in submitted : s.panel <= panels

\* One save of the panel at a time, of what the form had when it was pressed.
OneSaveOfPanel ==
  \A s \in submitted : s.panel = panel =>
    /\ saving /\ said = "" /\ s.what = pressed
    /\ \A q \in submitted : q.panel = panel => q = s

\* What the save of the panel has carried out is in the row.
WrittenSoFar ==
  ~overtaken =>
    \A s \in submitted : s.panel = panel =>
      /\ s.at # "patch" => row.setting = s.what.setting
      /\ s.at = "done" => row.users = Granted(s.what)

SaidIsWritten ==
  panel # 0 /\ said = "saved" /\ ~overtaken =>
    row.setting = pressed.setting /\ row.users = Granted(pressed)

FormConsistent == FormTypeOK /\ PanelsInTurn /\ OneSaveOfPanel /\ WrittenSoFar /\ SaidIsWritten

-----------------------------------------------------------------------------
Lookups == [user : AllUsers, new : BOOLEAN, shown : BOOLEAN, found : BOOLEAN]
Submitted == [n : 1..MaxSaves, panel : 1..MaxPanels, what : AccountRow, at : {"patch", "put", "allowed", "done"}]

LEMMA FormNumbers ==
  ASSUME FormTypeOK
  PROVE  /\ MaxEdits \in Nat /\ MaxSaves \in Nat /\ MaxPanels \in Nat /\ MaxForeign \in Nat
         /\ panel \in Nat /\ panels \in Nat /\ panel <= MaxPanels /\ panels <= MaxPanels
         /\ savesMade \in Nat /\ savesMade <= MaxSaves
         /\ edits \in Nat /\ edits <= MaxEdits
         /\ foreign \in Nat /\ foreign <= MaxForeign
<1>1. MaxEdits \in Nat /\ MaxSaves \in Nat /\ MaxPanels \in Nat /\ MaxForeign \in Nat
  BY AccessFormAssumption
<1>2. /\ panel \in 0..MaxPanels /\ panels \in 0..MaxPanels /\ savesMade \in 0..MaxSaves /\ edits \in 0..MaxEdits
      /\ foreign \in 0..MaxForeign
  BY DEF FormTypeOK
<1> QED BY <1>1, <1>2

LEMMA FormTypes ==
  ASSUME FormTypeOK
  PROVE  /\ isAdmin \in BOOLEAN /\ row \in AccountRow /\ loaded \in AccountRow
         /\ reads \subseteq AccountRow \union {Asked}
         /\ lookups \subseteq Lookups /\ submitted \subseteq Submitted
BY DEF FormTypeOK, Submitted, Lookups

LEMMA FormSaveFields ==
  ASSUME FormTypeOK, NEW s \in submitted
  PROVE  /\ s \in Submitted /\ s.panel \in Nat /\ s.panel # 0 /\ s.what \in AccountRow
         /\ s.at \in {"patch", "put", "allowed", "done"}
<1>1. s \in Submitted
  BY FormTypes
<1>2. s.panel \in 1..MaxPanels /\ s.what \in AccountRow /\ s.at \in {"patch", "put", "allowed", "done"}
  BY <1>1 DEF Submitted
<1>3. s.panel \in Nat /\ s.panel # 0
  BY <1>2, FormNumbers
<1> QED BY <1>1, <1>2, <1>3

LEMMA RowChanges ==
  ASSUME NEW r \in AccountRow
  PROVE  /\ \A s \in Settings : /\ [r EXCEPT !.setting = s] \in AccountRow
                                /\ [r EXCEPT !.setting = s].setting = s
                                /\ [r EXCEPT !.setting = s].users = r.users
         /\ \A U \in SUBSET AllUsers : /\ [r EXCEPT !.users = U] \in AccountRow
                                      /\ [r EXCEPT !.users = U].users = U
                                      /\ [r EXCEPT !.users = U].setting = r.setting
         /\ r.setting \in Settings /\ r.users \in SUBSET AllUsers
BY DEF AccountRow

LEMMA FormInitConsistent == FormInit => FormConsistent
<1> SUFFICES ASSUME FormInit PROVE FormConsistent
  OBVIOUS
<1>1. row \in AccountRow
  BY DEF FormInit, AccountRow, AllUsers
<1>2. FormTypeOK
  <2>1. 0 \in 0..MaxPanels /\ 0 \in 0..MaxEdits /\ 0 \in 0..MaxSaves /\ 0 \in 0..MaxForeign
    BY AccessFormAssumption
  <2> QED BY <1>1, <2>1 DEF FormInit, FormTypeOK
<1> QED BY <1>2 DEF FormInit, FormConsistent, PanelsInTurn, OneSaveOfPanel, WrittenSoFar, SaidIsWritten

\* What touches neither the row nor the saves.
LEMMA FormAside ==
  ASSUME FormConsistent, FormTypeOK', panel # 0 => form' \in AccountRow, panel = 0 => lookups' = {},
         UNCHANGED <<isAdmin, row, panel, panels, saving, said, submitted, pressed, overtaken>>
  PROVE  FormConsistent'
<1>1. PanelsInTurn'
  BY DEF FormConsistent, PanelsInTurn
<1>2. OneSaveOfPanel'
  BY DEF FormConsistent, OneSaveOfPanel
<1>3. WrittenSoFar' /\ SaidIsWritten'
  BY DEF FormConsistent, WrittenSoFar, SaidIsWritten, Granted
<1> QED BY <1>1, <1>2, <1>3 DEF FormConsistent

LEMMA OpensPanelConsistent ==
  ASSUME FormConsistent, OpensPanel
  PROVE  FormConsistent'
<1>1. /\ panel = 0 /\ panels' = panels + 1 /\ panel' = panels' /\ form' = loaded /\ saving' = FALSE /\ said' = ""
      /\ pressed' = NotSaved /\ overtaken' = FALSE /\ panels < MaxPanels
      /\ UNCHANGED <<isAdmin, row, loaded, reads, lookups, submitted, edits, savesMade, foreign>>
  BY DEF OpensPanel
<1>2. FormTypeOK
  BY DEF FormConsistent
<1>3. MaxPanels \in Nat /\ panels \in Nat /\ panels' = panels + 1 /\ panels < MaxPanels
  <2>1. MaxPanels \in Nat /\ panels \in Nat
    BY <1>2, FormNumbers
  <2> QED BY <1>1, <2>1
<1>4. /\ panels' \in 0..MaxPanels /\ panels' # 0
      /\ \A n \in Nat : n <= panels => n <= panels' /\ n # panels'
  BY <1>3
<1>5. loaded \in AccountRow
  BY <1>2, FormTypes
<1>6. FormTypeOK'
  BY <1>1, <1>2, <1>4 DEF FormTypeOK
<1>7. \A s \in submitted : s.panel <= panels /\ s.panel # panel'
  <2> SUFFICES ASSUME NEW s \in submitted PROVE s.panel <= panels /\ s.panel # panel'
    OBVIOUS
  <2>1. s.panel \in Nat
    BY <1>2, FormSaveFields
  <2>2. s.panel <= panels
    BY DEF FormConsistent, PanelsInTurn
  <2> QED BY <1>1, <1>4, <2>1, <2>2
<1>8. PanelsInTurn'
  <2>1. \A s \in submitted : s.panel <= panels'
    <3> SUFFICES ASSUME NEW s \in submitted PROVE s.panel <= panels'
      OBVIOUS
    <3>1. s.panel \in Nat
      BY <1>2, FormSaveFields
    <3> QED BY <1>7, <1>4, <3>1
  <2>2. form' \in AccountRow /\ panel' # 0
    BY <1>1, <1>4, <1>5
  <2> QED BY <1>1, <2>1, <2>2 DEF PanelsInTurn
<1>9. OneSaveOfPanel' /\ WrittenSoFar' /\ SaidIsWritten'
  BY <1>1, <1>7 DEF OneSaveOfPanel, WrittenSoFar, SaidIsWritten
<1> QED BY <1>6, <1>8, <1>9 DEF FormConsistent

LEMMA ClosesPanelConsistent ==
  ASSUME FormConsistent, ClosesPanel
  PROVE  FormConsistent'
<1>1. /\ panel' = 0 /\ form' = NotSaved /\ lookups' = {} /\ saving' = FALSE /\ said' = "" /\ pressed' = NotSaved
      /\ overtaken' = FALSE
      /\ UNCHANGED <<isAdmin, row, loaded, reads, submitted, panels, edits, savesMade, foreign>>
  BY DEF ClosesPanel, counters
<1>2. FormTypeOK
  BY DEF FormConsistent
<1>3. FormTypeOK'
  <2>1. panel' \in 0..MaxPanels
    <3>1. MaxPanels \in Nat
      BY <1>2, FormNumbers
    <3>2. panel' = 0
      BY <1>1
    <3> QED BY <3>1, <3>2
  <2> QED BY <1>1, <1>2, <2>1 DEF FormTypeOK
<1>4. \A s \in submitted : s.panel # panel'
  BY <1>1, <1>2, FormTypes, FormSaveFields
<1>5. PanelsInTurn'
  BY <1>1 DEF FormConsistent, PanelsInTurn
<1>6. OneSaveOfPanel' /\ WrittenSoFar' /\ SaidIsWritten'
  BY <1>1, <1>4 DEF OneSaveOfPanel, WrittenSoFar, SaidIsWritten
<1> QED BY <1>3, <1>5, <1>6 DEF FormConsistent

\* The user's edits and lookups.
LEMMA EditsConsistent ==
  ASSUME FormConsistent, Edits,
         \/ \E s \in Settings : EditsSetting(s)
         \/ \E u \in AllUsers : RemoveUser(u) \/ AsksLookup(u)
  PROVE  FormConsistent'
<1>1. /\ panel # 0 /\ edits < MaxEdits /\ edits' = edits + 1
      /\ UNCHANGED <<isAdmin, row, loaded, reads, panel, saving, said, submitted, pressed, overtaken,
                     panels, savesMade, foreign>>
  BY DEF Edits
<1>2. FormTypeOK /\ form \in AccountRow
  BY <1>1 DEF FormConsistent, PanelsInTurn
<1>3. form' \in AccountRow /\ lookups' \subseteq Lookups
  <2>1. ASSUME NEW s \in Settings, EditsSetting(s) PROVE form' \in AccountRow /\ lookups' \subseteq Lookups
    BY <1>2, <2>1, FormTypes, FormNumbers, RowChanges DEF EditsSetting
  <2>2. ASSUME NEW u \in AllUsers, RemoveUser(u) PROVE form' \in AccountRow /\ lookups' \subseteq Lookups
    <3>1. form.users \ {u} \in SUBSET AllUsers
      BY <1>2, RowChanges
    <3> QED BY <1>2, <2>2, <3>1, FormTypes, FormNumbers, RowChanges DEF RemoveUser
  <2>3. ASSUME NEW u \in AllUsers, AsksLookup(u) PROVE form' \in AccountRow /\ lookups' \subseteq Lookups
    <3>1. [user |-> u, new |-> u \notin form.users, shown |-> TRUE, found |-> FALSE] \in Lookups
      BY DEF Lookups
    <3> QED BY <1>2, <2>3, <3>1, FormTypes, FormNumbers DEF AsksLookup
  <2> QED BY <2>1, <2>2, <2>3
<1>4. FormTypeOK'
  <2>1. edits' \in 0..MaxEdits
    BY <1>1, <1>2, FormTypes, FormNumbers
  <2> QED BY <1>1, <1>2, <1>3, <2>1 DEF FormTypeOK, Lookups
<1> QED BY <1>1, <1>3, <1>4, FormAside

LEMMA LookupsConsistent ==
  ASSUME FormConsistent, LeavesInput \/ \E l \in lookups : UserFound(l) \/ LookupAnswered(l) \/ LookupFails(l)
  PROVE  FormConsistent'
<1>1. /\ lookups # {}
      /\ UNCHANGED <<isAdmin, row, loaded, reads, panel, saving, said, submitted, pressed, overtaken,
                     panels, edits, savesMade, foreign>>
  BY DEF LeavesInput, UserFound, LookupAnswered, LookupFails, counters
<1>2. FormTypeOK /\ panel # 0 /\ form \in AccountRow
  BY <1>1 DEF FormConsistent, PanelsInTurn
<1>3. lookups \subseteq Lookups
  BY <1>2, FormTypes, FormNumbers
<1>4. form' \in AccountRow /\ lookups' \subseteq Lookups
  <2>1. CASE LeavesInput
    <3>1. \A l \in lookups : [l EXCEPT !.shown = FALSE] \in Lookups
      BY <1>3 DEF Lookups
    <3> QED BY <1>2, <2>1, <3>1 DEF LeavesInput
  <2>2. ASSUME NEW l \in lookups, UserFound(l) PROVE form' \in AccountRow /\ lookups' \subseteq Lookups
    <3>1. [l EXCEPT !.found = TRUE] \in Lookups
      BY <1>3 DEF Lookups
    <3> QED BY <1>2, <1>3, <2>2, <3>1 DEF UserFound
  <2>3. ASSUME NEW l \in lookups, LookupAnswered(l) PROVE form' \in AccountRow /\ lookups' \subseteq Lookups
    <3>1. l.user \in AllUsers
      BY <1>3 DEF Lookups
    <3>2. form.users \union {l.user} \in SUBSET AllUsers
      BY <1>2, <3>1, RowChanges
    <3> QED BY <1>2, <1>3, <2>3, <3>2, RowChanges DEF LookupAnswered
  <2>4. ASSUME NEW l \in lookups, LookupFails(l) PROVE form' \in AccountRow /\ lookups' \subseteq Lookups
    BY <1>2, <1>3, <2>4 DEF LookupFails
  <2> QED BY <2>1, <2>2, <2>3, <2>4
<1>5. FormTypeOK'
  BY <1>1, <1>2, <1>4 DEF FormTypeOK, Lookups
<1> QED BY <1>1, <1>2, <1>4, <1>5, FormAside

LEMMA ReadingsConsistent ==
  ASSUME FormConsistent, AccountRead \/ \E r \in reads : AccountShown(r)
  PROVE  FormConsistent'
<1>1. UNCHANGED <<isAdmin, row, panel, form, lookups, saving, said, submitted, pressed, overtaken,
                  panels, edits, savesMade, foreign>>
  BY DEF AccountRead, AccountShown, counters
<1>2. FormTypeOK
  BY DEF FormConsistent
<1>3. reads' \subseteq AccountRow \union {Asked} /\ loaded' \in AccountRow
  <2>1. CASE AccountRead
    BY <1>2, <2>1, FormTypes, FormNumbers DEF AccountRead
  <2>2. ASSUME NEW r \in reads, AccountShown(r) PROVE reads' \subseteq AccountRow \union {Asked} /\ loaded' \in AccountRow
    BY <1>2, <2>2, FormTypes, FormNumbers DEF AccountShown
  <2> QED BY <2>1, <2>2
<1>4. FormTypeOK'
  BY <1>1, <1>2, <1>3 DEF FormTypeOK
<1>5. (panel # 0 => form' \in AccountRow) /\ (panel = 0 => lookups' = {})
  BY <1>1 DEF FormConsistent, PanelsInTurn
<1> QED BY <1>1, <1>4, <1>5, FormAside

-----------------------------------------------------------------------------
LEMMA SaveSettingsConsistent ==
  ASSUME FormConsistent, SaveSettings
  PROVE  FormConsistent'
<1>1. /\ panel # 0 /\ ~saving /\ savesMade < MaxSaves /\ savesMade' = savesMade + 1
      /\ saving' = TRUE /\ said' = "" /\ pressed' = form /\ overtaken' = FALSE
      /\ UNCHANGED <<isAdmin, row, loaded, reads, panel, form, lookups, panels, edits, foreign>>
  BY DEF SaveSettings
<1>2. FormTypeOK /\ form \in AccountRow /\ panel = panels
  BY <1>1 DEF FormConsistent, PanelsInTurn
<1>3. savesMade' \in 1..MaxSaves /\ savesMade' \in 0..MaxSaves /\ panel \in 1..MaxPanels /\ panel <= panels
  <2>1. /\ savesMade \in Nat /\ MaxSaves \in Nat /\ panel \in Nat /\ panel <= MaxPanels /\ MaxPanels \in Nat
        /\ panels \in Nat
    BY <1>2, FormNumbers
  <2>2. savesMade < MaxSaves /\ savesMade' = savesMade + 1 /\ panel # 0 /\ panel = panels
    BY <1>1, <1>2
  <2> QED BY <2>1, <2>2
<1>4. PICK s \in Submitted : /\ submitted' = submitted \union {s}
                             /\ s.panel = panel /\ s.what = form /\ s.at = "patch"
  <2> DEFINE s == [n |-> savesMade', panel |-> panel, what |-> form, at |-> "patch"]
  <2>1. s \in Submitted
    BY <1>2, <1>3 DEF Submitted
  <2>2. submitted' = submitted \union {s}
    BY DEF SaveSettings
  <2> QED BY <2>1, <2>2
<1>5. FormTypeOK'
  BY <1>1, <1>2, <1>3, <1>4 DEF FormTypeOK, Submitted
<1>6. \A q \in submitted : q.panel # panel
  BY <1>1 DEF FormConsistent, OneSaveOfPanel
<1>7. PanelsInTurn'
  BY <1>1, <1>2, <1>3, <1>4 DEF FormConsistent, PanelsInTurn
<1>8. OneSaveOfPanel' /\ WrittenSoFar'
  BY <1>1, <1>4, <1>6 DEF OneSaveOfPanel, WrittenSoFar
<1>9. SaidIsWritten'
  BY <1>1 DEF SaidIsWritten
<1> QED BY <1>5, <1>7, <1>8, <1>9 DEF FormConsistent

\* A save that goes on, with what it writes: it or a save of a closed panel.
LEMMA GoneOnConsistent ==
  ASSUME FormConsistent, NEW s \in submitted, NEW place \in {"put", "allowed", "done"}, GoesOnTo(s, place),
         row' \in AccountRow, overtaken' \in BOOLEAN,
         overtaken => overtaken',
         row' # row => overtaken' \/ panel = 0 \/ s.panel = panel,
         ~overtaken' /\ s.panel = panel =>
           row'.setting = s.what.setting /\ (place = "done" => row'.users = Granted(s.what)),
         UNCHANGED <<isAdmin, loaded, reads, panel, form, lookups, saving, said, pressed, counters>>
  PROVE  FormConsistent'
<1>1. UNCHANGED <<isAdmin, loaded, reads, panel, form, lookups, saving, said, pressed, panels, edits, savesMade, foreign>>
  BY DEF counters
<1>2. FormTypeOK
  BY DEF FormConsistent
<1>3. PICK t \in Submitted : /\ submitted' = (submitted \ {s}) \union {t}
                             /\ t.panel = s.panel /\ t.what = s.what /\ t.at = place
  <2> DEFINE t == [s EXCEPT !.at = place]
  <2>1. s \in Submitted
    BY <1>2, FormTypes, FormNumbers
  <2>2. t \in Submitted /\ t.panel = s.panel /\ t.what = s.what /\ t.at = place
    BY <2>1 DEF Submitted
  <2>3. submitted' = (submitted \ {s}) \union {t}
    BY DEF GoesOnTo
  <2> QED BY <2>2, <2>3
<1>4. FormTypeOK'
  BY <1>1, <1>2, <1>3 DEF FormTypeOK, Submitted
<1>5. PanelsInTurn'
  BY <1>1, <1>3 DEF FormConsistent, PanelsInTurn
<1>6. OneSaveOfPanel'
  <2> SUFFICES ASSUME NEW q \in submitted', q.panel = panel'
               PROVE  /\ saving' /\ said' = "" /\ q.what = pressed'
                      /\ \A p \in submitted' : p.panel = panel' => p = q
    BY DEF OneSaveOfPanel
  <2>1. ASSUME NEW p \in submitted, p.panel = panel
        PROVE  /\ saving /\ said = "" /\ p.what = pressed
               /\ \A r \in submitted : r.panel = panel => r = p
    BY <2>1 DEF FormConsistent, OneSaveOfPanel
  <2>2. CASE q = t
    <3>1. s.panel = panel /\ q.what = s.what
      BY <1>1, <1>3, <2>2
    <3>2. /\ saving /\ said = "" /\ s.what = pressed
          /\ \A r \in submitted : r.panel = panel => r = s
      BY <2>1, <3>1
    <3>3. \A p \in submitted' : p.panel = panel => p = q
      BY <1>3, <2>2, <3>2
    <3>4. saving' /\ said' = "" /\ q.what = pressed' /\ panel' = panel
      <4>1. (saving' <=> saving) /\ said' = said /\ pressed' = pressed /\ panel' = panel
        BY <1>1
      <4>2. saving'
        BY <3>2, <4>1, Zenon
      <4> QED BY <3>1, <3>2, <4>1, <4>2
    <3> QED BY <3>3, <3>4
  <2>3. CASE q # t
    <3>1. q \in submitted /\ q # s /\ q.panel = panel
      BY <1>1, <1>3, <2>3
    <3>2. /\ saving /\ said = "" /\ q.what = pressed
          /\ \A r \in submitted : r.panel = panel => r = q
      BY <2>1, <3>1
    <3>3. s.panel # panel
      BY <3>1, <3>2
    <3>4. \A p \in submitted' : p.panel = panel => p = q
      BY <1>3, <3>2, <3>3
    <3>5. saving' /\ said' = "" /\ q.what = pressed' /\ panel' = panel
      <4>1. (saving' <=> saving) /\ said' = said /\ pressed' = pressed /\ panel' = panel
        BY <1>1
      <4>2. saving'
        BY <3>2, <4>1, Zenon
      <4> QED BY <3>2, <4>1, <4>2
    <3> QED BY <3>4, <3>5
  <2> QED BY <2>2, <2>3
<1>7. WrittenSoFar'
  <2> SUFFICES ASSUME ~overtaken', NEW q \in submitted', q.panel = panel'
               PROVE  /\ q.at # "patch" => row'.setting = q.what.setting
                      /\ q.at = "done" => row'.users = Granted(q.what)'
    BY DEF WrittenSoFar
  <2>1. \A w : Granted(w)' = Granted(w)
    BY <1>1 DEF Granted
  <2>2. CASE q = t
    BY <1>1, <1>3, <2>1, <2>2
  <2>3. CASE q # t
    <3>1. q \in submitted /\ q # s /\ q.panel = panel
      BY <1>1, <1>3, <2>3
    <3>2. row' = row
      <4>1. s.panel # panel
        BY <3>1 DEF FormConsistent, OneSaveOfPanel
      <4>2. panel # 0
        BY <1>2, <3>1, FormTypes, FormSaveFields
      <4> QED BY <4>1, <4>2
    <3> QED BY <2>1, <3>1, <3>2 DEF FormConsistent, WrittenSoFar
  <2> QED BY <2>2, <2>3
<1>8. SaidIsWritten'
  <2> SUFFICES ASSUME panel # 0, said = "saved", ~overtaken'
               PROVE  row'.setting = pressed.setting /\ row'.users = Granted(pressed)
    BY <1>1 DEF SaidIsWritten, Granted
  <2>1. s.panel # panel
    BY DEF FormConsistent, OneSaveOfPanel
  <2>2. row' = row
    BY <2>1
  <2> QED BY <2>2 DEF FormConsistent, SaidIsWritten
<1> QED BY <1>4, <1>5, <1>6, <1>7, <1>8 DEF FormConsistent

LEMMA SavesGoOnConsistent ==
  ASSUME FormConsistent, NEW s \in submitted, Patched(s) \/ Allowed(s) \/ AssignmentsSet(s)
  PROVE  FormConsistent'
<1>1. FormTypeOK
  BY DEF FormConsistent
<1>2. row \in AccountRow /\ s.what \in AccountRow /\ s.panel # 0 /\ overtaken \in BOOLEAN
  BY <1>1, FormTypes, FormSaveFields DEF FormTypeOK
<1>3. CASE Patched(s)
  <2>1. row' \in AccountRow /\ row'.setting = s.what.setting
    BY <1>2, <1>3, RowChanges DEF Patched
  <2>2. overtaken' = (overtaken \/ (panel # 0 /\ s.panel # panel))
    BY <1>3 DEF Patched, Overtakes
  <2>3. GoesOnTo(s, "put") /\ UNCHANGED <<isAdmin, loaded, reads, panel, form, lookups, saving, said, pressed, counters>>
    BY <1>3 DEF Patched
  <2> QED BY <1>2, <2>1, <2>2, <2>3, GoneOnConsistent
<1>4. CASE Allowed(s)
  <2>1. row' = row /\ overtaken' = overtaken /\ s.at = "put" /\ GoesOnTo(s, "allowed")
        /\ UNCHANGED <<isAdmin, loaded, reads, panel, form, lookups, saving, said, pressed, counters>>
    BY <1>4 DEF Allowed
  <2>2. ~overtaken /\ s.panel = panel => row.setting = s.what.setting
    BY <2>1 DEF FormConsistent, WrittenSoFar
  <2> QED BY <1>2, <2>1, <2>2, GoneOnConsistent
<1>5. CASE AssignmentsSet(s)
  <2>1. s.at = "allowed" /\ GoesOnTo(s, "done") /\ row' = [row EXCEPT !.users = Granted(s.what)]
        /\ UNCHANGED <<isAdmin, loaded, reads, panel, form, lookups, saving, said, pressed, counters>>
    BY <1>5 DEF AssignmentsSet, Granted
  <2>2. Granted(s.what) \in SUBSET AllUsers
    BY <1>2, RowChanges DEF Granted, AllUsers
  <2>3. row' \in AccountRow /\ row'.users = Granted(s.what) /\ row'.setting = row.setting
    BY <1>2, <2>1, <2>2, RowChanges
  <2>4. overtaken' = (overtaken \/ (panel # 0 /\ s.panel # panel))
    BY <1>5 DEF AssignmentsSet, Overtakes
  <2>5. ~overtaken /\ s.panel = panel => row.setting = s.what.setting
    BY <2>1 DEF FormConsistent, WrittenSoFar
  <2> QED BY <1>2, <2>1, <2>3, <2>4, <2>5, GoneOnConsistent
<1> QED BY <1>3, <1>4, <1>5

LEMMA SaveEndsConsistent ==
  ASSUME FormConsistent, NEW s \in submitted, SaveAnswered(s) \/ SaveFails(s)
  PROVE  FormConsistent'
<1>1. /\ submitted' = submitted \ {s} /\ saving' = (saving /\ s.panel # panel)
      /\ reads' \subseteq reads \union {Asked}
      /\ s.panel # panel => said' = said
      /\ s.panel = panel => said' = "error" \/ (said' = "saved" /\ s.at = "done")
      /\ UNCHANGED <<isAdmin, row, loaded, panel, form, lookups, pressed, overtaken, panels, edits, savesMade, foreign>>
  BY DEF SaveAnswered, SaveFails, counters
<1>2. FormTypeOK
  BY DEF FormConsistent
<1>3. FormTypeOK'
  BY <1>1, <1>2 DEF FormTypeOK
<1>4. PanelsInTurn'
  BY <1>1 DEF FormConsistent, PanelsInTurn
<1>5. OneSaveOfPanel' /\ WrittenSoFar'
  BY <1>1 DEF FormConsistent, OneSaveOfPanel, WrittenSoFar, Granted
<1>6. SaidIsWritten'
  <2>1. CASE s.panel = panel
    BY <1>1, <2>1 DEF FormConsistent, OneSaveOfPanel, WrittenSoFar, SaidIsWritten, Granted
  <2>2. CASE s.panel # panel
    BY <1>1, <2>2 DEF FormConsistent, SaidIsWritten, Granted
  <2> QED BY <2>1, <2>2
<1> QED BY <1>3, <1>4, <1>5, <1>6 DEF FormConsistent

LEMMA OtherUserWritesConsistent ==
  ASSUME FormConsistent, OtherUserWrites
  PROVE  FormConsistent'
<1>1. /\ foreign' = foreign + 1 /\ foreign < MaxForeign /\ overtaken' = (panel # 0)
      /\ UNCHANGED <<isAdmin, loaded, reads, panel, form, lookups, saving, said, submitted, pressed,
                     panels, edits, savesMade>>
  BY DEF OtherUserWrites
<1>2. FormTypeOK
  BY DEF FormConsistent
<1>3. row' \in AccountRow
  <2>1. row \in AccountRow
    BY <1>2, FormTypes, FormNumbers
  <2>2. \/ \E s \in Settings : row' = [row EXCEPT !.setting = s]
        \/ \E S \in SUBSET AllUsers : row' = [row EXCEPT !.users = S]
    BY DEF OtherUserWrites
  <2> QED BY <2>1, <2>2, RowChanges
<1>4. FormTypeOK'
  <2>1. foreign' \in 0..MaxForeign
    BY <1>1, <1>2, FormTypes, FormNumbers
  <2> QED BY <1>1, <1>2, <1>3, <2>1 DEF FormTypeOK
<1>5. PanelsInTurn' /\ OneSaveOfPanel'
  BY <1>1 DEF FormConsistent, PanelsInTurn, OneSaveOfPanel
<1>6. WrittenSoFar' /\ SaidIsWritten'
  <2>1. CASE panel # 0
    BY <1>1, <2>1 DEF WrittenSoFar, SaidIsWritten
  <2>2. CASE panel = 0
    <3>1. \A s \in submitted : s.panel # panel
      BY <1>2, <2>2, FormTypes, FormSaveFields
    <3> QED BY <1>1, <2>2, <3>1 DEF WrittenSoFar, SaidIsWritten
  <2> QED BY <2>1, <2>2
<1> QED BY <1>4, <1>5, <1>6 DEF FormConsistent

\* The form keeps the invariant.
LEMMA FormStep ==
  ASSUME FormConsistent, [FormNext]_formVars
  PROVE  FormConsistent'
<1>1. ASSUME \/ \E s \in Settings : EditsSetting(s)
             \/ \E u \in AllUsers : RemoveUser(u) \/ AsksLookup(u)
      PROVE  FormConsistent'
  <2>1. Edits
    BY <1>1 DEF EditsSetting, RemoveUser, AsksLookup
  <2> QED BY <1>1, <2>1, EditsConsistent
<1>2. CASE UNCHANGED formVars
  BY <1>2 DEF formVars, counters, FormConsistent, FormTypeOK, PanelsInTurn, OneSaveOfPanel, WrittenSoFar, SaidIsWritten,
     Granted
<1> QED BY <1>1, <1>2, OpensPanelConsistent, ClosesPanelConsistent, LookupsConsistent, ReadingsConsistent,
       SaveSettingsConsistent, SavesGoOnConsistent, SaveEndsConsistent, OtherUserWritesConsistent DEF FormNext

\* A creator stays, but for another user's write.
LEMMA CreatorStays ==
  ASSUME FormConsistent, [FormNext]_formVars, ~isAdmin, Me \in row.users, foreign' = foreign
  PROVE  Me \in row'.users
<1>1. row \in AccountRow /\ \A s \in submitted : s.what \in AccountRow
  BY FormTypes, FormSaveFields DEF FormConsistent
<1>2. ~OtherUserWrites
  BY FormTypes, FormNumbers DEF FormConsistent, OtherUserWrites
<1>3. ASSUME NEW s \in submitted, Patched(s) PROVE Me \in row'.users
  BY <1>1, <1>3, RowChanges DEF Patched
<1>4. ASSUME NEW s \in submitted, AssignmentsSet(s) PROVE Me \in row'.users
  BY <1>1, <1>4 DEF AssignmentsSet, AccountRow
<1>5. CASE row' = row
  BY <1>5
<1>6. ASSUME FormNext, row' # row PROVE \E s \in submitted : Patched(s) \/ AssignmentsSet(s)
  BY <1>2, <1>6 DEF FormNext, OpensPanel, ClosesPanel, LeavesInput, SaveSettings, AccountRead, EditsSetting, Edits, RemoveUser,
     AsksLookup, UserFound, LookupAnswered, LookupFails, Allowed, SaveAnswered, SaveFails, AccountShown
<1> QED BY <1>3, <1>4, <1>5, <1>6 DEF formVars

-----------------------------------------------------------------------------
(***************************************************************************)
(* The users: the list shown follows the rows as far as nobody waits for   *)
(* more, and the name in the field is traced to who put it there.          *)
(***************************************************************************)

\* Clicks are numbered in turn, and each changes the rows once at most.
Sent == {c \in Clicks : clicks[c].at = "sent"}
InTurn ==
  /\ \A c \in Clicks : c > clicked => clicks[c].at = "unused"
  /\ changes + Cardinality(Sent) <= clicked

\* What is numbered by changes.
Numbered ==
  /\ \A c \in Clicks : clicks[c].since <= changes
  /\ \A c \in Clicks : clicks[c].at \in {"unused", "sent"} => clicks[c].since = 0
  /\ \A c \in Clicks : clicks[c].at \in {"done", "answered"} => clicks[c].since # 0
  /\ \A f \in Fetches : fetches[f].holds <= changes
  /\ known <= changes

\* The kinds of clicks.
ClickKinds ==
  \A c \in Clicks : /\ clicks[c].does = "name" => clicks[c].of = Field
                    /\ clicks[c].does = "create" => clicks[c].of # Field
                    /\ clicks[c].does = "load" =>
                         clicks[c].since = 0 /\ clicks[c].at \notin {"sent", "done", "answered"}
                    /\ clicks[c].at \in {"answered", "reading"} => clicks[c].does \notin {"name", "restart"}
NameUnderWay(c) == clicks[c].does = "name" /\ clicks[c].at \in {"sent", "done"}
OneName == \A c, d \in Clicks : NameUnderWay(c) /\ NameUnderWay(d) => c = d

\* Readings that somebody waits for, or may join, are under way.
Open(f) == f \in Fetches /\ fetches[f].at \in {"asked", "read"}
ReadingsOpen ==
  /\ \A c \in Clicks : clicks[c].at = "reading" => Open(clicks[c].fetch)
  /\ shared # NoFetch => Open(shared)

\* A reading that may be joined is younger than what was answered.
SharedIsFresh ==
  \A c \in Clicks : clicks[c].at = "answered" /\ shared # NoFetch /\ fetches[shared].at = "read" =>
    fetches[shared].holds >= clicks[c].since

\* The click that changed a user last.
Changed(c) == clicks[c].since # 0 /\ clicks[c].does # "restart"
LastToChange(c) ==
  /\ Changed(c)
  /\ \A d \in Clicks : Changed(d) /\ clicks[d].of = clicks[c].of => clicks[d].since <= clicks[c].since
LastIs == \A c \in Clicks : Changed(c) => \E d \in Clicks : LastToChange(d) /\ clicks[d].of = clicks[c].of
LastNamed ==
  \A c \in Clicks : clicks[c].does = "name" /\ clicks[c].at = "done" /\ LastToChange(c) =>
    clicks[c].to = userRows[Field]

\* A list that was read is true of a user unless a later change was of that one.
ReadingsFollow ==
  \A f \in Fetches : fetches[f].at = "read" =>
    \A u \in Named : \/ fetches[f].rows[u] = userRows[u]
                     \/ \E c \in Clicks : LastToChange(c) /\ clicks[c].of = u /\ clicks[c].since > fetches[f].holds

\* A list without the user of the field is a late one.
GoneFor(another, at) ==
  another[Field] = Gone =>
    /\ userRows[Field] = Gone
    /\ \A c \in Clicks : clicks[c].does = "name" => clicks[c].since <= at
    /\ \A f \in Fetches : fetches[f].at = "read" /\ fetches[f].holds >= at => fetches[f].rows[Field] = Gone
GoneForGood ==
  /\ users # Unfetched => GoneFor(users, known)
  /\ \A f \in Fetches : fetches[f].at = "read" => GoneFor(fetches[f].rows, fetches[f].holds)

\* The list shown is true of a user unless a click that changed that one last
\* has not brought the news yet.
Pending(c) == clicks[c].at \in {"done", "answered", "reading"}
ListFollows ==
  /\ users = Unfetched => clicks[0].at = "reading" /\ known = 0 /\ \A c \in Clicks : clicks[c].does # "name"
  /\ users # Unfetched =>
       \A u \in Named : \/ users[u] = userRows[u]
                        \/ \E c \in Clicks : LastToChange(c) /\ clicks[c].of = u /\ Pending(c)
OverIsKnown == \A c \in Clicks : Changed(c) /\ clicks[c].at = "over" => clicks[c].since <= known

\* The name in a list of a certain age: the one typed last if a request with it
\* was carried out by then and is not answered yet, else the one all lists agree
\* on.
NamedBy(at) ==
  \E c \in Clicks : clicks[c].does = "name" /\ clicks[c].at = "done" /\ clicks[c].since <= at
NameAt(base, at) == IF NamedBy(at) THEN typed ELSE base
NamesFrom(base) ==
  /\ \A f \in Fetches :
       fetches[f].at = "read" /\ fetches[f].holds >= known /\ fetches[f].rows[Field] # Gone =>
         fetches[f].rows[Field].name = NameAt(base, fetches[f].holds)
  /\ userRows[Field] # Gone => userRows[Field].name = NameAt(base, changes)
  /\ Shows(Field) => users[Field].name = NameAt(base, known)
NameAsTyped == Shows(Field) => \A c \in Clicks : NameUnderWay(c) => clicks[c].to.name = typed

Excused == losses # 0 \/ outdated
TableConsistent ==
  /\ TableTypeOK /\ InTurn /\ Numbered /\ ClickKinds /\ OneName /\ ReadingsOpen /\ SharedIsFresh
  /\ ReloadsAfterwards /\ LastIs /\ LastNamed /\ ReadingsFollow /\ GoneForGood
  /\ ~Excused => /\ ListFollows /\ OverIsKnown /\ DraftKept /\ NameAsTyped
                 /\ \E base \in 0..MaxTyped : NamesFrom(base)

-----------------------------------------------------------------------------
LEMMA ClickFields ==
  ASSUME NEW k \in Click
  PROVE  /\ k.does \in {"load", "create", "toggle", "remove", "name", "restart"} /\ k.of \in Named
         /\ k.to \in Person /\ k.at \in {"unused", "sent", "done", "answered", "reading", "over"}
         /\ k.since \in Clicks /\ k.fetch \in {NoFetch} \union Fetches
BY DEF Click

LEMMA Numbers ==
  /\ Clicks \subseteq Nat /\ Fetches \subseteq Nat \ {0} /\ 0 \in Clicks /\ 1 \in Fetches /\ NoFetch \notin Fetches
  /\ MaxClicks \in Nat /\ Field \in Named /\ 0 \in 0..MaxTyped
BY UserTableAssumption DEF Clicks, Fetches, NoFetch

LEMMA SentFinite ==
  ASSUME NEW S \in SUBSET Clicks
  PROVE  IsFiniteSet(S) /\ Cardinality(S) \in Nat
<1>1. IsFiniteSet(Clicks)
  BY FS_Interval, UserTableAssumption DEF Clicks
<1> QED BY <1>1, FS_Subset, FS_CardinalityType

\* The list shown becomes another one.
LEMMA ListTypes ==
  ASSUME NEW another \in Table, users \in Table \union {Unfetched}, {field, typed} \subseteq 0..MaxTyped,
         ListBecomes(another)
  PROVE  users' \in Table /\ {field', typed'} \subseteq 0..MaxTyped
<1>1. another[Field] # Gone => another[Field].name \in 0..MaxTyped
  BY UserTableAssumption DEF Table, Person
<1> QED BY <1>1 DEF ListBecomes

\* What a change makes of the rows are rows.
LEMMA AlteredTypes ==
  ASSUME userRows \in Table, NEW k \in Click, k.does # "load",
         k.does \in {"toggle", "remove", "name"} => userRows[k.of] # Gone
  PROVE  /\ Altered(k) \in Table
         /\ \A u \in Named : u # k.of => Altered(k)[u] = userRows[u]
         /\ k.does = "restart" => Altered(k) = userRows
         /\ k.does \in {"create", "name", "toggle"} => Altered(k)[k.of] \in Person
         /\ k.does = "create" => Altered(k)[k.of] = k.to
         /\ k.does = "remove" => Altered(k)[k.of] = Gone
         /\ k.does = "name" => Altered(k)[k.of].name = k.to.name
         /\ k.does = "toggle" => Altered(k)[k.of].name = userRows[k.of].name
<1>1. k.of \in Named /\ k.to \in Person /\ k.does \in {"create", "toggle", "remove", "name", "restart"}
  BY ClickFields
<1>2. userRows[k.of] # Gone => userRows[k.of] \in Person
  BY <1>1 DEF Table
<1>3. CASE k.does = "create"
  BY <1>1, <1>3 DEF Altered, Table
<1>4. CASE k.does = "remove"
  BY <1>1, <1>4 DEF Altered, Table
<1>5. CASE k.does = "toggle"
  <2>1. Altered(k) = [userRows EXCEPT ![k.of] = [userRows[k.of] EXCEPT !.active = k.to.active]]
    BY <1>5 DEF Altered
  <2>2. /\ [userRows[k.of] EXCEPT !.active = k.to.active] \in Person
        /\ [userRows[k.of] EXCEPT !.active = k.to.active].name = userRows[k.of].name
    BY <1>1, <1>2, <1>5 DEF Person
  <2> QED BY <1>1, <1>5, <2>1, <2>2 DEF Table
<1>6. CASE k.does = "name"
  <2>1. Altered(k) = [userRows EXCEPT ![k.of] = [userRows[k.of] EXCEPT !.name = k.to.name]]
    BY <1>6 DEF Altered
  <2>2. /\ [userRows[k.of] EXCEPT !.name = k.to.name] \in Person
        /\ [userRows[k.of] EXCEPT !.name = k.to.name].name = k.to.name
    BY <1>1, <1>2, <1>6 DEF Person
  <2> QED BY <1>1, <1>6, <2>1, <2>2 DEF Table
<1>7. CASE k.does = "restart"
  BY <1>1, <1>7 DEF Altered
<1> QED BY <1>1, <1>3, <1>4, <1>5, <1>6, <1>7

-----------------------------------------------------------------------------
(* Steps in which clicks go on to wait for the next thing. *)

Structure == TableTypeOK /\ InTurn /\ Numbered /\ ClickKinds /\ OneName

GoesOn(c) ==
  /\ clicks'[c].does = clicks[c].does /\ clicks'[c].of = clicks[c].of
  /\ clicks'[c].to = clicks[c].to /\ clicks'[c].since = clicks[c].since
  /\ \/ clicks'[c].at = clicks[c].at
     \/ clicks[c].at \in {"sent", "done"} /\ clicks'[c].at = "over"
     \/ clicks[c].at = "done" /\ clicks'[c].at = "answered" /\ clicks[c].does \notin {"name", "restart"}
     \/ clicks[c].at = "answered" /\ clicks'[c].at = "reading"
     \/ clicks[c].at = "reading" /\ clicks'[c].at = "over"
AllGoOn == clicks' \in [Clicks -> Click] /\ \A c \in Clicks : GoesOn(c)

LEMMA GoOnStructure ==
  ASSUME Structure, AllGoOn, UNCHANGED <<changes, clicked>>, TableTypeOK',
         \A f \in Fetches : fetches'[f].holds <= changes, known' <= changes
  PROVE  Structure'
<1>1. Sent' \subseteq Sent /\ Sent \subseteq Clicks
  BY DEF AllGoOn, GoesOn, Sent
<1>2. InTurn'
  <2>1. \A c \in Clicks : c > clicked' => clicks'[c].at = "unused"
    BY DEF AllGoOn, GoesOn, Structure, InTurn
  <2>2. Cardinality(Sent') <= Cardinality(Sent)
    BY <1>1, SentFinite, FS_Subset
  <2>3. Cardinality(Sent') \in Nat /\ Cardinality(Sent) \in Nat /\ changes \in Nat /\ clicked \in Nat
    BY <1>1, SentFinite, Numbers DEF Structure, TableTypeOK
  <2> QED BY <2>1, <2>2, <2>3 DEF Structure, InTurn
<1>3. Numbered'
  BY DEF Structure, Numbered, AllGoOn, GoesOn
<1>4. ClickKinds'
  BY DEF Structure, ClickKinds, AllGoOn, GoesOn
<1>5. OneName'
  <2>1. \A c \in Clicks : NameUnderWay(c)' => NameUnderWay(c)
    BY DEF NameUnderWay, AllGoOn, GoesOn
  <2> QED BY <2>1 DEF Structure, OneName
<1> QED BY <1>2, <1>3, <1>4, <1>5 DEF Structure

\* Nothing happens to the readings, but that one is no longer joined.
LEMMA ReadingsKept ==
  ASSUME ReadingsOpen, SharedIsFresh, ReloadsAfterwards,
         fetches' = fetches, shared' \in {shared, NoFetch},
         \A c \in Clicks : clicks'[c].at = "reading" => clicks'[c] = clicks[c],
         \A c \in Clicks : clicks'[c].at = "answered" => clicks'[c] = clicks[c] \/ shared' = NoFetch
  PROVE  ReadingsOpen' /\ SharedIsFresh' /\ ReloadsAfterwards'
<1>1. ReadingsOpen'
  BY DEF ReadingsOpen, Open
<1>2. SharedIsFresh'
  BY DEF SharedIsFresh
<1>3. ReloadsAfterwards'
  BY DEF ReloadsAfterwards
<1> QED BY <1>1, <1>2, <1>3

\* No click changes anything, and no list is read.
ChangesStay ==
  /\ userRows' = userRows
  /\ \A c \in Clicks :
       /\ clicks'[c].since = clicks[c].since
       /\ clicks[c].since # 0 => clicks'[c].does = clicks[c].does /\ clicks'[c].of = clicks[c].of
       /\ clicks'[c].at = "done" => clicks'[c] = clicks[c]
  /\ \A f \in Fetches : fetches'[f].at = "read" => fetches'[f] = fetches[f]

LEMMA LastStays ==
  ASSUME ChangesStay, NEW c \in Clicks
  PROVE  /\ Changed(c)' <=> Changed(c)
         /\ LastToChange(c)' <=> LastToChange(c)
         /\ Changed(c) => clicks'[c].of = clicks[c].of
<1>1. \A d \in Clicks : (Changed(d)' <=> Changed(d)) /\ (Changed(d) => clicks'[d].of = clicks[d].of)
  BY DEF ChangesStay, Changed
<1> QED BY <1>1 DEF LastToChange, ChangesStay

LEMMA ChangesKept ==
  ASSUME LastIs, LastNamed, ReadingsFollow, ChangesStay, Numbered
  PROVE  LastIs' /\ LastNamed' /\ ReadingsFollow'
<1>1. LastIs'
  <2> SUFFICES ASSUME NEW c \in Clicks, Changed(c)'
               PROVE  \E d \in Clicks : LastToChange(d)' /\ clicks'[d].of = clicks'[c].of
    BY DEF LastIs
  <2>1. Changed(c) /\ clicks'[c].of = clicks[c].of
    BY LastStays
  <2>2. PICK d \in Clicks : LastToChange(d) /\ clicks[d].of = clicks[c].of
    BY <2>1 DEF LastIs
  <2>3. Changed(d)
    BY <2>2 DEF LastToChange
  <2> QED BY <2>1, <2>2, <2>3, LastStays
<1>2. LastNamed'
  BY LastStays DEF LastNamed, ChangesStay
<1>3. ReadingsFollow'
  BY LastStays DEF ReadingsFollow, ChangesStay, LastToChange
<1> QED BY <1>1, <1>2, <1>3

LEMMA GoneKept ==
  ASSUME ChangesStay, Numbered, NEW another, NEW at \in Nat, GoneFor(another, at)
  PROVE  GoneFor(another, at)'
BY DEF GoneFor, ChangesStay, Numbered

-----------------------------------------------------------------------------
(* What holds once requests have failed or older lists have overtaken newer. *)

Changes == LastIs /\ LastNamed /\ ReadingsFollow /\ GoneForGood
Waits == ReadingsOpen /\ SharedIsFresh /\ ReloadsAfterwards
Basis == Structure /\ Waits /\ Changes

LEMMA BasisOf == TableConsistent => Basis
BY DEF TableConsistent, Basis, Structure, Waits, Changes

\* The list shown stays, or only the row of the field changes, or it is a list that was read.
ListStays ==
  /\ known' \in Nat /\ known <= known'
  /\ \/ users' = users
     \/ users # Unfetched /\ users' # Unfetched /\ users'[Field] # Gone
LEMMA GoneForGoodKept ==
  ASSUME Basis, ChangesStay, ListStays
  PROVE  GoneForGood'
<1>1. \A f \in Fetches : fetches'[f].at = "read" => fetches'[f] = fetches[f] /\ fetches[f].at = "read"
  BY DEF ChangesStay
<1>2. \A f \in Fetches : fetches[f].holds \in Nat
  BY Numbers DEF Basis, Structure, TableTypeOK, Fetch
<1>3. ASSUME NEW f \in Fetches, fetches'[f].at = "read"
      PROVE  GoneFor(fetches[f].rows, fetches[f].holds)'
  <2>1. GoneFor(fetches[f].rows, fetches[f].holds)
    BY <1>1, <1>3 DEF Basis, Changes, GoneForGood
  <2>2. fetches'[f] = fetches[f]
    BY <1>1, <1>3
  <2> QED BY <1>2, <2>1, <2>2, GoneKept DEF Basis, Structure, GoneFor, ChangesStay, Numbered
<1>4. ASSUME users' # Unfetched PROVE GoneFor(users, known)'
  <2>1. CASE users'[Field] # Gone
    BY <2>1 DEF GoneFor
  <2>2. CASE users' = users /\ users[Field] = Gone
    <3>1. GoneFor(users, known)
      BY <1>4, <2>2 DEF Basis, Changes, GoneForGood
    <3>2. known \in Nat
      BY Numbers DEF Basis, Structure, TableTypeOK
    <3>3. userRows' = userRows /\ known <= known' /\ known' \in Nat /\ userRows[Field] = Gone
      BY <2>2, <3>1 DEF ChangesStay, ListStays, GoneFor
    <3>4. ASSUME NEW c \in Clicks, clicks'[c].does = "name" PROVE clicks'[c].since <= known'
      <4>1. clicks'[c].since = clicks[c].since /\ clicks[c].since \in Nat
        BY Numbers, ClickFields DEF ChangesStay, Basis, Structure, TableTypeOK
      <4>2. clicks[c].since # 0 => clicks[c].does = "name" /\ clicks[c].since <= known
        BY <2>2, <3>1, <3>4 DEF ChangesStay, GoneFor
      <4> QED BY <3>2, <3>3, <4>1, <4>2
    <3>5. ASSUME NEW f \in Fetches, fetches'[f].at = "read", fetches'[f].holds >= known'
          PROVE  fetches'[f].rows[Field] = Gone
      <4>1. fetches'[f] = fetches[f] /\ fetches[f].holds \in Nat
        BY <1>1, <1>2, <3>5
      <4>2. fetches[f].holds >= known
        BY <3>2, <3>3, <3>5, <4>1
      <4> QED BY <2>2, <3>1, <3>5, <4>1, <4>2 DEF GoneFor
    <3> QED BY <3>3, <3>4, <3>5 DEF GoneFor
  <2> QED BY <2>1, <2>2 DEF ListStays
<1> QED BY <1>3, <1>4 DEF GoneForGood

-----------------------------------------------------------------------------
\* The page is opened.
LEMMA TableInitConsistent == TableInit => TableConsistent
<1> SUFFICES ASSUME TableInit PROVE TableConsistent
  OBVIOUS
<1> DEFINE nobody == [active |-> TRUE, name |-> 0]
<1>1. nobody \in Person /\ nobody # Gone /\ nobody.name = 0
  <2>1. nobody \in Person
    BY Numbers DEF Person
  <2> QED BY <2>1, NobodyAssumption
<1>2. userRows \in Table /\ userRows[Field] = nobody
  BY <1>1, Numbers DEF TableInit, Table
<1>3. \A c \in Clicks :
        /\ clicks[c].does = "load" /\ clicks[c].of = Field /\ clicks[c].to = nobody
        /\ clicks[c].since = 0
        /\ c = 0 => clicks[c].at = "reading" /\ clicks[c].fetch = 1
        /\ c # 0 => clicks[c].at = "unused" /\ clicks[c].fetch = NoFetch
        /\ clicks[c] \in [does : {"load"}, of : {Field}, to : {nobody}, at : {"reading", "unused"},
                          since : {0}, fetch : {1, NoFetch}]
  <2>1. \A c \in Clicks : clicks[c] = [does |-> "load", of |-> Field, to |-> nobody,
          at |-> IF c = 0 THEN "reading" ELSE "unused", since |-> 0,
          fetch |-> IF c = 0 THEN 1 ELSE NoFetch]
    BY DEF TableInit
  <2> HIDE DEF nobody
  <2> TAKE c \in Clicks
  <2>2. CASE c = 0
    <3>1. clicks[c] = [does |-> "load", of |-> Field, to |-> nobody, at |-> "reading", since |-> 0, fetch |-> 1]
      BY <2>1, <2>2
    <3> QED BY <2>2, <3>1
  <2>3. CASE c # 0
    <3>1. clicks[c] = [does |-> "load", of |-> Field, to |-> nobody, at |-> "unused", since |-> 0, fetch |-> NoFetch]
      BY <2>1, <2>3
    <3> QED BY <2>3, <3>1
  <2> QED BY <2>2, <2>3
<1>4. \A f \in Fetches :
        /\ fetches[f].rows = userRows /\ fetches[f].holds = 0
        /\ f = 1 => fetches[f].at = "asked"
        /\ f # 1 => fetches[f].at = "unused"
        /\ fetches[f] \in [at : {"asked", "unused"}, rows : {userRows}, holds : {0}]
  <2>1. \A f \in Fetches : fetches[f] =
          [at |-> IF f = 1 THEN "asked" ELSE "unused", rows |-> userRows, holds |-> 0]
    BY DEF TableInit
  <2> TAKE f \in Fetches
  <2>2. CASE f = 1
    <3>1. fetches[f] = [at |-> "asked", rows |-> userRows, holds |-> 0]
      BY <2>1, <2>2
    <3> QED BY <2>2, <3>1
  <2>3. CASE f # 1
    <3>1. fetches[f] = [at |-> "unused", rows |-> userRows, holds |-> 0]
      BY <2>1, <2>3
    <3> QED BY <2>3, <3>1
  <2> QED BY <2>2, <2>3
<1> HIDE DEF nobody
<1>5. TableTypeOK
  <2>1. \A c \in Clicks : clicks[c] \in Click
    BY <1>1, <1>3, Numbers DEF Click
  <2>2. clicks \in [Clicks -> Click]
    BY <2>1 DEF TableInit
  <2>3. \A f \in Fetches : fetches[f] \in Fetch
    BY <1>2, <1>4, Numbers DEF Fetch
  <2>4. fetches \in [Fetches -> Fetch]
    BY <2>3 DEF TableInit
  <2>5. losses \in 0..MaxLosses
    BY UserTableAssumption DEF TableInit
  <2> QED BY <1>2, <2>2, <2>4, <2>5, Numbers DEF TableInit, TableTypeOK
<1>6. InTurn
  <2>1. Sent = {}
    <3>1. \A c \in Clicks : clicks[c].at # "sent"
      BY <1>3
    <3> QED BY <3>1 DEF Sent
  <2>2. Cardinality(Sent) = 0
    BY <2>1, FS_EmptySet
  <2>3. \A c \in Clicks : c > clicked => clicks[c].at = "unused"
    BY <1>3, Numbers DEF TableInit
  <2> QED BY <2>2, <2>3 DEF InTurn, TableInit
<1>7. Numbered /\ ClickKinds /\ OneName
  <2>1. changes = 0 /\ known = 0
    BY DEF TableInit
  <2>2. \A c \in Clicks : clicks[c].at \in {"reading", "unused"}
    BY <1>3
  <2>3. Numbered
    BY <1>3, <1>4, <2>1, <2>2 DEF Numbered
  <2> QED BY <1>3, <2>2, <2>3 DEF ClickKinds, OneName, NameUnderWay
<1>8. ReadingsOpen /\ SharedIsFresh /\ ReloadsAfterwards
  BY <1>3, <1>4, Numbers DEF ReadingsOpen, Open, SharedIsFresh, ReloadsAfterwards, TableInit
<1>9. LastIs /\ LastNamed /\ ReadingsFollow
  BY <1>3, <1>4 DEF LastIs, LastNamed, ReadingsFollow, Changed, LastToChange
<1>10. GoneForGood
  BY <1>4 DEF GoneForGood, TableInit
<1>11. ListFollows /\ OverIsKnown /\ DraftKept /\ NameAsTyped
  BY <1>3, Numbers DEF ListFollows, Pending, OverIsKnown, Changed, DraftKept, NameAsTyped, Shows, TableInit
<1>12. NamesFrom(0)
  <2>1. \A at \in Nat : NameAt(0, at) = 0
    <3>1. \A c \in Clicks : clicks[c].does # "name"
      BY <1>3
    <3> QED BY <3>1 DEF NameAt, NamedBy
  <2>2. userRows[Field].name = 0
    BY <1>1, <1>2
  <2>3. changes = 0 /\ users = Unfetched
    BY DEF TableInit
  <2> QED BY <1>4, <2>1, <2>2, <2>3 DEF NamesFrom, Shows
<1> QED BY <1>5, <1>6, <1>7, <1>8, <1>9, <1>10, <1>11, <1>12, Numbers DEF TableConsistent

-----------------------------------------------------------------------------
\* What holds without an excuse.
Told == ListFollows /\ OverIsKnown /\ DraftKept /\ NameAsTyped /\ \E base \in 0..MaxTyped : NamesFrom(base)

LEMMA ConsistentBy ==
  TableConsistent <=> Basis /\ (~Excused => Told)
BY DEF TableConsistent, Basis, Structure, Waits, Changes, Told

LEMMA TypesOf ==
  ASSUME Basis
  PROVE  /\ TableTypeOK /\ clicks \in [Clicks -> Click] /\ fetches \in [Fetches -> Fetch]
         /\ \A c \in Clicks : /\ clicks[c].since \in Nat /\ clicks[c].of \in Named /\ clicks[c].to \in Person
                              /\ clicks[c].at \in {"unused", "sent", "done", "answered", "reading", "over"}
         /\ \A f \in Fetches : fetches[f].holds \in Nat /\ fetches[f].rows \in Table
         /\ known \in Nat /\ changes \in Nat /\ clicked \in Nat
<1>1. TableTypeOK
  BY DEF Basis, Structure
<1>2. clicks \in [Clicks -> Click] /\ fetches \in [Fetches -> Fetch] /\ {known, changes} \subseteq Clicks /\ clicked \in Clicks
  BY <1>1 DEF TableTypeOK
<1>3. ASSUME NEW c \in Clicks
      PROVE  /\ clicks[c].since \in Nat /\ clicks[c].of \in Named /\ clicks[c].to \in Person
             /\ clicks[c].at \in {"unused", "sent", "done", "answered", "reading", "over"}
  BY <1>2, ClickFields, Numbers
<1>4. ASSUME NEW f \in Fetches PROVE fetches[f].holds \in Nat /\ fetches[f].rows \in Table
  BY <1>2, Numbers DEF Fetch
<1> QED BY <1>1, <1>2, <1>3, <1>4, Numbers

\* Where the list, the numbers and the draft stay, and no name is answered.
LEMMA ToldKept ==
  ASSUME Basis, Told, ~Excused, ChangesStay, UNCHANGED <<users, known, field, typed, changes>>,
         \A c \in Clicks : clicks[c].at = "done" => clicks'[c].at = "done",
         \A c \in Clicks : Pending(c) => Pending(c)',
         \A c \in Clicks : clicks[c].at = "reading" => clicks'[c].at = "reading",
         \A c \in Clicks : clicks'[c].at = "over" => clicks[c].at = "over" \/ clicks[c].since = 0,
         users = Unfetched => \A c \in Clicks : clicks'[c].does # "name",
         Shows(Field) => \A c \in Clicks : NameUnderWay(c)' => clicks'[c].to.name = typed
  PROVE  Told'
<1>1. ListFollows'
  <2>1. users' = Unfetched => clicks'[0].at = "reading" /\ known' = 0
    BY Numbers DEF Told, ListFollows
  <2>2. ASSUME users' # Unfetched, NEW u \in Named, users'[u] # userRows'[u]
        PROVE  \E c \in Clicks : LastToChange(c)' /\ clicks'[c].of = u /\ Pending(c)'
    <3>1. PICK c \in Clicks : LastToChange(c) /\ clicks[c].of = u /\ Pending(c)
      BY <2>2 DEF Told, ListFollows, ChangesStay
    <3>2. LastToChange(c)' /\ clicks'[c].of = u
      BY <3>1, LastStays DEF LastToChange
    <3> QED BY <3>1, <3>2
  <2> QED BY <2>1, <2>2 DEF ListFollows
<1>2. OverIsKnown'
  BY LastStays DEF Told, OverIsKnown, Changed, ChangesStay
<1>3. DraftKept'
  <2>1. Shows(Field)' => field = typed
    BY DEF Told, DraftKept, Shows, Excused
  <2> QED BY <2>1 DEF DraftKept
<1>4. NameAsTyped'
  BY DEF NameAsTyped, Shows
<1>5. PICK base \in 0..MaxTyped : NamesFrom(base)
  BY DEF Told
<1>6. NamesFrom(base)'
  <2>1. \A at : NamedBy(at)' <=> NamedBy(at)
    BY DEF NamedBy, ChangesStay
  <2>2. \A at : NameAt(base, at)' = NameAt(base, at)
    BY <2>1 DEF NameAt
  <2>3. ASSUME NEW f \in Fetches, fetches'[f].at = "read", fetches'[f].holds >= known', fetches'[f].rows[Field] # Gone
        PROVE  fetches'[f].rows[Field].name = NameAt(base, fetches[f].holds)'
    <3>1. fetches'[f] = fetches[f]
      BY <2>3 DEF ChangesStay
    <3>2. fetches[f].rows[Field].name = NameAt(base, fetches[f].holds)
      BY <1>5, <2>3, <3>1 DEF NamesFrom
    <3> QED BY <2>2, <3>1, <3>2 DEF NameAt, NamedBy
  <2>4. userRows'[Field] # Gone => userRows'[Field].name = NameAt(base, changes)'
    BY <1>5, <2>2 DEF NamesFrom, ChangesStay
  <2>5. Shows(Field)' => users'[Field].name = NameAt(base, known)'
    BY <1>5, <2>2 DEF NamesFrom, Shows
  <2> QED BY <2>3, <2>4, <2>5 DEF NamesFrom
<1> QED BY <1>1, <1>2, <1>3, <1>4, <1>6 DEF Told

-----------------------------------------------------------------------------
\* A button sends its request.
LEMMA SendsConsistent ==
  ASSUME TableConsistent,
         NEW does \in {"create", "toggle", "remove", "name", "restart"}, NEW u \in Named, NEW person \in Person,
         does = "create" => u # Field,
         does = "name" => u = Field /\ Shows(Field) /\ person.name = field /\ ~UnderWay("name", Field),
         Sends(does, u, person)
  PROVE  TableConsistent'
<1> DEFINE n == clicked + 1
           new == [does |-> does, of |-> u, to |-> person, at |-> "sent", since |-> 0, fetch |-> NoFetch]
<1>1. Basis /\ (~Excused => Told)
  BY ConsistentBy
<1>2. n \in Clicks /\ n # 0 /\ n > clicked /\ n \in Nat
  BY <1>1, TypesOf, Numbers DEF Sends, Clicks
<1>3. /\ clicked' = n /\ clicks' = [clicks EXCEPT ![n] = new] /\ shared' = NoFetch
      /\ UNCHANGED <<userRows, users, fetches, field, typed, known, changes, outdated, losses>>
  BY DEF Sends
<1>4. new \in Click /\ new.does = does /\ new.of = u /\ new.to = person /\ new.at = "sent" /\ new.since = 0
  BY Numbers DEF Click
<1> HIDE DEF n, new
<1>5. clicks[n].at = "unused" /\ clicks[n].since = 0
  BY <1>1, <1>2 DEF Basis, Structure, InTurn, Numbered
<1>6. clicks' \in [Clicks -> Click] /\ clicks'[n] = new /\ \A c \in Clicks : c # n => clicks'[c] = clicks[c]
  BY <1>1, <1>2, <1>3, <1>4, TypesOf
<1>7. Structure'
  <2>1. TableTypeOK'
    BY <1>1, <1>2, <1>3, <1>6, TypesOf DEF TableTypeOK
  <2>2. InTurn'
    <3>1. Sent' = Sent \union {n} /\ n \notin Sent
      BY <1>2, <1>4, <1>5, <1>6 DEF Sent
    <3>2. Cardinality(Sent') = Cardinality(Sent) + 1 /\ Cardinality(Sent) \in Nat
      BY <3>1, SentFinite, FS_AddElement DEF Sent
    <3>3. changes + Cardinality(Sent) <= clicked /\ changes' = changes
      BY <1>1, <1>3 DEF Basis, Structure, InTurn
    <3>4. changes' + Cardinality(Sent') <= clicked'
      BY <1>1, <1>3, <3>2, <3>3, TypesOf DEF n
    <3>5. ASSUME NEW c \in Clicks, c > clicked' PROVE clicks'[c].at = "unused"
      <4>1. c > clicked /\ c # n
        BY <1>1, <1>3, <3>5, TypesOf, Numbers DEF n
      <4> QED BY <1>1, <1>6, <4>1 DEF Basis, Structure, InTurn
    <3> QED BY <3>4, <3>5 DEF InTurn
  <2>3. Numbered'
    BY <1>1, <1>2, <1>3, <1>4, <1>6, TypesOf DEF Basis, Structure, Numbered
  <2>4. ClickKinds'
    BY <1>1, <1>4, <1>6 DEF Basis, Structure, ClickKinds
  <2>5. OneName'
    <3>1. does = "name" => \A c \in Clicks : ~NameUnderWay(c)
      BY <1>1 DEF UnderWay, NameUnderWay, Basis, Structure, ClickKinds
    <3>2. \A c \in Clicks : NameUnderWay(c)' => (c = n /\ does = "name") \/ (c # n /\ NameUnderWay(c))
      BY <1>4, <1>6 DEF NameUnderWay
    <3> QED BY <1>1, <3>1, <3>2 DEF Basis, Structure, OneName
  <2> QED BY <2>1, <2>2, <2>3, <2>4, <2>5 DEF Structure
<1>8. Waits'
  <2>1. \A c \in Clicks : clicks'[c].at = "reading" => clicks'[c] = clicks[c]
    BY <1>4, <1>6
  <2>2. \A c \in Clicks : clicks'[c].at = "answered" => clicks'[c] = clicks[c] \/ shared' = NoFetch
    BY <1>3
  <2> QED BY <1>1, <1>3, <2>1, <2>2, ReadingsKept DEF Basis, Waits
<1>9. ChangesStay
  BY <1>3, <1>4, <1>5, <1>6 DEF ChangesStay
<1>10. Changes'
  <2>1. ListStays
    BY <1>1, <1>3, TypesOf DEF ListStays
  <2> QED BY <1>1, <1>9, <2>1, ChangesKept, GoneForGoodKept DEF Basis, Changes, Structure
<1>11. ASSUME ~Excused' PROVE Told'
  <2>1. Told /\ ~Excused
    BY <1>1, <1>3, <1>11 DEF Excused
  <2>2. \A c \in Clicks : clicks[c].at = "done" => clicks'[c].at = "done"
    BY <1>5, <1>6
  <2>3. \A c \in Clicks : /\ Pending(c) => Pending(c)'
                          /\ clicks[c].at = "reading" => clicks'[c].at = "reading"
    BY <1>5, <1>6 DEF Pending
  <2>4. \A c \in Clicks : clicks'[c].at = "over" => clicks[c].at = "over" \/ clicks[c].since = 0
    BY <1>5, <1>6
  <2>5. users = Unfetched => \A c \in Clicks : clicks'[c].does # "name"
    BY <1>4, <1>6, <2>1 DEF Shows, Told, ListFollows
  <2>6. ASSUME Shows(Field), NEW c \in Clicks, NameUnderWay(c)' PROVE clicks'[c].to.name = typed
    <3>1. CASE c = n
      BY <1>4, <1>6, <2>1, <2>6, <3>1 DEF NameUnderWay, Told, DraftKept, Excused
    <3>2. CASE c # n
      BY <1>6, <2>1, <2>6, <3>2 DEF NameUnderWay, Told, NameAsTyped
    <3> QED BY <3>1, <3>2
  <2> QED BY <1>1, <1>3, <1>9, <2>1, <2>2, <2>3, <2>4, <2>5, <2>6, ToldKept
<1>12. Basis' /\ (~Excused' => Told')
  BY <1>7, <1>8, <1>10, <1>11 DEF Basis
<1> QED BY <1>12 DEF TableConsistent, Basis, Structure, Waits, Changes, Told

LEMMA ButtonConsistent ==
  ASSUME TableConsistent,
         NEW u \in Named, CreateUser(u) \/ ToggleStatus(u) \/ DeleteUser(u) \/ RestartAll \/ SaveName
  PROVE  TableConsistent'
<1> DEFINE nobody == [active |-> TRUE, name |-> 0]
<1>1. nobody \in Person
  BY Numbers DEF Person
<1>2. ASSUME NEW v \in Named, Shows(v)
      PROVE  /\ users[v] \in Person
             /\ [users[v] EXCEPT !.active = ~@] \in Person
             /\ [users[v] EXCEPT !.name = field] \in Person /\ [users[v] EXCEPT !.name = field].name = field
  <2>1. users \in Table /\ field \in 0..MaxTyped
    BY <1>2, ConsistentBy, TypesOf DEF TableTypeOK, Shows
  <2>2. users[v] \in Person
    BY <1>2, <2>1 DEF Table, Shows
  <2> QED BY <2>1, <2>2 DEF Person
<1> HIDE DEF nobody
<1>3. CASE CreateUser(u)
  <2>1. u # Field /\ Sends("create", u, nobody)
    BY <1>3 DEF CreateUser, nobody
  <2> QED BY <1>1, <2>1, SendsConsistent
<1>4. CASE ToggleStatus(u)
  BY <1>2, <1>4, SendsConsistent DEF ToggleStatus
<1>5. CASE DeleteUser(u)
  BY <1>2, <1>5, SendsConsistent DEF DeleteUser
<1>6. CASE RestartAll
  <2>1. Sends("restart", Field, nobody)
    BY <1>6 DEF RestartAll, nobody
  <2> QED BY <1>1, <2>1, Numbers, SendsConsistent
<1>7. CASE SaveName
  <2> DEFINE person == [users[Field] EXCEPT !.name = field]
  <2>1. Shows(Field) /\ ~UnderWay("name", Field) /\ Sends("name", Field, person)
    BY <1>7 DEF SaveName
  <2>2. person \in Person /\ person.name = field
    BY <1>2, <2>1, Numbers
  <2> HIDE DEF person
  <2> QED BY <2>1, <2>2, Numbers, SendsConsistent
<1> QED BY <1>3, <1>4, <1>5, <1>6, <1>7

\* The admin types.
LEMMA TypesNameConsistent ==
  ASSUME TableConsistent, TypesName
  PROVE  TableConsistent'
<1>1. Basis /\ (~Excused => Told)
  BY ConsistentBy
<1>2. /\ typed' = typed + 1 /\ field' = typed' /\ typed < MaxTyped /\ Shows(Field) /\ ~UnderWay("name", Field)
      /\ UNCHANGED <<userRows, users, clicks, clicked, fetches, shared, known, changes, outdated, losses>>
  BY DEF TypesName
<1>3. \A c \in Clicks : ~NameUnderWay(c)
  BY <1>1, <1>2 DEF UnderWay, NameUnderWay, Basis, Structure, ClickKinds
<1>4. Structure'
  <2>1. TableTypeOK'
    <3>1. typed \in 0..MaxTyped /\ MaxTyped \in Nat
      BY <1>1, TypesOf, UserTableAssumption DEF TableTypeOK
    <3>2. typed' \in 0..MaxTyped
      BY <1>2, <3>1
    <3> QED BY <1>1, <1>2, <3>2, TypesOf DEF TableTypeOK
  <2>2. InTurn' /\ Numbered' /\ ClickKinds' /\ OneName'
    BY <1>1, <1>2 DEF Basis, Structure, InTurn, Sent, Numbered, ClickKinds, OneName, NameUnderWay
  <2> QED BY <2>1, <2>2 DEF Structure
<1>5. Waits' /\ Changes'
  BY <1>1, <1>2 DEF Basis, Waits, Changes, ReadingsOpen, Open, SharedIsFresh, ReloadsAfterwards, LastIs, LastNamed,
     ReadingsFollow, LastToChange, Changed, GoneForGood, GoneFor
<1>6. ASSUME ~Excused' PROVE Told'
  <2>1. Told /\ ~Excused
    BY <1>1, <1>2, <1>6 DEF Excused
  <2>2. ListFollows' /\ OverIsKnown'
    BY <1>2, <2>1 DEF Told, ListFollows, OverIsKnown, Pending, LastToChange, Changed
  <2>3. DraftKept' /\ NameAsTyped'
    <3>1. \A c \in Clicks : ~NameUnderWay(c)'
      BY <1>2, <1>3 DEF NameUnderWay
    <3> QED BY <1>2, <3>1 DEF DraftKept, NameAsTyped
  <2>4. PICK base \in 0..MaxTyped : NamesFrom(base)
    BY <2>1 DEF Told
  <2>5. NamesFrom(base)'
    <3>1. \A at : ~NamedBy(at) /\ ~NamedBy(at)'
      BY <1>2, <1>3 DEF NamedBy, NameUnderWay
    <3>2. \A at : NameAt(base, at) = base /\ NameAt(base, at)' = base
      BY <3>1 DEF NameAt
    <3> QED BY <1>2, <2>4, <3>2 DEF NamesFrom, Shows, NameAt, NamedBy
  <2> QED BY <2>2, <2>3, <2>4, <2>5 DEF Told
<1>7. Basis' /\ (~Excused' => Told')
  BY <1>4, <1>5, <1>6 DEF Basis
<1> QED BY <1>7 DEF TableConsistent, Basis, Structure, Waits, Changes, Told

-----------------------------------------------------------------------------
\* A request fails.
LEMMA FailsConsistent ==
  ASSUME TableConsistent, NEW c \in Clicks, Refused(c) \/ AnswerLost(c)
  PROVE  TableConsistent'
<1>1. Basis /\ (~Excused => Told)
  BY ConsistentBy
<1>2. /\ clicks[c].at \in {"sent", "done"} /\ clicks' = [clicks EXCEPT ![c].at = "over"]
      /\ shared' \in {shared, NoFetch}
      /\ UNCHANGED <<userRows, users, clicked, fetches, field, typed, known, changes, outdated>>
      /\ \/ losses < MaxLosses /\ losses' = losses + 1
         \/ losses' = losses /\ clicks[c].at = "sent"
  BY DEF Refused, AnswerLost
<1>3. /\ clicks' \in [Clicks -> Click] /\ clicks'[c] = [clicks[c] EXCEPT !.at = "over"]
      /\ \A d \in Clicks : d # c => clicks'[d] = clicks[d]
  <2>1. [clicks[c] EXCEPT !.at = "over"] \in Click
    BY <1>1, TypesOf DEF Click
  <2> QED BY <1>1, <1>2, <2>1, TypesOf
<1>4. /\ clicks'[c].at = "over" /\ clicks'[c].does = clicks[c].does /\ clicks'[c].of = clicks[c].of
      /\ clicks'[c].to = clicks[c].to /\ clicks'[c].since = clicks[c].since
  BY <1>1, <1>3, TypesOf DEF Click
<1>5. Structure'
  <2>1. AllGoOn
    BY <1>2, <1>3, <1>4 DEF AllGoOn, GoesOn
  <2>2. losses' \in 0..MaxLosses
    BY <1>1, <1>2, TypesOf, UserTableAssumption DEF TableTypeOK
  <2>3. TableTypeOK'
    BY <1>1, <1>2, <1>3, <2>2, TypesOf DEF TableTypeOK
  <2>4. \A f \in Fetches : fetches'[f].holds <= changes
    BY <1>1, <1>2 DEF Basis, Structure, Numbered
  <2>5. known' <= changes
    BY <1>1, <1>2 DEF Basis, Structure, Numbered
  <2> QED BY <1>1, <1>2, <2>1, <2>3, <2>4, <2>5, GoOnStructure DEF Basis
<1>6. Waits'
  <2>1. \A d \in Clicks : clicks'[d].at \in {"reading", "answered"} => clicks'[d] = clicks[d]
    BY <1>3, <1>4
  <2> QED BY <1>1, <1>2, <2>1, ReadingsKept DEF Basis, Waits
<1>7. ChangesStay
  BY <1>2, <1>3, <1>4 DEF ChangesStay
<1>8. Changes'
  <2>1. ListStays
    BY <1>1, <1>2, TypesOf DEF ListStays
  <2> QED BY <1>1, <1>7, <2>1, ChangesKept, GoneForGoodKept DEF Basis, Changes, Structure
<1>9. ASSUME ~Excused' PROVE Told'
  <2>1. losses' = losses /\ clicks[c].at = "sent"
    BY <1>1, <1>2, <1>9, TypesOf DEF Excused, TableTypeOK
  <2>2. Told /\ ~Excused
    BY <1>1, <1>2, <1>9, <2>1 DEF Excused
  <2>3. clicks[c].since = 0
    BY <1>1, <2>1 DEF Basis, Structure, Numbered
  <2>4. \A d \in Clicks : clicks[d].at = "done" => clicks'[d].at = "done"
    BY <1>3, <2>1
  <2>5. \A d \in Clicks : /\ Pending(d) => Pending(d)'
                          /\ clicks[d].at = "reading" => clicks'[d].at = "reading"
    BY <1>3, <2>1 DEF Pending
  <2>6. \A d \in Clicks : clicks'[d].at = "over" => clicks[d].at = "over" \/ clicks[d].since = 0
    BY <1>3, <2>3
  <2>7. users = Unfetched => \A d \in Clicks : clicks'[d].does # "name"
    BY <1>3, <1>4, <2>2 DEF Told, ListFollows
  <2>8. Shows(Field) => \A d \in Clicks : NameUnderWay(d)' => clicks'[d].to.name = typed
    BY <1>3, <1>4, <2>2 DEF NameUnderWay, Told, NameAsTyped
  <2> QED BY <1>1, <1>2, <1>7, <2>2, <2>4, <2>5, <2>6, <2>7, <2>8, ToldKept
<1>10. Basis' /\ (~Excused' => Told')
  BY <1>5, <1>6, <1>8, <1>9 DEF Basis
<1> QED BY <1>10 DEF TableConsistent, Basis, Structure, Waits, Changes, Told

-----------------------------------------------------------------------------
\* A button reads the list again.
LEMMA ReadsListConsistent ==
  ASSUME TableConsistent, NEW c \in Clicks, ReadsList(c)
  PROVE  TableConsistent'
<1>1. Basis /\ (~Excused => Told)
  BY ConsistentBy
<1>2. PICK f \in Fetches :
        /\ \/ f = shared /\ fetches' = fetches
           \/ /\ shared = NoFetch /\ fetches[f].at = "unused"
              /\ fetches' = [fetches EXCEPT ![f].at = "asked"]
        /\ shared' = f
        /\ clicks' = [clicks EXCEPT ![c].at = "reading", ![c].fetch = f]
  BY DEF ReadsList
<1>3. /\ clicks[c].at = "answered"
      /\ UNCHANGED <<userRows, users, clicked, field, typed, known, changes, outdated, losses>>
  BY DEF ReadsList
<1>4. /\ clicks' \in [Clicks -> Click] /\ \A d \in Clicks : d # c => clicks'[d] = clicks[d]
      /\ clicks'[c].at = "reading" /\ clicks'[c].fetch = f
      /\ clicks'[c].does = clicks[c].does /\ clicks'[c].of = clicks[c].of
      /\ clicks'[c].to = clicks[c].to /\ clicks'[c].since = clicks[c].since
  <2> DEFINE new == [clicks[c] EXCEPT !.at = "reading", !.fetch = f]
  <2>1. /\ new \in Click /\ new.at = "reading" /\ new.fetch = f /\ new.does = clicks[c].does
        /\ new.of = clicks[c].of /\ new.to = clicks[c].to /\ new.since = clicks[c].since
    <3>1. clicks[c] \in Click /\ f \in {NoFetch} \union Fetches
      BY <1>1, TypesOf
    <3>2. \A k \in Click : \A g \in {NoFetch} \union Fetches :
            /\ [k EXCEPT !.at = "reading", !.fetch = g] \in Click
            /\ [k EXCEPT !.at = "reading", !.fetch = g].at = "reading"
            /\ [k EXCEPT !.at = "reading", !.fetch = g].fetch = g
            /\ [k EXCEPT !.at = "reading", !.fetch = g].does = k.does
            /\ [k EXCEPT !.at = "reading", !.fetch = g].of = k.of
            /\ [k EXCEPT !.at = "reading", !.fetch = g].to = k.to
            /\ [k EXCEPT !.at = "reading", !.fetch = g].since = k.since
      BY DEF Click
    <3> QED BY <3>1, <3>2
  <2>2. clicks' = [clicks EXCEPT ![c] = new]
    BY <1>1, <1>2, TypesOf DEF Click
  <2> HIDE DEF new
  <2> QED BY <1>1, <2>1, <2>2, TypesOf
<1>5. /\ fetches' \in [Fetches -> Fetch] /\ \A e \in Fetches : e # f => fetches'[e] = fetches[e]
      /\ fetches'[f].holds = fetches[f].holds /\ fetches'[f].rows = fetches[f].rows
      /\ \/ f = shared /\ fetches' = fetches
         \/ shared = NoFetch /\ fetches[f].at = "unused" /\ fetches'[f].at = "asked"
  <2> DEFINE new == [fetches[f] EXCEPT !.at = "asked"]
  <2>1. new \in Fetch /\ new.at = "asked" /\ new.holds = fetches[f].holds /\ new.rows = fetches[f].rows
    BY <1>1, TypesOf DEF Fetch
  <2>2. (f = shared /\ fetches' = fetches) \/ fetches' = [fetches EXCEPT ![f] = new]
    BY <1>2
  <2> HIDE DEF new
  <2> QED BY <1>1, <1>2, <2>1, <2>2, TypesOf
<1>6. Structure'
  <2>1. AllGoOn
    BY <1>3, <1>4 DEF AllGoOn, GoesOn
  <2>2. TableTypeOK'
    BY <1>1, <1>2, <1>3, <1>4, <1>5, TypesOf DEF TableTypeOK
  <2>3. \A e \in Fetches : fetches'[e].holds <= changes
    BY <1>1, <1>5 DEF Basis, Structure, Numbered
  <2>4. known' <= changes
    BY <1>1, <1>3 DEF Basis, Structure, Numbered
  <2> QED BY <1>1, <1>3, <2>1, <2>2, <2>3, <2>4, GoOnStructure DEF Basis
<1>7. Waits'
  <2>1. Open(f)' /\ \A e : Open(e) => Open(e)'
    BY <1>1, <1>2, <1>5, Numbers DEF Basis, Waits, ReadingsOpen, Open
  <2>2. ReadingsOpen'
    BY <1>1, <1>2, <1>4, <2>1 DEF Basis, Waits, ReadingsOpen
  <2>3. SharedIsFresh'
    BY <1>1, <1>2, <1>4, <1>5 DEF Basis, Waits, SharedIsFresh
  <2>4. ReloadsAfterwards'
    <3>1. ASSUME NEW d \in Clicks, clicks'[d].at = "reading", fetches'[clicks'[d].fetch].at = "read"
          PROVE  fetches'[clicks'[d].fetch].holds >= clicks'[d].since
      <4>1. CASE d = c
        <5>1. f = shared /\ fetches' = fetches /\ clicks'[d].fetch = f /\ clicks'[d].since = clicks[c].since
          BY <1>4, <1>5, <3>1, <4>1
        <5> QED BY <1>1, <1>3, <3>1, <5>1, Numbers DEF Basis, Waits, SharedIsFresh
      <4>2. CASE d # c
        <5>1. clicks'[d] = clicks[d] /\ Open(clicks[d].fetch)
          BY <1>1, <1>4, <3>1, <4>2 DEF Basis, Waits, ReadingsOpen
        <5>2. fetches'[clicks[d].fetch] = fetches[clicks[d].fetch]
          BY <1>5, <5>1 DEF Open
        <5> QED BY <1>1, <3>1, <5>1, <5>2 DEF Basis, Waits, ReloadsAfterwards
      <4> QED BY <4>1, <4>2
    <3> QED BY <3>1 DEF ReloadsAfterwards
  <2> QED BY <2>2, <2>3, <2>4 DEF Waits
<1>8. ChangesStay
  BY <1>3, <1>4, <1>5 DEF ChangesStay
<1>9. Changes'
  <2>1. ListStays
    BY <1>1, <1>3, TypesOf DEF ListStays
  <2> QED BY <1>1, <1>8, <2>1, ChangesKept, GoneForGoodKept DEF Basis, Changes, Structure
<1>10. ASSUME ~Excused' PROVE Told'
  <2>1. Told /\ ~Excused
    BY <1>1, <1>3, <1>10 DEF Excused
  <2>2. \A d \in Clicks : clicks[d].at = "done" => clicks'[d].at = "done"
    BY <1>3, <1>4
  <2>3. \A d \in Clicks : /\ Pending(d) => Pending(d)'
                          /\ clicks[d].at = "reading" => clicks'[d].at = "reading"
    BY <1>4 DEF Pending
  <2>4. \A d \in Clicks : clicks'[d].at = "over" => clicks[d].at = "over" \/ clicks[d].since = 0
    BY <1>4
  <2>5. users = Unfetched => \A d \in Clicks : clicks'[d].does # "name"
    BY <1>4, <2>1 DEF Told, ListFollows
  <2>6. Shows(Field) => \A d \in Clicks : NameUnderWay(d)' => clicks'[d].to.name = typed
    BY <1>4, <2>1 DEF NameUnderWay, Told, NameAsTyped
  <2> QED BY <1>1, <1>3, <1>8, <2>1, <2>2, <2>3, <2>4, <2>5, <2>6, ToldKept
<1>11. Basis' /\ (~Excused' => Told')
  BY <1>6, <1>7, <1>9, <1>10 DEF Basis
<1> QED BY <1>11 DEF TableConsistent, Basis, Structure, Waits, Changes, Told

\* The backend reads the rows.
LEMMA TableReadConsistent ==
  ASSUME TableConsistent, NEW f \in Fetches, TableRead(f)
  PROVE  TableConsistent'
<1>1. Basis /\ (~Excused => Told)
  BY ConsistentBy
<1>2. /\ fetches[f].at = "asked"
      /\ UNCHANGED <<userRows, users, clicks, clicked, shared, field, typed, known, changes, outdated, losses>>
  BY DEF TableRead
<1>3. /\ fetches' \in [Fetches -> Fetch] /\ \A e \in Fetches : e # f => fetches'[e] = fetches[e]
      /\ fetches'[f].at = "read" /\ fetches'[f].rows = userRows /\ fetches'[f].holds = changes
  <2> DEFINE new == [at |-> "read", rows |-> userRows, holds |-> changes]
  <2>1. new \in Fetch /\ new.at = "read" /\ new.rows = userRows /\ new.holds = changes
    BY <1>1, TypesOf DEF Fetch, TableTypeOK
  <2>2. fetches' = [fetches EXCEPT ![f] = new]
    BY DEF TableRead
  <2> HIDE DEF new
  <2> QED BY <1>1, <2>1, <2>2, TypesOf
<1>4. Structure'
  <2>1. TableTypeOK'
    BY <1>1, <1>2, <1>3, TypesOf DEF TableTypeOK
  <2>2. InTurn' /\ ClickKinds' /\ OneName'
    BY <1>1, <1>2 DEF Basis, Structure, InTurn, Sent, ClickKinds, OneName, NameUnderWay
  <2>3. Numbered'
    BY <1>1, <1>2, <1>3, TypesOf DEF Basis, Structure, Numbered
  <2> QED BY <2>1, <2>2, <2>3 DEF Structure
<1>5. Waits'
  <2>1. ReadingsOpen'
    BY <1>1, <1>2, <1>3 DEF Basis, Waits, ReadingsOpen, Open
  <2>2. \A c \in Clicks : clicks[c].since <= changes
    BY <1>1 DEF Basis, Structure, Numbered
  <2>3. SharedIsFresh' /\ ReloadsAfterwards'
    <3>1. \A e \in Fetches : fetches'[e].at = "read" =>
            fetches'[e] = fetches[e] \/ (e = f /\ fetches'[e].holds = changes)
      BY <1>3
    <3>2. SharedIsFresh'
      <4> SUFFICES ASSUME NEW c \in Clicks, clicks[c].at = "answered", shared # NoFetch, fetches'[shared].at = "read"
                   PROVE  fetches'[shared].holds >= clicks[c].since
        BY <1>2 DEF SharedIsFresh
      <4>1. shared \in Fetches
        BY <1>1 DEF Basis, Waits, ReadingsOpen, Open
      <4> QED BY <1>1, <2>2, <3>1, <4>1, TypesOf DEF Basis, Waits, SharedIsFresh
    <3>3. ReloadsAfterwards'
      <4> SUFFICES ASSUME NEW c \in Clicks, clicks[c].at = "reading", fetches'[clicks[c].fetch].at = "read"
                   PROVE  fetches'[clicks[c].fetch].holds >= clicks[c].since
        BY <1>2 DEF ReloadsAfterwards
      <4>1. clicks[c].fetch \in Fetches
        BY <1>1 DEF Basis, Waits, ReadingsOpen, Open
      <4> QED BY <1>1, <2>2, <3>1, <4>1, TypesOf DEF Basis, Waits, ReloadsAfterwards
    <3> QED BY <3>2, <3>3
  <2> QED BY <2>1, <2>3 DEF Waits
<1>6. Changes'
  <2>1. LastIs' /\ LastNamed'
    BY <1>1, <1>2 DEF Basis, Changes, LastIs, LastNamed, LastToChange, Changed
  <2>2. ReadingsFollow'
    <3> SUFFICES ASSUME NEW e \in Fetches, fetches'[e].at = "read", NEW u \in Named, fetches'[e].rows[u] # userRows[u]
                 PROVE  \E c \in Clicks : LastToChange(c)' /\ clicks'[c].of = u /\ clicks'[c].since > fetches'[e].holds
      BY <1>2 DEF ReadingsFollow
    <3>1. e # f /\ fetches'[e] = fetches[e]
      BY <1>3
    <3> QED BY <1>1, <1>2, <3>1 DEF Basis, Changes, ReadingsFollow, LastToChange, Changed
  <2>3. GoneForGood'
    <3>1. ASSUME userRows[Field] = Gone, NEW e \in Fetches, fetches[e].at = "read", fetches[e].holds >= changes
          PROVE  fetches[e].rows[Field] = Gone
      <4>1. \A c \in Clicks : ~(clicks[c].since > fetches[e].holds)
        BY <1>1, <3>1, TypesOf DEF Basis, Structure, Numbered
      <4> QED BY <1>1, <3>1, <4>1, Numbers DEF Basis, Changes, ReadingsFollow
    <3>2. ASSUME NEW another, NEW at \in Nat, GoneFor(another, at) PROVE GoneFor(another, at)'
      <4> SUFFICES ASSUME another[Field] = Gone PROVE GoneFor(another, at)'
        BY DEF GoneFor
      <4>1. userRows[Field] = Gone
        BY <3>2 DEF GoneFor
      <4>2. ASSUME NEW e \in Fetches, fetches'[e].at = "read", fetches'[e].holds >= at
            PROVE  fetches'[e].rows[Field] = Gone
        <5>1. CASE e = f
          BY <1>3, <4>1, <5>1
        <5>2. CASE e # f
          BY <1>3, <3>2, <4>2, <5>2 DEF GoneFor
        <5> QED BY <5>1, <5>2
      <4> QED BY <1>2, <3>2, <4>1, <4>2 DEF GoneFor
    <3>3. users' # Unfetched => GoneFor(users, known)'
      <4>1. users # Unfetched => GoneFor(users, known)
        BY <1>1 DEF Basis, Changes, GoneForGood
      <4>2. users # Unfetched => GoneFor(users, known)'
        <5>1. ASSUME NEW another, NEW at \in Nat, another = users, at = known, GoneFor(another, at)
              PROVE  GoneFor(users, known)'
          <6>1. GoneFor(another, at)'
            BY <3>2, <5>1
          <6> QED BY <1>2, <5>1, <6>1 DEF GoneFor
        <5> QED BY <1>1, <4>1, <5>1, TypesOf
      <4> QED BY <1>2, <4>2
    <3>4. ASSUME NEW e \in Fetches, fetches'[e].at = "read"
          PROVE  GoneFor(fetches[e].rows, fetches[e].holds)'
      <4>1. CASE e # f
        <5>1. fetches'[e] = fetches[e] /\ fetches[e].at = "read"
          BY <1>3, <3>4, <4>1
        <5>2. GoneFor(fetches[e].rows, fetches[e].holds) /\ fetches[e].holds \in Nat
          BY <1>1, <5>1, TypesOf DEF Basis, Changes, GoneForGood
        <5>3. ASSUME NEW another, NEW at \in Nat, another = fetches[e].rows, at = fetches[e].holds, GoneFor(another, at)
              PROVE  GoneFor(fetches[e].rows, fetches[e].holds)'
          <6>1. GoneFor(another, at)'
            BY <3>2, <5>3
          <6> QED BY <5>1, <5>3, <6>1 DEF GoneFor
        <5> QED BY <5>2, <5>3
      <4>2. CASE e = f
        <5> SUFFICES ASSUME userRows[Field] = Gone
                     PROVE  /\ \A c \in Clicks : clicks[c].does = "name" => clicks[c].since <= changes
                            /\ \A d \in Fetches : fetches'[d].at = "read" /\ fetches'[d].holds >= changes =>
                                 fetches'[d].rows[Field] = Gone
          BY <1>2, <1>3, <4>2 DEF GoneFor
        <5>1. \A c \in Clicks : clicks[c].since <= changes
          BY <1>1 DEF Basis, Structure, Numbered
        <5>2. ASSUME NEW d \in Fetches, fetches'[d].at = "read", fetches'[d].holds >= changes
              PROVE  fetches'[d].rows[Field] = Gone
          BY <1>3, <3>1, <5>2
        <5> QED BY <5>1, <5>2
      <4> QED BY <4>1, <4>2
    <3> QED BY <3>3, <3>4 DEF GoneForGood
  <2> QED BY <2>1, <2>2, <2>3 DEF Changes
<1>7. ASSUME ~Excused' PROVE Told'
  <2>1. Told /\ ~Excused
    BY <1>1, <1>2, <1>7 DEF Excused
  <2>2. ListFollows' /\ OverIsKnown' /\ DraftKept' /\ NameAsTyped'
    BY <1>2, <2>1 DEF Told, ListFollows, OverIsKnown, DraftKept, NameAsTyped, NameUnderWay, Pending,
       LastToChange, Changed, Shows, Excused
  <2>3. PICK base \in 0..MaxTyped : NamesFrom(base)
    BY <2>1 DEF Told
  <2>4. NamesFrom(base)'
    <3>1. \A at : NameAt(base, at)' = NameAt(base, at)
      BY <1>2 DEF NameAt, NamedBy
    <3>2. ASSUME NEW e \in Fetches, fetches'[e].at = "read", fetches'[e].holds >= known', fetches'[e].rows[Field] # Gone
          PROVE  fetches'[e].rows[Field].name = NameAt(base, fetches'[e].holds)
      <4>1. CASE e = f
        BY <1>3, <2>3, <3>2, <4>1 DEF NamesFrom
      <4>2. CASE e # f
        BY <1>2, <1>3, <2>3, <3>2, <4>2 DEF NamesFrom
      <4> QED BY <4>1, <4>2
    <3> QED BY <1>2, <2>3, <3>1, <3>2 DEF NamesFrom, NameAt, NamedBy, Shows
  <2> QED BY <2>2, <2>4 DEF Told
<1>8. Basis' /\ (~Excused' => Told')
  BY <1>4, <1>5, <1>6, <1>7 DEF Basis
<1> QED BY <1>8 DEF TableConsistent, Basis, Structure, Waits, Changes, Told

-----------------------------------------------------------------------------
\* A reading is over: those who waited for it wait no longer.
LEMMA FetchOverFields ==
  ASSUME Basis, NEW f \in Fetches, fetches[f].at \in {"asked", "read"}, FetchOver(f), userRows' = userRows
  PROVE  /\ clicks' \in [Clicks -> Click] /\ fetches' \in [Fetches -> Fetch]
         /\ \A e \in Fetches : /\ fetches'[e].holds = fetches[e].holds
                               /\ fetches'[e].at = "read" => e # f /\ fetches'[e] = fetches[e]
         /\ \A c \in Clicks : \/ clicks'[c] = clicks[c] /\ ~(clicks[c].at = "reading" /\ clicks[c].fetch = f)
                              \/ /\ clicks[c].at = "reading" /\ clicks[c].fetch = f /\ clicks'[c].at = "over"
                                 /\ clicks'[c].does = clicks[c].does /\ clicks'[c].of = clicks[c].of
                                 /\ clicks'[c].to = clicks[c].to /\ clicks'[c].since = clicks[c].since
         /\ AllGoOn /\ ChangesStay /\ Waits'
         /\ shared' \in {NoFetch} \union Fetches
<1>1. clicks \in [Clicks -> Click] /\ fetches \in [Fetches -> Fetch] /\ shared \in {NoFetch} \union Fetches
  BY TypesOf DEF TableTypeOK
<1>2. /\ fetches' \in [Fetches -> Fetch] /\ fetches'[f].at = "over" /\ fetches'[f].holds = fetches[f].holds
      /\ \A e \in Fetches : e # f => fetches'[e] = fetches[e]
  <2> DEFINE new == [fetches[f] EXCEPT !.at = "over"]
  <2>1. new \in Fetch /\ new.at = "over" /\ new.holds = fetches[f].holds
    BY <1>1 DEF Fetch
  <2>2. fetches' = [fetches EXCEPT ![f] = new]
    BY DEF FetchOver
  <2> HIDE DEF new
  <2> QED BY <1>1, <2>1, <2>2
<1>3. ASSUME NEW k \in Click
      PROVE  /\ [k EXCEPT !.at = "over"] \in Click /\ [k EXCEPT !.at = "over"].at = "over"
             /\ [k EXCEPT !.at = "over"].does = k.does /\ [k EXCEPT !.at = "over"].of = k.of
             /\ [k EXCEPT !.at = "over"].to = k.to /\ [k EXCEPT !.at = "over"].since = k.since
  BY DEF Click
<1>4. ASSUME NEW c \in Clicks
      PROVE  /\ clicks'[c] \in Click
             /\ \/ clicks'[c] = clicks[c] /\ ~(clicks[c].at = "reading" /\ clicks[c].fetch = f)
                \/ /\ clicks[c].at = "reading" /\ clicks[c].fetch = f /\ clicks'[c].at = "over"
                   /\ clicks'[c].does = clicks[c].does /\ clicks'[c].of = clicks[c].of
                   /\ clicks'[c].to = clicks[c].to /\ clicks'[c].since = clicks[c].since
  <2>1. clicks[c] \in Click
    BY <1>1
  <2>2. CASE clicks[c].at = "reading" /\ clicks[c].fetch = f
    <3>1. clicks'[c] = [clicks[c] EXCEPT !.at = "over"]
      BY <2>2 DEF FetchOver
    <3> QED BY <1>3, <2>1, <2>2, <3>1
  <2>3. CASE ~(clicks[c].at = "reading" /\ clicks[c].fetch = f)
    <3>1. clicks'[c] = clicks[c]
      BY <2>3 DEF FetchOver
    <3> QED BY <2>1, <2>3, <3>1
  <2> QED BY <2>2, <2>3
<1>5. clicks' \in [Clicks -> Click]
  <2>1. clicks' = [c \in Clicks |-> clicks'[c]]
    BY DEF FetchOver
  <2>2. \A c \in Clicks : clicks'[c] \in Click
    BY <1>4
  <2> QED BY <2>1, <2>2
<1>6. AllGoOn
  BY <1>4, <1>5 DEF AllGoOn, GoesOn
<1>7. ChangesStay
  <2>1. ASSUME NEW c \in Clicks
        PROVE  /\ clicks'[c].since = clicks[c].since
               /\ clicks[c].since # 0 => clicks'[c].does = clicks[c].does /\ clicks'[c].of = clicks[c].of
               /\ clicks'[c].at = "done" => clicks'[c] = clicks[c]
    BY <1>4
  <2>2. \A e \in Fetches : fetches'[e].at = "read" => fetches'[e] = fetches[e]
    BY <1>2
  <2> QED BY <2>1, <2>2 DEF ChangesStay
<1>8. Waits'
  <2>1. shared' \in {shared, NoFetch} /\ shared' # f
    BY Numbers DEF FetchOver
  <2>2. ReadingsOpen'
    <3>1. ASSUME NEW c \in Clicks, clicks'[c].at = "reading"
          PROVE  clicks'[c].fetch \in Fetches /\ fetches'[clicks'[c].fetch].at \in {"asked", "read"}
      <4>1. clicks'[c] = clicks[c] /\ clicks[c].fetch # f /\ Open(clicks[c].fetch)
        BY <1>4, <3>1 DEF Basis, Waits, ReadingsOpen
      <4> QED BY <1>2, <4>1 DEF Open
    <3>2. shared' # NoFetch => Open(shared)'
      BY <1>2, <2>1 DEF Basis, Waits, ReadingsOpen, Open
    <3> QED BY <3>1, <3>2 DEF ReadingsOpen, Open
  <2>3. SharedIsFresh'
    <3> SUFFICES ASSUME NEW c \in Clicks, clicks'[c].at = "answered", shared' # NoFetch, fetches'[shared'].at = "read"
                 PROVE  fetches'[shared'].holds >= clicks'[c].since
      BY DEF SharedIsFresh
    <3>1. clicks'[c] = clicks[c] /\ shared' = shared /\ shared \in Fetches
      BY <1>1, <1>4, <2>1
    <3>2. fetches'[shared] = fetches[shared]
      BY <1>2, <2>1, <3>1
    <3> QED BY <3>1, <3>2 DEF Basis, Waits, SharedIsFresh
  <2>4. ReloadsAfterwards'
    <3> SUFFICES ASSUME NEW c \in Clicks, clicks'[c].at = "reading", fetches'[clicks'[c].fetch].at = "read"
                 PROVE  fetches'[clicks'[c].fetch].holds >= clicks'[c].since
      BY DEF ReloadsAfterwards
    <3>1. clicks'[c] = clicks[c] /\ clicks[c].fetch # f /\ Open(clicks[c].fetch)
      BY <1>4 DEF Basis, Waits, ReadingsOpen
    <3>2. fetches'[clicks[c].fetch] = fetches[clicks[c].fetch]
      BY <1>2, <3>1 DEF Open
    <3> QED BY <3>1, <3>2 DEF Basis, Waits, ReloadsAfterwards
  <2> QED BY <2>2, <2>3, <2>4 DEF Waits
<1>9. \A e \in Fetches : /\ fetches'[e].holds = fetches[e].holds
                         /\ fetches'[e].at = "read" => e # f /\ fetches'[e] = fetches[e]
  BY <1>2
<1>10. shared' \in {NoFetch} \union Fetches
  BY <1>1 DEF FetchOver
<1> QED BY <1>2, <1>4, <1>5, <1>6, <1>7, <1>8, <1>9, <1>10

\* A list is lost.
LEMMA TableLostConsistent ==
  ASSUME TableConsistent, NEW f \in Fetches, TableLost(f)
  PROVE  TableConsistent'
<1>1. Basis
  BY ConsistentBy
<1>2. /\ fetches[f].at \in {"asked", "read"} /\ FetchOver(f) /\ losses < MaxLosses /\ losses' = losses + 1
      /\ UNCHANGED <<userRows, users, clicked, field, typed, known, changes, outdated>>
  BY DEF TableLost
<1>3. losses \in 0..MaxLosses /\ MaxLosses \in Nat
  BY <1>1, TypesOf, UserTableAssumption DEF TableTypeOK
<1>4. Excused'
  BY <1>2, <1>3 DEF Excused
<1>5. Structure'
  <2>1. losses' \in 0..MaxLosses
    BY <1>2, <1>3
  <2>2. TableTypeOK'
    BY <1>1, <1>2, <2>1, FetchOverFields, TypesOf DEF TableTypeOK
  <2>3. AllGoOn /\ \A e \in Fetches : fetches'[e].holds <= changes
    BY <1>1, <1>2, FetchOverFields DEF Basis, Structure, Numbered
  <2>4. known' <= changes
    BY <1>1, <1>2 DEF Basis, Structure, Numbered
  <2> QED BY <1>1, <1>2, <2>2, <2>3, <2>4, GoOnStructure DEF Basis
<1>6. Changes'
  <2>1. ListStays
    BY <1>1, <1>2, TypesOf DEF ListStays
  <2>2. ChangesStay
    BY <1>1, <1>2, FetchOverFields
  <2> QED BY <1>1, <2>1, <2>2, ChangesKept, GoneForGoodKept DEF Basis, Changes, Structure
<1>7. Waits'
  BY <1>1, <1>2, FetchOverFields
<1> QED BY <1>4, <1>5, <1>6, <1>7 DEF TableConsistent, Structure, Waits, Changes

\* A list arrives.
LEMMA TableArrivesBasis ==
  ASSUME Basis, NEW f \in Fetches, TableArrives(f)
  PROVE  Basis' /\ users' \in Table /\ users' # Unfetched /\ users' = fetches[f].rows
<1>1. /\ fetches[f].at = "read" /\ FetchOver(f) /\ ListBecomes(fetches[f].rows) /\ known' = fetches[f].holds
      /\ outdated' = (outdated \/ fetches[f].holds < known)
      /\ UNCHANGED <<userRows, clicked, changes, losses>>
  BY DEF TableArrives
<1>2. users' \in Table /\ {field', typed'} \subseteq 0..MaxTyped /\ users' # Unfetched /\ users' = fetches[f].rows
  <2>1. fetches[f].rows \in Table
    BY TypesOf
  <2>2. users' = fetches[f].rows
    BY <1>1 DEF ListBecomes
  <2> QED BY <1>1, <2>1, <2>2, ListTypes, TypesOf, NobodyAssumption DEF TableTypeOK
<1>3. Structure'
  <2>1. fetches[f].holds \in Clicks /\ outdated' \in BOOLEAN
    <3>1. fetches \in [Fetches -> Fetch] /\ outdated \in BOOLEAN
      BY TypesOf DEF TableTypeOK
    <3> QED BY <1>1, <3>1 DEF Fetch
  <2>2. TableTypeOK'
    BY <1>1, <1>2, <2>1, FetchOverFields, TypesOf DEF TableTypeOK
  <2>3. AllGoOn /\ \A e \in Fetches : fetches'[e].holds <= changes
    BY <1>1, FetchOverFields DEF Basis, Structure, Numbered
  <2>4. known' <= changes
    BY <1>1 DEF Basis, Structure, Numbered
  <2> QED BY <1>1, <2>2, <2>3, <2>4, GoOnStructure DEF Basis
<1>4. ChangesStay /\ Waits'
  BY <1>1, FetchOverFields
<1>5. LastIs' /\ LastNamed' /\ ReadingsFollow'
  BY <1>4, ChangesKept DEF Basis, Changes, Structure
<1>6. GoneForGood'
  <2>1. ASSUME NEW e \in Fetches, fetches[e].at = "read"
        PROVE  GoneFor(fetches[e].rows, fetches[e].holds)'
    <3>1. GoneFor(fetches[e].rows, fetches[e].holds) /\ fetches[e].holds \in Nat
      BY <2>1, TypesOf DEF Basis, Changes, GoneForGood
    <3> DEFINE another == fetches[e].rows
               at == fetches[e].holds
    <3>2. PICK l : \E n \in Nat : l = another /\ n = at
      BY <3>1
    <3>3. PICK n \in Nat : l = another /\ n = at
      BY <3>2
    <3>4. GoneFor(l, n)
      BY <3>1, <3>3
    <3>5. GoneFor(l, n)'
      BY <1>4, <3>4, GoneKept DEF Basis, Structure
    <3>6. fetches'[e].holds = fetches[e].holds /\ fetches'[e].rows = fetches[e].rows
      <4>1. fetches' = [fetches EXCEPT ![f].at = "over"] /\ fetches \in [Fetches -> Fetch]
        BY <1>1, TypesOf DEF FetchOver
      <4> QED BY <4>1 DEF Fetch
    <3> QED BY <3>3, <3>5, <3>6 DEF GoneFor
  <2>2. \A e \in Fetches : fetches'[e].at = "read" => fetches[e].at = "read"
    BY <1>1, FetchOverFields
  <2>3. fetches'[f].holds = fetches[f].holds /\ fetches'[f].rows = fetches[f].rows
    <3>1. fetches' = [fetches EXCEPT ![f].at = "over"] /\ fetches \in [Fetches -> Fetch]
      BY <1>1, TypesOf DEF FetchOver
    <3> QED BY <3>1 DEF Fetch
  <2>4. GoneFor(users, known)'
    <3>1. GoneFor(fetches[f].rows, fetches[f].holds)'
      BY <1>1, <2>1
    <3> QED BY <1>1, <1>2, <2>3, <3>1 DEF GoneFor
  <2> QED BY <2>1, <2>2, <2>4 DEF GoneForGood
<1> QED BY <1>2, <1>3, <1>4, <1>5, <1>6 DEF Basis, Changes

\* A change the list shown is said not to hold is not over.
LEMMA NotOver ==
  ASSUME Basis, Told, NEW c \in Clicks, Changed(c), clicks[c].since > known
  PROVE  Pending(c)
<1>1. clicks[c].at # "over"
  BY TypesOf DEF Told, OverIsKnown
<1>2. clicks[c].at \notin {"unused", "sent"}
  BY DEF Changed, Basis, Structure, Numbered
<1> QED BY <1>1, <1>2, TypesOf DEF Pending

LEMMA TableArrivesTold ==
  ASSUME Basis, Told, ~Excused, ~Excused', NEW f \in Fetches, TableArrives(f)
  PROVE  Told'
<1>1. /\ fetches[f].at = "read" /\ FetchOver(f) /\ ListBecomes(fetches[f].rows) /\ known' = fetches[f].holds
      /\ UNCHANGED <<userRows, clicked, changes, losses>>
  BY DEF TableArrives
<1>2. known \in Nat /\ fetches[f].holds \in Nat /\ known <= fetches[f].holds
  <2>1. ~(fetches[f].holds < known)
    BY DEF TableArrives, Excused
  <2> QED BY <2>1, TypesOf
<1>3. users' # Unfetched /\ users' = fetches[f].rows
  BY TableArrivesBasis
<1>4. \A c \in Clicks : \/ clicks'[c] = clicks[c] /\ ~(clicks[c].at = "reading" /\ clicks[c].fetch = f)
                        \/ /\ clicks[c].at = "reading" /\ clicks[c].fetch = f /\ clicks'[c].at = "over"
                           /\ clicks'[c].does = clicks[c].does /\ clicks'[c].of = clicks[c].of
                           /\ clicks'[c].to = clicks[c].to /\ clicks'[c].since = clicks[c].since
  BY <1>1, FetchOverFields
<1>5. ChangesStay /\ \A e \in Fetches : fetches'[e].at = "read" => fetches'[e] = fetches[e]
  BY <1>1, FetchOverFields
<1>6. \A c \in Clicks : clicks[c].at = "reading" /\ clicks[c].fetch = f => fetches[f].holds >= clicks[c].since
  BY <1>1 DEF Basis, Waits, ReloadsAfterwards
<1>7. ListFollows'
  <2> SUFFICES ASSUME NEW u \in Named, fetches[f].rows[u] # userRows[u]
               PROVE  \E c \in Clicks : LastToChange(c)' /\ clicks'[c].of = u /\ Pending(c)'
    BY <1>1, <1>3 DEF ListFollows
  <2>1. PICK c \in Clicks : LastToChange(c) /\ clicks[c].of = u /\ clicks[c].since > fetches[f].holds
    BY <1>1 DEF Basis, Changes, ReadingsFollow
  <2>2. Changed(c)
    BY <2>1 DEF LastToChange
  <2>3. clicks[c].since > known
    BY <1>2, <2>1, TypesOf
  <2>4. Pending(c) /\ clicks'[c] = clicks[c]
    BY <1>2, <1>4, <1>6, <2>1, <2>2, <2>3, NotOver, TypesOf
  <2> QED BY <1>5, <2>1, <2>4, LastStays DEF Pending
<1>8. OverIsKnown'
  <2> SUFFICES ASSUME NEW c \in Clicks, Changed(c)', clicks'[c].at = "over"
               PROVE  clicks'[c].since <= fetches[f].holds
    BY <1>1 DEF OverIsKnown
  <2>1. Changed(c) /\ clicks'[c].since = clicks[c].since
    BY <1>5, LastStays DEF ChangesStay
  <2>2. CASE clicks[c].at = "over"
    BY <1>2, <2>1, <2>2, TypesOf DEF Told, OverIsKnown
  <2>3. CASE clicks[c].at # "over"
    BY <1>4, <1>6, <2>1, <2>3, TypesOf
  <2> QED BY <2>2, <2>3
<1>9. PICK base \in 0..MaxTyped : NamesFrom(base)
  BY DEF Told
<1>10. \A c \in Clicks : clicks'[c].does = clicks[c].does /\ clicks'[c].to = clicks[c].to
                         /\ clicks'[c].since = clicks[c].since
                         /\ (clicks'[c].at \in {"sent", "done"} <=> clicks[c].at \in {"sent", "done"})
                         /\ (clicks'[c].at = "done" <=> clicks[c].at = "done")
  BY <1>4
<1>11. \A at : NamedBy(at)' <=> NamedBy(at)
  BY <1>10 DEF NamedBy
<1>12. fetches[f].rows[Field] # Gone => fetches[f].rows[Field].name = NameAt(base, fetches[f].holds)
  BY <1>1, <1>2, <1>9 DEF NamesFrom
<1>13. CASE fetches[f].rows[Field] = Gone
  <2>1. ~Shows(Field)'
    BY <1>3, <1>13 DEF Shows
  <2>2. typed' = typed
    BY <1>1, <1>13 DEF ListBecomes
  <2>3. \A at : NameAt(base, at)' = NameAt(base, at)
    BY <1>11, <2>2 DEF NameAt
  <2>4. NamesFrom(base)'
    <3>1. ASSUME NEW e \in Fetches, fetches'[e].at = "read", fetches'[e].holds >= known', fetches'[e].rows[Field] # Gone
          PROVE  fetches'[e].rows[Field].name = NameAt(base, fetches[e].holds)' /\ fetches'[e].holds = fetches[e].holds
      <4>1. fetches'[e] = fetches[e] /\ fetches[e].holds \in Nat
        BY <1>5, <3>1, TypesOf
      <4>2. fetches[e].holds >= known
        BY <1>1, <1>2, <3>1, <4>1
      <4>3. fetches[e].rows[Field].name = NameAt(base, fetches[e].holds)
        BY <1>9, <3>1, <4>1, <4>2 DEF NamesFrom
      <4> QED BY <2>3, <4>1, <4>3 DEF NameAt, NamedBy
    <3>2. userRows'[Field] # Gone => userRows'[Field].name = NameAt(base, changes)'
      BY <1>1, <1>9, <2>3 DEF NamesFrom
    <3> QED BY <2>1, <3>1, <3>2 DEF NamesFrom, NameAt, NamedBy
  <2> QED BY <1>7, <1>8, <2>1, <2>4 DEF Told, DraftKept, NameAsTyped
<1>14. CASE fetches[f].rows[Field] # Gone /\ Shows(Field)
  <2>1. typed' = typed
    BY <1>1, <1>14 DEF ListBecomes
  <2>2. \A at : NameAt(base, at)' = NameAt(base, at)
    BY <1>11, <2>1 DEF NameAt
  <2>3. field' = typed
    <3>1. field = typed
      BY <1>14 DEF Told, DraftKept, Excused
    <3>2. CASE users[Field].name = fetches[f].rows[Field].name
      BY <1>1, <1>14, <3>1, <3>2 DEF ListBecomes
    <3>3. CASE users[Field].name # fetches[f].rows[Field].name
      <4>1. users[Field].name = NameAt(base, known)
        BY <1>9, <1>14 DEF NamesFrom
      <4>2. NamedBy(known) => NamedBy(fetches[f].holds)
        BY <1>2, TypesOf DEF NamedBy
      <4>3. fetches[f].rows[Field].name = typed
        BY <1>12, <1>14, <3>3, <4>1, <4>2 DEF NameAt
      <4> QED BY <1>1, <1>14, <3>3, <4>3 DEF ListBecomes
    <3> QED BY <3>2, <3>3
  <2>4. NamesFrom(base)'
    <3>1. ASSUME NEW e \in Fetches, fetches'[e].at = "read", fetches'[e].holds >= known', fetches'[e].rows[Field] # Gone
          PROVE  fetches'[e].rows[Field].name = NameAt(base, fetches[e].holds)' /\ fetches'[e].holds = fetches[e].holds
      <4>1. fetches'[e] = fetches[e] /\ fetches[e].holds \in Nat
        BY <1>5, <3>1, TypesOf
      <4>2. fetches[e].holds >= known
        BY <1>1, <1>2, <3>1, <4>1
      <4>3. fetches[e].rows[Field].name = NameAt(base, fetches[e].holds)
        BY <1>9, <3>1, <4>1, <4>2 DEF NamesFrom
      <4> QED BY <2>2, <4>1, <4>3 DEF NameAt, NamedBy
    <3>2. userRows'[Field] # Gone => userRows'[Field].name = NameAt(base, changes)'
      BY <1>1, <1>9, <2>2 DEF NamesFrom
    <3>3. users'[Field].name = NameAt(base, known)'
      <4>1. NameAt(base, known)' = NameAt(base, fetches[f].holds)
        BY <1>1, <1>10, <2>1 DEF NameAt, NamedBy
      <4> QED BY <1>3, <1>12, <1>14, <4>1
    <3> QED BY <3>1, <3>2, <3>3 DEF NamesFrom, NameAt, NamedBy
  <2>5. NameAsTyped'
    BY <1>10, <1>14, <2>1 DEF Told, NameAsTyped, NameUnderWay
  <2> QED BY <1>7, <1>8, <2>1, <2>3, <2>4, <2>5 DEF Told, DraftKept
<1>15. CASE fetches[f].rows[Field] # Gone /\ ~Shows(Field)
  <2>1. users = Unfetched
    <3>1. ASSUME users # Unfetched PROVE FALSE
      <4>1. users[Field] = Gone /\ GoneFor(users, known)
        BY <1>15, <3>1 DEF Shows, Basis, Changes, GoneForGood
      <4> QED BY <1>1, <1>2, <1>15, <4>1 DEF GoneFor
    <3> QED BY <3>1
  <2>2. \A c \in Clicks : clicks[c].does # "name" /\ clicks'[c].does # "name"
    BY <1>10, <2>1 DEF Told, ListFollows
  <2>3. field' = fetches[f].rows[Field].name /\ typed' = fetches[f].rows[Field].name
    BY <1>1, <1>15 DEF ListBecomes
  <2>4. \A at : NameAt(base, at) = base /\ NameAt(base, at)' = base
    BY <2>2 DEF NameAt, NamedBy
  <2>5. NamesFrom(base)'
    <3>1. ASSUME NEW e \in Fetches, fetches'[e].at = "read", fetches'[e].holds >= known', fetches'[e].rows[Field] # Gone
          PROVE  fetches'[e].rows[Field].name = base
      <4>1. fetches'[e] = fetches[e] /\ fetches[e].holds \in Nat
        BY <1>5, <3>1, TypesOf
      <4>2. fetches[e].holds >= known
        BY <1>1, <1>2, <3>1, <4>1
      <4> QED BY <1>9, <2>4, <3>1, <4>1, <4>2 DEF NamesFrom
    <3>2. userRows'[Field] # Gone => userRows'[Field].name = base
      BY <1>1, <1>9, <2>4 DEF NamesFrom
    <3>3. users'[Field].name = base
      BY <1>3, <1>12, <1>15, <2>4
    <3>4. \A c \in Clicks : clicks'[c].does # "name"
      BY <2>2
    <3> QED BY <3>1, <3>2, <3>3, <3>4 DEF NamesFrom, NameAt, NamedBy
  <2>6. NameAsTyped'
    BY <2>2 DEF NameAsTyped, NameUnderWay
  <2> QED BY <1>7, <1>8, <2>3, <2>5, <2>6 DEF Told, DraftKept
<1> QED BY <1>13, <1>14, <1>15

LEMMA TableArrivesConsistent ==
  ASSUME TableConsistent, NEW f \in Fetches, TableArrives(f)
  PROVE  TableConsistent'
<1>1. Basis /\ (~Excused => Told)
  BY ConsistentBy
<1>2. ~Excused' => ~Excused
  BY DEF TableArrives, Excused
<1>3. Basis' /\ (~Excused' => Told')
  BY <1>1, <1>2, TableArrivesBasis, TableArrivesTold
<1> QED BY <1>3 DEF TableConsistent, Basis, Structure, Waits, Changes, Told

-----------------------------------------------------------------------------
\* A request is answered.
LEMMA AnsweredFields ==
  ASSUME Basis, NEW c \in Clicks, RequestAnswered(c)
  PROVE  /\ clicks[c].at = "done" /\ shared' = NoFetch /\ clicks' \in [Clicks -> Click]
         /\ clicks'[c].at = IF clicks[c].does \in {"name", "restart"} THEN "over" ELSE "answered"
         /\ clicks'[c].does = clicks[c].does /\ clicks'[c].of = clicks[c].of
         /\ clicks'[c].to = clicks[c].to /\ clicks'[c].since = clicks[c].since
         /\ \A d \in Clicks : d # c => clicks'[d] = clicks[d]
         /\ UNCHANGED <<userRows, clicked, fetches, changes, losses>>
         /\ ChangesStay
<1>1. /\ clicks[c].at = "done" /\ shared' = NoFetch /\ UNCHANGED <<userRows, clicked, fetches, changes, losses>>
      /\ clicks' = [clicks EXCEPT ![c].at = IF clicks[c].does \in {"name", "restart"} THEN "over" ELSE "answered"]
  BY DEF RequestAnswered
<1>2. ASSUME NEW k \in Click, NEW at \in {"over", "answered"}
      PROVE  /\ [k EXCEPT !.at = at] \in Click /\ [k EXCEPT !.at = at].at = at
             /\ [k EXCEPT !.at = at].does = k.does /\ [k EXCEPT !.at = at].of = k.of
             /\ [k EXCEPT !.at = at].to = k.to /\ [k EXCEPT !.at = at].since = k.since
  BY DEF Click
<1>3. PICK at \in {"over", "answered"} :
        /\ at = IF clicks[c].does \in {"name", "restart"} THEN "over" ELSE "answered"
        /\ clicks' = [clicks EXCEPT ![c] = [clicks[c] EXCEPT !.at = at]]
  BY <1>1
<1>4. /\ clicks' \in [Clicks -> Click] /\ clicks'[c] = [clicks[c] EXCEPT !.at = at]
      /\ \A d \in Clicks : d # c => clicks'[d] = clicks[d]
  BY <1>2, <1>3, TypesOf
<1>5. /\ clicks'[c].at = at /\ clicks'[c].does = clicks[c].does /\ clicks'[c].of = clicks[c].of
      /\ clicks'[c].to = clicks[c].to /\ clicks'[c].since = clicks[c].since
  BY <1>2, <1>4, TypesOf
<1>6. ChangesStay
  BY <1>1, <1>4, <1>5 DEF ChangesStay
<1> QED BY <1>1, <1>3, <1>4, <1>5, <1>6

\* A name that was saved is put into the list.
LEMMA NameAnsweredFields ==
  ASSUME Basis, NEW c \in Clicks, RequestAnswered(c), clicks[c].does = "name", Shows(Field)
  PROVE  /\ clicks[c].of = Field /\ clicks[c].to \in Person
         /\ users' \in Table /\ users' # Unfetched /\ users'[Field] = clicks[c].to /\ users'[Field] # Gone
         /\ \A u \in Named : u # Field => users'[u] = users[u]
         /\ {field', typed'} \subseteq 0..MaxTyped
         /\ typed' = typed
         /\ \/ field' = field /\ users[Field].name = clicks[c].to.name
            \/ field' = clicks[c].to.name
         /\ known' \in Clicks /\ known' >= known /\ known' >= clicks[c].since
         /\ known' \in {known, clicks[c].since}
         /\ outdated' = (outdated \/ clicks[c].since < known)
<1>1. clicks[c].of = Field /\ clicks[c].to \in Person
  BY TypesOf DEF Basis, Structure, ClickKinds
<1> DEFINE another == [users EXCEPT ![Field] = clicks[c].to]
<1>2. /\ ListBecomes(another) /\ known' = IF clicks[c].since > known THEN clicks[c].since ELSE known
      /\ outdated' = (outdated \/ clicks[c].since < known)
  BY <1>1 DEF RequestAnswered
<1>3. /\ another \in Table /\ another[Field] = clicks[c].to /\ another[Field] # Gone
      /\ \A u \in Named : u # Field => another[u] = users[u]
  BY <1>1, TypesOf, NobodyAssumption, Numbers DEF TableTypeOK, Table, Shows
<1> HIDE DEF another
<1>4. users' = another /\ users' # Unfetched /\ {field', typed'} \subseteq 0..MaxTyped
  <2>1. users' \in Table /\ {field', typed'} \subseteq 0..MaxTyped
    BY <1>2, <1>3, ListTypes, TypesOf DEF TableTypeOK
  <2>2. users' = another
    BY <1>2 DEF ListBecomes
  <2> QED BY <2>1, <2>2, NobodyAssumption
<1>5. /\ typed' = typed
      /\ \/ field' = field /\ users[Field].name = clicks[c].to.name
         \/ field' = clicks[c].to.name
  BY <1>2, <1>3 DEF ListBecomes
<1>6. known' \in Clicks /\ known' >= known /\ known' >= clicks[c].since /\ known' \in {known, clicks[c].since}
  <2>1. known \in Clicks /\ clicks[c].since \in Clicks
    BY TypesOf, ClickFields DEF TableTypeOK
  <2>2. known \in Nat /\ clicks[c].since \in Nat
    BY TypesOf
  <2>3. CASE clicks[c].since > known
    BY <1>2, <2>1, <2>2, <2>3
  <2>4. CASE ~(clicks[c].since > known)
    BY <1>2, <2>1, <2>2, <2>4
  <2> QED BY <2>3, <2>4
<1> QED BY <1>1, <1>2, <1>3, <1>4, <1>5, <1>6

LEMMA AnsweredBasis ==
  ASSUME Basis, NEW c \in Clicks, RequestAnswered(c)
  PROVE  Basis'
<1>1. /\ clicks[c].at = "done" /\ shared' = NoFetch /\ clicks' \in [Clicks -> Click]
      /\ clicks'[c].at = IF clicks[c].does \in {"name", "restart"} THEN "over" ELSE "answered"
      /\ clicks'[c].does = clicks[c].does /\ clicks'[c].of = clicks[c].of
      /\ clicks'[c].to = clicks[c].to /\ clicks'[c].since = clicks[c].since
      /\ \A d \in Clicks : d # c => clicks'[d] = clicks[d]
      /\ UNCHANGED <<userRows, clicked, fetches, changes, losses>>
      /\ ChangesStay
  BY AnsweredFields
<1>2. /\ users' \in Table \union {Unfetched} /\ {field', typed'} \subseteq 0..MaxTyped
      /\ known' \in Clicks /\ known' <= changes /\ outdated' \in BOOLEAN /\ ListStays
  <2>1. CASE clicks[c].does = "name" /\ Shows(Field)
    <3>1. clicks[c].since <= changes /\ known <= changes
      BY DEF Basis, Structure, Numbered
    <3>2. known' <= changes
      BY <2>1, <3>1, NameAnsweredFields
    <3>3. outdated' \in BOOLEAN
      BY <2>1, NameAnsweredFields, TypesOf DEF TableTypeOK
    <3>4. ListStays
      BY <2>1, NameAnsweredFields, Numbers, TypesOf DEF ListStays, Shows
    <3> QED BY <2>1, <3>2, <3>3, <3>4, NameAnsweredFields
  <2>2. CASE ~(clicks[c].does = "name" /\ Shows(Field))
    <3>1. clicks[c].does = "name" => clicks[c].of = Field
      BY DEF Basis, Structure, ClickKinds
    <3>2. UNCHANGED <<users, field, typed, known, outdated>>
      BY <2>2, <3>1 DEF RequestAnswered
    <3>3. known <= changes
      BY DEF Basis, Structure, Numbered
    <3> QED BY <3>2, <3>3, TypesOf DEF TableTypeOK, ListStays
  <2> QED BY <2>1, <2>2
<1>3. Structure'
  <2>1. AllGoOn
    BY <1>1 DEF AllGoOn, GoesOn
  <2>2. TableTypeOK'
    BY <1>1, <1>2, TypesOf DEF TableTypeOK
  <2>3. \A f \in Fetches : fetches'[f].holds <= changes
    BY <1>1 DEF Basis, Structure, Numbered
  <2> QED BY <1>1, <1>2, <2>1, <2>2, <2>3, GoOnStructure DEF Basis
<1>4. Waits'
  <2>1. \A d \in Clicks : clicks'[d].at = "reading" => clicks'[d] = clicks[d]
    BY <1>1
  <2> QED BY <1>1, <2>1, ReadingsKept DEF Basis, Waits
<1>5. Changes'
  BY <1>1, <1>2, ChangesKept, GoneForGoodKept DEF Basis, Changes, Structure
<1> QED BY <1>3, <1>4, <1>5 DEF Basis

\* The list and the field are those of the name that was saved.
LEMMA NameAnsweredTold ==
  ASSUME Basis, Told, ~Excused, ~Excused', NEW c \in Clicks, RequestAnswered(c),
         clicks[c].does = "name", Shows(Field)
  PROVE  Told'
<1>1. /\ clicks[c].at = "done" /\ clicks'[c].at = "over"
      /\ clicks'[c].does = clicks[c].does /\ clicks'[c].of = clicks[c].of
      /\ clicks'[c].to = clicks[c].to /\ clicks'[c].since = clicks[c].since
      /\ \A d \in Clicks : d # c => clicks'[d] = clicks[d]
      /\ UNCHANGED <<userRows, clicked, fetches, changes, losses>>
      /\ ChangesStay
  BY AnsweredFields
<1>2. /\ clicks[c].of = Field /\ users' # Unfetched /\ users'[Field] = clicks[c].to /\ users'[Field] # Gone
      /\ \A u \in Named : u # Field => users'[u] = users[u]
      /\ typed' = typed
      /\ field' = field \/ field' = clicks[c].to.name
      /\ known' \in Clicks /\ known' >= known /\ known' >= clicks[c].since /\ known' \in {known, clicks[c].since}
      /\ outdated' = (outdated \/ clicks[c].since < known)
  BY NameAnsweredFields
<1>3. known \in Nat /\ clicks[c].since \in Nat /\ known' \in Nat /\ known' = clicks[c].since
  <2>1. known \in Nat /\ clicks[c].since \in Nat /\ known' \in Nat
    BY <1>2, TypesOf, Numbers
  <2>2. ~(clicks[c].since < known)
    BY <1>2 DEF Excused
  <2> QED BY <1>2, <2>1, <2>2
<1>4. clicks[c].to.name = typed
  BY <1>1 DEF Told, NameAsTyped, NameUnderWay
<1>5. Changed(c)
  BY <1>1 DEF Changed, Basis, Structure, Numbered
<1>6. ListFollows'
  <2> SUFFICES ASSUME NEW u \in Named, users'[u] # userRows[u]
               PROVE  \E d \in Clicks : LastToChange(d)' /\ clicks'[d].of = u /\ Pending(d)'
    BY <1>1, <1>2 DEF ListFollows
  <2>1. PICK d \in Clicks : LastToChange(d) /\ clicks[d].of = u /\ Pending(d) /\ d # c
    <3>1. CASE u = Field
      <4>1. ~LastToChange(c)
        BY <1>1, <1>2, <3>1 DEF Basis, Changes, LastNamed
      <4>2. PICK d \in Clicks : LastToChange(d) /\ clicks[d].of = Field
        BY <1>2, <1>5 DEF Basis, Changes, LastIs
      <4>3. d # c /\ Changed(d)
        BY <4>1, <4>2 DEF LastToChange
      <4>4. clicks[d].since > clicks[c].since
        <5>1. clicks[c].since <= clicks[d].since
          BY <1>2, <1>5, <4>2 DEF LastToChange
        <5>2. clicks[c].since # clicks[d].since
          <6>1. ASSUME clicks[c].since = clicks[d].since PROVE LastToChange(c)
            BY <1>2, <1>5, <4>2, <6>1 DEF LastToChange
          <6> QED BY <4>1, <6>1
        <5> QED BY <5>1, <5>2, TypesOf
      <4>5. clicks[d].since > known
        BY <1>2, <1>3, <4>4, TypesOf
      <4> QED BY <3>1, <4>2, <4>3, <4>5, NotOver
    <3>2. CASE u # Field
      <4>1. users[u] # userRows[u]
        BY <1>2, <3>2
      <4> QED BY <1>2, <3>2, <4>1 DEF Told, ListFollows, Shows
    <3> QED BY <3>1, <3>2
  <2> QED BY <1>1, <2>1, LastStays DEF Pending
<1>7. OverIsKnown'
  <2> SUFFICES ASSUME NEW d \in Clicks, Changed(d)', clicks'[d].at = "over" PROVE clicks'[d].since <= known'
    BY DEF OverIsKnown
  <2>1. CASE d = c
    BY <1>1, <1>3, <2>1
  <2>2. CASE d # c
    <3>1. clicks'[d] = clicks[d] /\ Changed(d)
      BY <1>1, <2>2, LastStays
    <3>2. clicks[d].since <= known
      BY <2>2, <3>1 DEF Told, OverIsKnown
    <3> QED BY <1>2, <1>3, <3>1, <3>2, TypesOf
  <2> QED BY <2>1, <2>2
<1>8. DraftKept'
  <2>1. field = typed
    BY DEF Told, DraftKept, Excused
  <2> QED BY <1>2, <1>4, <2>1 DEF DraftKept
<1>9. \A d \in Clicks : ~NameUnderWay(d)'
  <2>1. ASSUME NEW d \in Clicks, NameUnderWay(d)' PROVE FALSE
    <3>1. d # c /\ clicks'[d] = clicks[d]
      BY <1>1, <2>1 DEF NameUnderWay
    <3>2. NameUnderWay(d) /\ NameUnderWay(c)
      BY <1>1, <2>1, <3>1 DEF NameUnderWay
    <3> QED BY <3>1, <3>2 DEF Basis, Structure, OneName
  <2> QED BY <2>1
<1>10. NameAsTyped'
  BY <1>9 DEF NameAsTyped
<1>11. typed' \in 0..MaxTyped /\ NamesFrom(typed)'
  <2>1. typed \in 0..MaxTyped
    BY TypesOf DEF TableTypeOK
  <2>2. PICK base \in 0..MaxTyped : NamesFrom(base)
    BY DEF Told
  <2>3. \A at : NamedBy(at)' <=> FALSE
    BY <1>9 DEF NamedBy, NameUnderWay
  <2>4. \A at \in Nat : at >= clicks[c].since => NameAt(base, at) = typed
    BY <1>1 DEF NameAt, NamedBy
  <2>5. ASSUME NEW f \in Fetches, fetches[f].at = "read", fetches[f].holds >= known', fetches[f].rows[Field] # Gone
        PROVE  fetches[f].rows[Field].name = typed
    <3>1. fetches[f].holds \in Nat /\ fetches[f].holds >= known /\ fetches[f].holds >= clicks[c].since
      BY <1>2, <1>3, <2>5, TypesOf
    <3> QED BY <2>2, <2>4, <2>5, <3>1 DEF NamesFrom
  <2>6. userRows[Field] # Gone => userRows[Field].name = typed
    <3>1. changes \in Nat /\ changes >= clicks[c].since
      BY TypesOf DEF Basis, Structure, Numbered
    <3> QED BY <2>2, <2>4, <3>1 DEF NamesFrom
  <2> QED BY <1>1, <1>2, <1>4, <2>1, <2>3, <2>5, <2>6 DEF NamesFrom, NameAt, NamedBy
<1> QED BY <1>6, <1>7, <1>8, <1>10, <1>11 DEF Told

LEMMA OtherAnsweredTold ==
  ASSUME Basis, Told, ~Excused, NEW c \in Clicks, RequestAnswered(c), ~(clicks[c].does = "name" /\ Shows(Field))
  PROVE  Told'
<1>1. /\ clicks[c].at = "done"
      /\ clicks'[c].at = IF clicks[c].does \in {"name", "restart"} THEN "over" ELSE "answered"
      /\ clicks'[c].does = clicks[c].does /\ clicks'[c].of = clicks[c].of
      /\ clicks'[c].to = clicks[c].to /\ clicks'[c].since = clicks[c].since
      /\ \A d \in Clicks : d # c => clicks'[d] = clicks[d]
      /\ UNCHANGED <<userRows, clicked, fetches, changes, losses>>
      /\ ChangesStay
  BY AnsweredFields
<1>2. clicks[c].does = "name" => clicks[c].of = Field
  BY DEF Basis, Structure, ClickKinds
<1>3. UNCHANGED <<users, field, typed, known, outdated>>
  BY <1>2 DEF RequestAnswered
\* A name that is answered to a page without the user.
<1>4. ASSUME clicks[c].does = "name"
      PROVE  /\ users # Unfetched /\ users[Field] = Gone /\ userRows[Field] = Gone /\ clicks[c].since <= known
             /\ \A f \in Fetches : fetches[f].at = "read" /\ fetches[f].holds >= known => fetches[f].rows[Field] = Gone
  <2>1. users # Unfetched /\ users[Field] = Gone
    BY <1>4 DEF Told, ListFollows, Shows
  <2>2. GoneFor(users, known)
    BY <2>1 DEF Basis, Changes, GoneForGood
  <2> QED BY <1>4, <2>1, <2>2 DEF GoneFor
<1>5. ASSUME NEW d \in Clicks, Changed(d), clicks[d].at # "over", clicks'[d].at = "over"
      PROVE  d = c /\ clicks[c].does = "name"
  BY <1>1, <1>5 DEF Changed
<1>6. ListFollows'
  <2>1. ASSUME users = Unfetched PROVE clicks'[0].at = "reading" /\ known = 0 /\ \A d \in Clicks : clicks'[d].does # "name"
    <3>1. clicks[0].at = "reading" /\ known = 0 /\ \A d \in Clicks : clicks[d].does # "name"
      BY <2>1 DEF Told, ListFollows
    <3>2. c # 0
      BY <1>1, <3>1
    <3> QED BY <1>1, <3>1, <3>2, Numbers
  <2>2. ASSUME users # Unfetched, NEW u \in Named, users[u] # userRows[u]
        PROVE  \E d \in Clicks : LastToChange(d)' /\ clicks'[d].of = u /\ Pending(d)'
    <3>1. PICK d \in Clicks : LastToChange(d) /\ clicks[d].of = u /\ Pending(d)
      BY <2>2 DEF Told, ListFollows
    <3>2. Changed(d)
      BY <3>1 DEF LastToChange
    <3>3. ~(d = c /\ clicks[c].does = "name")
      BY <1>2, <1>4, <2>2, <3>1
    <3>4. clicks'[d].at # "over"
      BY <1>5, <3>1, <3>2, <3>3 DEF Pending
    <3>5. Pending(d)'
      BY <1>1, <3>1, <3>4 DEF Pending
    <3> QED BY <1>1, <3>1, <3>2, <3>5, LastStays
  <2> QED BY <1>1, <1>3, <2>1, <2>2 DEF ListFollows
<1>7. OverIsKnown'
  <2> SUFFICES ASSUME NEW d \in Clicks, Changed(d)', clicks'[d].at = "over" PROVE clicks[d].since <= known
    BY <1>1, <1>3 DEF OverIsKnown, ChangesStay
  <2>1. Changed(d)
    BY <1>1, LastStays
  <2>2. CASE clicks[d].at = "over"
    BY <2>1, <2>2 DEF Told, OverIsKnown
  <2>3. CASE clicks[d].at # "over"
    BY <1>4, <1>5, <2>1, <2>3
  <2> QED BY <2>2, <2>3
<1>8. DraftKept' /\ NameAsTyped'
  <2>1. Shows(Field)' <=> Shows(Field)
    BY <1>3 DEF Shows
  <2>2. \A d \in Clicks : NameUnderWay(d)' => NameUnderWay(d) /\ clicks'[d].to = clicks[d].to
    BY <1>1 DEF NameUnderWay
  <2> QED BY <1>3, <2>1, <2>2 DEF Told, DraftKept, NameAsTyped, Excused
<1>9. PICK base \in 0..MaxTyped : NamesFrom(base)
  BY DEF Told
<1>10. NamesFrom(base)'
  <2>1. CASE clicks[c].does = "name"
    BY <1>1, <1>3, <1>4, <2>1 DEF NamesFrom, Shows
  <2>2. CASE clicks[c].does # "name"
    <3>1. \A at : NamedBy(at)' <=> NamedBy(at)
      <4>1. \A d \in Clicks : clicks[d].does = "name" => clicks'[d] = clicks[d]
        BY <1>1, <2>2
      <4>2. \A d \in Clicks : clicks'[d].does = "name" => clicks'[d] = clicks[d]
        BY <1>1, <2>2
      <4> QED BY <4>1, <4>2 DEF NamedBy
    <3>2. \A at : NameAt(base, at)' = NameAt(base, at)
      BY <1>3, <3>1 DEF NameAt
    <3>3. ASSUME NEW f \in Fetches, fetches[f].at = "read", fetches[f].holds >= known, fetches[f].rows[Field] # Gone
          PROVE  fetches[f].rows[Field].name = NameAt(base, fetches[f].holds)'
      <4>1. fetches[f].rows[Field].name = NameAt(base, fetches[f].holds)
        BY <1>9, <3>3 DEF NamesFrom
      <4>2. NameAt(base, fetches[f].holds)' = NameAt(base, fetches[f].holds)
        BY <1>1, <3>2 DEF NameAt, NamedBy
      <4> QED BY <4>1, <4>2
    <3>4. userRows'[Field] # Gone => userRows'[Field].name = NameAt(base, changes)'
      <4>1. NameAt(base, changes)' = NameAt(base, changes)
        BY <1>1, <3>2 DEF NameAt, NamedBy
      <4> QED BY <1>1, <1>9, <4>1 DEF NamesFrom
    <3>5. Shows(Field)' => users'[Field].name = NameAt(base, known)'
      <4>1. NameAt(base, known)' = NameAt(base, known)
        BY <1>3, <3>2 DEF NameAt, NamedBy
      <4> QED BY <1>3, <1>9, <4>1 DEF NamesFrom, Shows
    <3> QED BY <1>1, <1>3, <3>3, <3>4, <3>5 DEF NamesFrom
  <2> QED BY <2>1, <2>2
<1> QED BY <1>6, <1>7, <1>8, <1>10 DEF Told

LEMMA AnsweredConsistent ==
  ASSUME TableConsistent, NEW c \in Clicks, RequestAnswered(c)
  PROVE  TableConsistent'
<1>1. Basis /\ (~Excused => Told)
  BY ConsistentBy
<1>2. ~Excused' => ~Excused
  <2>1. losses' = losses /\ (outdated => outdated')
    BY <1>1, AnsweredFields DEF RequestAnswered
  <2> QED BY <2>1 DEF Excused
<1>3. Basis' /\ (~Excused' => Told')
  BY <1>1, <1>2, AnsweredBasis, NameAnsweredTold, OtherAnsweredTold
<1> QED BY <1>3 DEF TableConsistent, Basis, Structure, Waits, Changes, Told

-----------------------------------------------------------------------------
\* A request is carried out.
LEMMA ChangedFields ==
  ASSUME Basis, NEW c \in Clicks, TableChanged(c)
  PROVE  /\ clicks[c].at = "sent" /\ clicks[c].since = 0 /\ clicks[c].does # "load"
         /\ clicks[c].does \in {"toggle", "remove", "name"} => userRows[clicks[c].of] # Gone
         /\ userRows' \in Table /\ changes' = changes + 1 /\ changes' \in Clicks /\ changes' # 0
         /\ changes' + Cardinality(Sent \ {c}) <= clicked
         /\ clicks' \in [Clicks -> Click]
         /\ \A d \in Clicks : d # c => clicks'[d] = clicks[d]
         /\ clicks'[c].at = "done" /\ clicks'[c].since = changes'
         /\ clicks'[c].does = clicks[c].does /\ clicks'[c].of = clicks[c].of
         /\ clicks'[c].to = IF clicks[c].does = "name" THEN userRows'[clicks[c].of] ELSE clicks[c].to
         /\ \A u \in Named : u # clicks[c].of => userRows'[u] = userRows[u]
         /\ clicks[c].does = "restart" => userRows' = userRows
         /\ clicks[c].does \in {"create", "name", "toggle"} => userRows'[clicks[c].of] \in Person
         /\ clicks[c].does = "remove" => userRows'[clicks[c].of] = Gone
         /\ clicks[c].does = "name" => userRows'[clicks[c].of].name = clicks[c].to.name
         /\ clicks[c].does = "toggle" => userRows'[clicks[c].of].name = userRows[clicks[c].of].name
         /\ UNCHANGED <<users, clicked, fetches, shared, field, typed, known, outdated, losses>>
<1>1. /\ clicks[c].at = "sent" /\ userRows' = Altered(clicks[c]) /\ changes' = changes + 1
      /\ clicks[c].does \in {"toggle", "remove", "name"} => userRows[clicks[c].of] # Gone
      /\ UNCHANGED <<users, clicked, fetches, shared, field, typed, known, outdated, losses>>
  BY DEF TableChanged
<1>2. clicks[c].since = 0 /\ clicks[c].does # "load"
  BY <1>1 DEF Basis, Structure, Numbered, ClickKinds
<1>3. /\ userRows' \in Table
      /\ \A u \in Named : u # clicks[c].of => userRows'[u] = userRows[u]
      /\ clicks[c].does = "restart" => userRows' = userRows
      /\ clicks[c].does \in {"create", "name", "toggle"} => userRows'[clicks[c].of] \in Person
      /\ clicks[c].does = "remove" => userRows'[clicks[c].of] = Gone
      /\ clicks[c].does = "name" => userRows'[clicks[c].of].name = clicks[c].to.name
      /\ clicks[c].does = "toggle" => userRows'[clicks[c].of].name = userRows[clicks[c].of].name
  BY <1>1, <1>2, AlteredTypes, TypesOf DEF TableTypeOK
<1>4. changes' \in Clicks /\ changes' # 0 /\ changes' + Cardinality(Sent \ {c}) <= clicked
  <2>1. c \in Sent /\ Sent \subseteq Clicks /\ Sent \ {c} \subseteq Clicks
    BY <1>1 DEF Sent
  <2>2. Cardinality(Sent \ {c}) = Cardinality(Sent) - 1 /\ Cardinality(Sent) \in Nat /\ Cardinality(Sent \ {c}) \in Nat
    BY <2>1, SentFinite, FS_RemoveElement
  <2>3. changes + Cardinality(Sent) <= clicked
    BY DEF Basis, Structure, InTurn
  <2>4. clicked <= MaxClicks /\ changes \in Nat /\ clicked \in Nat /\ MaxClicks \in Nat
    BY TypesOf, Numbers DEF TableTypeOK, Clicks
  <2> QED BY <1>1, <2>2, <2>3, <2>4 DEF Clicks
<1>5. ASSUME NEW k \in Click, NEW n \in Clicks, NEW person \in Person
      PROVE  [k EXCEPT !.at = "done", !.since = n, !.to = person] \in Click
  BY DEF Click
<1>6. PICK person \in Person :
        /\ person = IF clicks[c].does = "name" THEN userRows'[clicks[c].of] ELSE clicks[c].to
        /\ clicks' = [clicks EXCEPT ![c] = [clicks[c] EXCEPT !.at = "done", !.since = changes', !.to = person]]
  <2> DEFINE person == IF clicks[c].does = "name" THEN userRows'[clicks[c].of] ELSE clicks[c].to
  <2>1. person \in Person
    BY <1>3, TypesOf
  <2>2. clicks' = [clicks EXCEPT ![c] = [clicks[c] EXCEPT !.at = "done", !.since = changes', !.to = person]]
    <3>1. clicks' = [clicks EXCEPT ![c].at = "done", ![c].since = changes',
                       ![c].to = IF clicks[c].does = "name" THEN userRows'[clicks[c].of] ELSE @]
      BY DEF TableChanged
    <3>2. clicks \in [Clicks -> Click] /\ clicks[c] \in Click
      BY TypesOf
    <3> QED BY <3>1, <3>2 DEF Click
  <2> QED BY <2>1, <2>2
<1>7. clicks[c] \in Click /\ clicks \in [Clicks -> Click]
  BY TypesOf
<1>8. /\ clicks' \in [Clicks -> Click] /\ \A d \in Clicks : d # c => clicks'[d] = clicks[d]
      /\ clicks'[c] = [clicks[c] EXCEPT !.at = "done", !.since = changes', !.to = person]
  BY <1>4, <1>5, <1>6, <1>7
<1>9. /\ clicks'[c].at = "done" /\ clicks'[c].since = changes' /\ clicks'[c].to = person
      /\ clicks'[c].does = clicks[c].does /\ clicks'[c].of = clicks[c].of
  <2>1. PICK n \in Clicks : n = changes'
    BY <1>4
  <2>2. PICK k \in Click : k = clicks[c]
    BY <1>7
  <2> DEFINE carried == [k EXCEPT !.at = "done", !.since = n, !.to = person]
  <2>3. clicks'[c] = carried
    BY <1>8, <2>1, <2>2
  <2>4. /\ carried.at = "done" /\ carried.since = n /\ carried.to = person
        /\ carried.does = k.does /\ carried.of = k.of
    BY DEF Click
  <2> HIDE DEF carried
  <2> QED BY <2>1, <2>2, <2>3, <2>4
<1> QED BY <1>1, <1>2, <1>3, <1>4, <1>6, <1>8, <1>9

\* The click that is carried out becomes the last to change its user.
LEMMA LastAfterChange ==
  ASSUME Basis, NEW c \in Clicks, TableChanged(c)
  PROVE  /\ Changed(c)' <=> clicks[c].does # "restart"
         /\ Changed(c)' => LastToChange(c)'
         /\ \A d \in Clicks : d # c => (Changed(d)' <=> Changed(d))
         /\ \A d \in Clicks : d # c /\ (clicks[d].of # clicks[c].of \/ clicks[c].does = "restart") =>
              (LastToChange(d)' <=> LastToChange(d))
         /\ \A d \in Clicks : d # c /\ clicks[d].of = clicks[c].of /\ clicks[c].does # "restart" => ~LastToChange(d)'
         /\ ~Changed(c)
<1>1. /\ clicks[c].since = 0 /\ changes' = changes + 1 /\ changes' # 0 /\ changes \in Nat
      /\ clicks'[c].since = changes' /\ clicks'[c].does = clicks[c].does /\ clicks'[c].of = clicks[c].of
      /\ \A d \in Clicks : d # c => clicks'[d] = clicks[d]
  BY ChangedFields, TypesOf
<1>2. \A d \in Clicks : clicks[d].since <= changes /\ clicks[d].since \in Nat
  BY TypesOf DEF Basis, Structure, Numbered
<1>3. (Changed(c)' <=> clicks[c].does # "restart") /\ ~Changed(c)
  BY <1>1 DEF Changed
<1>4. \A d \in Clicks : d # c => (Changed(d)' <=> Changed(d))
  BY <1>1 DEF Changed
<1>5. Changed(c)' => LastToChange(c)'
  <2> SUFFICES ASSUME Changed(c)', NEW d \in Clicks PROVE clicks'[d].since <= clicks'[c].since
    BY DEF LastToChange
  <2>1. CASE d = c
    BY <1>1, <2>1
  <2>2. CASE d # c
    BY <1>1, <1>2, <2>2
  <2> QED BY <2>1, <2>2
<1>6. ASSUME NEW d \in Clicks, d # c, clicks[d].of # clicks[c].of \/ clicks[c].does = "restart"
      PROVE  LastToChange(d)' <=> LastToChange(d)
  <2>1. \A e \in Clicks : Changed(e)' /\ clicks'[e].of = clicks[d].of <=> Changed(e) /\ clicks[e].of = clicks[d].of
    BY <1>1, <1>3, <1>4, <1>6
  <2>2. \A e \in Clicks : Changed(e) /\ clicks[e].of = clicks[d].of => e # c /\ clicks'[e] = clicks[e]
    BY <1>1, <1>3
  <2> QED BY <1>1, <1>4, <1>6, <2>1, <2>2 DEF LastToChange
<1>7. ASSUME NEW d \in Clicks, d # c, clicks[d].of = clicks[c].of, clicks[c].does # "restart", LastToChange(d)'
      PROVE  FALSE
  <2>1. clicks'[c].since <= clicks'[d].since
    BY <1>1, <1>3, <1>7 DEF LastToChange
  <2> QED BY <1>1, <1>2, <1>7, <2>1
<1> QED BY <1>3, <1>4, <1>5, <1>6, <1>7

LEMMA ChangedStructure ==
  ASSUME Basis, NEW c \in Clicks, TableChanged(c)
  PROVE  Structure' /\ Waits'
<1>1. /\ clicks[c].at = "sent" /\ clicks[c].since = 0 /\ clicks[c].does # "load"
      /\ userRows' \in Table /\ changes' = changes + 1 /\ changes' \in Clicks /\ changes' # 0
      /\ changes' + Cardinality(Sent \ {c}) <= clicked
      /\ clicks' \in [Clicks -> Click]
      /\ \A d \in Clicks : d # c => clicks'[d] = clicks[d]
      /\ clicks'[c].at = "done" /\ clicks'[c].since = changes'
      /\ clicks'[c].does = clicks[c].does /\ clicks'[c].of = clicks[c].of
      /\ UNCHANGED <<users, clicked, fetches, shared, field, typed, known, outdated, losses>>
  BY ChangedFields
<1>2. TableTypeOK'
  BY <1>1, TypesOf DEF TableTypeOK
<1>3. InTurn'
  <2>1. Sent' = Sent \ {c}
    BY <1>1 DEF Sent
  <2>2. \A d \in Clicks : d > clicked => clicks'[d].at = "unused"
    BY <1>1 DEF Basis, Structure, InTurn
  <2> QED BY <1>1, <2>1, <2>2 DEF InTurn
<1>4. Numbered'
  BY <1>1, TypesOf DEF Basis, Structure, Numbered
<1>5. ClickKinds'
  BY <1>1 DEF Basis, Structure, ClickKinds
<1>6. OneName'
  <2>1. \A d \in Clicks : NameUnderWay(d)' <=> NameUnderWay(d)
    BY <1>1 DEF NameUnderWay
  <2> QED BY <2>1 DEF Basis, Structure, OneName
<1>7. Waits'
  <2>1. \A d \in Clicks : clicks'[d].at \in {"reading", "answered"} => clicks'[d] = clicks[d]
    BY <1>1
  <2> QED BY <1>1, <2>1, ReadingsKept DEF Basis, Waits
<1> QED BY <1>2, <1>3, <1>4, <1>5, <1>6, <1>7 DEF Structure

LEMMA ChangedChanges ==
  ASSUME Basis, NEW c \in Clicks, TableChanged(c)
  PROVE  Changes'
<1>1. /\ clicks[c].at = "sent" /\ clicks[c].since = 0 /\ changes' = changes + 1 /\ changes \in Nat
      /\ clicks[c].does \in {"toggle", "remove", "name"} => userRows[clicks[c].of] # Gone
      /\ \A d \in Clicks : d # c => clicks'[d] = clicks[d]
      /\ clicks'[c].at = "done" /\ clicks'[c].since = changes'
      /\ clicks'[c].does = clicks[c].does /\ clicks'[c].of = clicks[c].of
      /\ clicks'[c].to = IF clicks[c].does = "name" THEN userRows'[clicks[c].of] ELSE clicks[c].to
      /\ \A u \in Named : u # clicks[c].of => userRows'[u] = userRows[u]
      /\ clicks[c].does = "restart" => userRows' = userRows
      /\ UNCHANGED <<users, fetches, known>>
  BY ChangedFields, TypesOf
<1>2. /\ Changed(c)' <=> clicks[c].does # "restart"
      /\ Changed(c)' => LastToChange(c)'
      /\ \A d \in Clicks : d # c => (Changed(d)' <=> Changed(d))
      /\ \A d \in Clicks : d # c /\ (clicks[d].of # clicks[c].of \/ clicks[c].does = "restart") =>
           (LastToChange(d)' <=> LastToChange(d))
      /\ \A d \in Clicks : d # c /\ clicks[d].of = clicks[c].of /\ clicks[c].does # "restart" => ~LastToChange(d)'
      /\ ~Changed(c)
  BY LastAfterChange
<1>3. clicks[c].does \in {"create", "toggle", "remove", "name", "restart"}
  <2>1. clicks[c] \in Click /\ clicks[c].does # "load"
    BY TypesOf, ChangedFields
  <2> QED BY <2>1, ClickFields
<1>4. LastIs'
  <2> SUFFICES ASSUME NEW e \in Clicks, Changed(e)'
               PROVE  \E d \in Clicks : LastToChange(d)' /\ clicks'[d].of = clicks'[e].of
    BY DEF LastIs
  <2>1. CASE clicks[e].of = clicks[c].of /\ clicks[c].does # "restart"
    <3>1. clicks'[e].of = clicks[e].of
      BY <1>1
    <3> QED BY <1>1, <1>2, <2>1, <3>1
  <2>2. CASE clicks[e].of # clicks[c].of \/ clicks[c].does = "restart"
    <3>1. e # c /\ Changed(e) /\ clicks'[e].of = clicks[e].of
      BY <1>1, <1>2, <2>2
    <3>2. PICK d \in Clicks : LastToChange(d) /\ clicks[d].of = clicks[e].of
      BY <3>1 DEF Basis, Changes, LastIs
    <3>3. d # c
      BY <1>2, <3>2 DEF LastToChange
    <3> QED BY <1>1, <1>2, <2>2, <3>1, <3>2, <3>3
  <2> QED BY <2>1, <2>2
<1>5. LastNamed'
  <2> SUFFICES ASSUME NEW d \in Clicks, clicks'[d].does = "name", clicks'[d].at = "done", LastToChange(d)'
               PROVE  clicks'[d].to = userRows'[Field]
    BY DEF LastNamed
  <2>1. CASE d = c
    <3>1. clicks[c].of = Field
      BY <1>1, <2>1 DEF Basis, Structure, ClickKinds
    <3> QED BY <1>1, <2>1, <3>1
  <2>2. CASE d # c
    <3>1. clicks'[d] = clicks[d] /\ clicks[d].of = Field
      BY <1>1, <2>2 DEF Basis, Structure, ClickKinds
    <3>2. clicks[c].of # Field \/ clicks[c].does = "restart"
      BY <1>2, <2>2, <3>1
    <3>3. LastToChange(d) /\ userRows'[Field] = userRows[Field]
      BY <1>1, <1>2, <2>2, <3>1, <3>2, Numbers
    <3> QED BY <3>1, <3>3 DEF Basis, Changes, LastNamed
  <2> QED BY <2>1, <2>2
<1>6. ReadingsFollow'
  <2> SUFFICES ASSUME NEW f \in Fetches, fetches[f].at = "read", NEW u \in Named, fetches[f].rows[u] # userRows'[u]
               PROVE  \E d \in Clicks : LastToChange(d)' /\ clicks'[d].of = u /\ clicks'[d].since > fetches[f].holds
    BY <1>1 DEF ReadingsFollow
  <2>1. CASE u = clicks[c].of /\ clicks[c].does # "restart"
    <3>1. fetches[f].holds <= changes /\ fetches[f].holds \in Nat
      BY TypesOf DEF Basis, Structure, Numbered
    <3>2. clicks'[c].since > fetches[f].holds
      BY <1>1, <3>1
    <3> QED BY <1>1, <1>2, <2>1, <3>2
  <2>2. CASE u # clicks[c].of \/ clicks[c].does = "restart"
    <3>1. PICK d \in Clicks : LastToChange(d) /\ clicks[d].of = u /\ clicks[d].since > fetches[f].holds
      BY <1>1, <2>2 DEF Basis, Changes, ReadingsFollow
    <3>2. d # c
      BY <1>2, <3>1 DEF LastToChange
    <3> QED BY <1>1, <1>2, <2>2, <3>1, <3>2
  <2> QED BY <2>1, <2>2
<1>7. GoneForGood'
  <2>1. userRows[Field] = Gone => userRows'[Field] = Gone /\ clicks[c].does # "name"
    <3>1. clicks[c].does = "create" => clicks[c].of # Field
      BY DEF Basis, Structure, ClickKinds
    <3>2. clicks[c].does = "name" => clicks[c].of = Field
      BY DEF Basis, Structure, ClickKinds
    <3> QED BY <1>1, <1>3, <3>1, <3>2, Numbers
  <2>2. ASSUME NEW another, NEW at, GoneFor(another, at)
        PROVE  another[Field] = Gone =>
                 /\ userRows'[Field] = Gone
                 /\ \A d \in Clicks : clicks'[d].does = "name" => clicks'[d].since <= at
                 /\ \A f \in Fetches : fetches[f].at = "read" /\ fetches[f].holds >= at => fetches[f].rows[Field] = Gone
    BY <1>1, <2>1, <2>2 DEF GoneFor
  <2>3. users' # Unfetched => GoneFor(users, known)'
    <3>1. users # Unfetched => GoneFor(users, known)
      BY DEF Basis, Changes, GoneForGood
    <3> QED BY <1>1, <2>2, <3>1 DEF GoneFor
  <2>4. ASSUME NEW f \in Fetches, fetches'[f].at = "read" PROVE GoneFor(fetches[f].rows, fetches[f].holds)'
    <3>1. GoneFor(fetches[f].rows, fetches[f].holds)
      BY <1>1, <2>4 DEF Basis, Changes, GoneForGood
    <3> QED BY <1>1, <2>2, <3>1 DEF GoneFor
  <2> QED BY <2>3, <2>4 DEF GoneForGood
<1> QED BY <1>4, <1>5, <1>6, <1>7 DEF Changes

LEMMA ChangedTold ==
  ASSUME Basis, Told, ~Excused, NEW c \in Clicks, TableChanged(c)
  PROVE  Told'
<1>1. /\ clicks[c].at = "sent" /\ clicks[c].since = 0 /\ changes' = changes + 1 /\ changes \in Nat
      /\ clicks[c].does \in {"toggle", "remove", "name"} => userRows[clicks[c].of] # Gone
      /\ \A d \in Clicks : d # c => clicks'[d] = clicks[d]
      /\ clicks'[c].at = "done" /\ clicks'[c].since = changes'
      /\ clicks'[c].does = clicks[c].does /\ clicks'[c].of = clicks[c].of
      /\ clicks'[c].to = IF clicks[c].does = "name" THEN userRows'[clicks[c].of] ELSE clicks[c].to
      /\ \A u \in Named : u # clicks[c].of => userRows'[u] = userRows[u]
      /\ clicks[c].does = "restart" => userRows' = userRows
      /\ clicks[c].does = "remove" => userRows'[clicks[c].of] = Gone
      /\ clicks[c].does = "name" => userRows'[clicks[c].of].name = clicks[c].to.name
      /\ clicks[c].does = "toggle" => userRows'[clicks[c].of].name = userRows[clicks[c].of].name
      /\ UNCHANGED <<users, clicked, fetches, shared, field, typed, known, outdated, losses>>
  BY ChangedFields, TypesOf
<1>2. /\ Changed(c)' <=> clicks[c].does # "restart"
      /\ Changed(c)' => LastToChange(c)'
      /\ \A d \in Clicks : d # c => (Changed(d)' <=> Changed(d))
      /\ \A d \in Clicks : d # c /\ (clicks[d].of # clicks[c].of \/ clicks[c].does = "restart") =>
           (LastToChange(d)' <=> LastToChange(d))
      /\ ~Changed(c)
  BY LastAfterChange
<1>3. /\ clicks[c].does \in {"create", "toggle", "remove", "name", "restart"}
      /\ clicks[c].does = "name" => clicks[c].of = Field
      /\ clicks[c].does = "create" => clicks[c].of # Field
  <2>1. clicks[c] \in Click /\ clicks[c].does # "load"
    BY TypesOf, ChangedFields
  <2> QED BY <2>1, ClickFields DEF Basis, Structure, ClickKinds
<1>4. ListFollows'
  <2>1. users = Unfetched => clicks'[0].at = "reading" /\ \A d \in Clicks : clicks'[d].does # "name"
    BY <1>1, Numbers DEF Told, ListFollows
  <2>2. ASSUME users # Unfetched, NEW u \in Named, users[u] # userRows'[u]
        PROVE  \E d \in Clicks : LastToChange(d)' /\ clicks'[d].of = u /\ Pending(d)'
    <3>1. CASE u = clicks[c].of /\ clicks[c].does # "restart"
      BY <1>1, <1>2, <3>1 DEF Pending
    <3>2. CASE u # clicks[c].of \/ clicks[c].does = "restart"
      <4>1. PICK d \in Clicks : LastToChange(d) /\ clicks[d].of = u /\ Pending(d)
        BY <1>1, <2>2, <3>2 DEF Told, ListFollows
      <4>2. d # c
        BY <1>2, <4>1 DEF LastToChange
      <4> QED BY <1>1, <1>2, <3>2, <4>1, <4>2 DEF Pending
    <3> QED BY <3>1, <3>2
  <2> QED BY <1>1, <2>1, <2>2 DEF Told, ListFollows
<1>5. OverIsKnown'
  BY <1>1, <1>2 DEF Told, OverIsKnown
<1>6. DraftKept'
  BY <1>1 DEF Told, DraftKept, Shows
<1>7. NameAsTyped'
  <2> SUFFICES ASSUME Shows(Field), NEW d \in Clicks, NameUnderWay(d)' PROVE clicks'[d].to.name = typed
    BY <1>1 DEF NameAsTyped, Shows
  <2>1. NameUnderWay(d)
    BY <1>1 DEF NameUnderWay
  <2>2. clicks[d].to.name = typed
    BY <2>1 DEF Told, NameAsTyped
  <2>3. clicks'[d].to.name = clicks[d].to.name
    <3>1. CASE d = c
      BY <1>1, <2>1, <3>1 DEF NameUnderWay
    <3>2. CASE d # c
      BY <1>1, <3>2
    <3> QED BY <3>1, <3>2
  <2> QED BY <2>2, <2>3
<1>8. PICK base \in 0..MaxTyped : NamesFrom(base)
  BY DEF Told
<1>9. NamesFrom(base)'
  <2>1. \A at \in Nat : at <= changes => (NamedBy(at)' <=> NamedBy(at))
    <3> SUFFICES ASSUME NEW at \in Nat, at <= changes PROVE NamedBy(at)' <=> NamedBy(at)
      OBVIOUS
    <3>1. ~(clicks'[c].since <= at)
      BY <1>1
    <3> QED BY <1>1, <3>1 DEF NamedBy
  <2>2. \A at \in Nat : at <= changes => NameAt(base, at)' = NameAt(base, at)
    BY <1>1, <2>1 DEF NameAt
  <2>3. known \in Nat /\ known <= changes
    BY TypesOf DEF Basis, Structure, Numbered
  <2>4. ASSUME NEW f \in Fetches, fetches'[f].at = "read", fetches'[f].holds >= known', fetches'[f].rows[Field] # Gone
        PROVE  fetches'[f].rows[Field].name = NameAt(base, fetches[f].holds)'
    <3>1. fetches[f].holds \in Nat /\ fetches[f].holds <= changes
      BY TypesOf DEF Basis, Structure, Numbered
    <3>2. NameAt(base, fetches[f].holds)' = NameAt(base, fetches[f].holds)
      <4>1. PICK at \in Nat : at = fetches[f].holds
        BY <3>1
      <4>2. NameAt(base, at)' = NameAt(base, at)
        BY <2>2, <3>1, <4>1
      <4> QED BY <1>1, <4>1, <4>2 DEF NameAt, NamedBy
    <3> QED BY <1>1, <1>8, <2>4, <3>2 DEF NamesFrom
  <2>5. Shows(Field)' => users'[Field].name = NameAt(base, known)'
    <3>1. NameAt(base, known)' = NameAt(base, known)
      <4>1. PICK at \in Nat : at = known /\ at <= changes
        BY <2>3
      <4>2. NameAt(base, at)' = NameAt(base, at)
        BY <2>2, <4>1
      <4> QED BY <1>1, <4>1, <4>2 DEF NameAt, NamedBy
    <3> QED BY <1>1, <1>8, <3>1 DEF NamesFrom, Shows
  <2>6. ASSUME userRows'[Field] # Gone PROVE userRows'[Field].name = NameAt(base, changes)'
    <3>1. CASE clicks[c].does = "name"
      <4>1. userRows'[Field].name = typed
        <5>1. users # Unfetched
          BY <3>1 DEF Told, ListFollows
        <5>2. Shows(Field)
          <6>1. ASSUME users[Field] = Gone PROVE FALSE
            <7>1. GoneFor(users, known)
              BY <5>1 DEF Basis, Changes, GoneForGood
            <7> QED BY <1>1, <1>3, <3>1, <6>1, <7>1 DEF GoneFor
          <6> QED BY <5>1, <6>1 DEF Shows
        <5> QED BY <1>1, <1>3, <3>1, <5>2 DEF Told, NameAsTyped, NameUnderWay
      <4>2. NamedBy(changes)'
        BY <1>1, <3>1 DEF NamedBy
      <4> QED BY <1>1, <4>1, <4>2 DEF NameAt
    <3>2. CASE clicks[c].does # "name"
      <4>1. userRows[Field] # Gone /\ userRows'[Field].name = userRows[Field].name
        BY <1>1, <1>3, <2>6, <3>2, Numbers
      <4>2. NamedBy(changes)' <=> NamedBy(changes)
        <5>1. \A d \in Clicks : clicks[d].since <= changes /\ clicks[d].since \in Nat
          BY TypesOf DEF Basis, Structure, Numbered
        <5> QED BY <1>1, <3>2, <5>1 DEF NamedBy
      <4> QED BY <1>1, <1>8, <4>1, <4>2 DEF NamesFrom, NameAt
    <3> QED BY <3>1, <3>2
  <2> QED BY <2>4, <2>5, <2>6 DEF NamesFrom, NameAt, NamedBy
<1> QED BY <1>4, <1>5, <1>6, <1>7, <1>9 DEF Told

LEMMA ChangedConsistent ==
  ASSUME TableConsistent, NEW c \in Clicks, TableChanged(c)
  PROVE  TableConsistent'
<1>1. Basis /\ (~Excused => Told)
  BY ConsistentBy
<1>2. ~Excused' => ~Excused
  BY DEF TableChanged, Excused
<1>3. Basis' /\ (~Excused' => Told')
  BY <1>1, <1>2, ChangedStructure, ChangedChanges, ChangedTold DEF Basis
<1> QED BY <1>3 DEF TableConsistent, Basis, Structure, Waits, Changes, Told

-----------------------------------------------------------------------------
\* The table keeps the invariant.
LEMMA TableStep ==
  ASSUME TableConsistent, [TableNext]_tableVars
  PROVE  TableConsistent'
<1>1. CASE TableNext
  BY <1>1, ButtonConsistent, TypesNameConsistent, ChangedConsistent, FailsConsistent, AnsweredConsistent,
     ReadsListConsistent, TableReadConsistent, TableArrivesConsistent, TableLostConsistent, Numbers
     DEF TableNext
<1>2. CASE UNCHANGED tableVars
  BY <1>2 DEF tableVars, TableConsistent, TableTypeOK, InTurn, Sent, Numbered, ClickKinds, OneName, NameUnderWay,
     ReadingsOpen, Open, SharedIsFresh, ReloadsAfterwards, LastIs, LastNamed, ReadingsFollow, GoneForGood, GoneFor,
     LastToChange, Changed, Excused, ListFollows, Pending, OverIsKnown, DraftKept, Shows, NameAsTyped, NamesFrom, NameAt,
     NamedBy
<1> QED BY <1>1, <1>2

\* It says that the list and the field are true.
LEMMA ConsistentUsersAsShown == TableConsistent => UsersAsShown
<1> SUFFICES ASSUME TableConsistent PROVE UsersAsShown
  OBVIOUS
<1>1. Basis /\ (~Excused => Told)
  BY ConsistentBy
<1>2. ReloadsAfterwards
  BY DEF TableConsistent
<1>3. DraftKept
  <2>1. CASE Excused
    BY <2>1 DEF DraftKept, Excused
  <2>2. CASE ~Excused
    BY <1>1, <2>2 DEF Told
  <2> QED BY <2>1, <2>2
<1>4. TableTrue
  <2> SUFFICES ASSUME \A c \in Clicks : clicks[c].at \in {"unused", "over"}, losses = 0, ~outdated
               PROVE  users = userRows
    BY DEF TableTrue
  <2>1. ListFollows
    BY <1>1 DEF Excused, Told
  <2>2. \A c \in Clicks : ~Pending(c)
    BY DEF Pending
  <2>3. users # Unfetched
    BY <2>1, Numbers DEF ListFollows
  <2>4. \A u \in Named : users[u] = userRows[u]
    BY <2>1, <2>2, <2>3 DEF ListFollows
  <2>5. users \in Table /\ userRows \in Table
    BY <1>1, <2>3, TypesOf DEF TableTypeOK
  <2> QED BY <2>4, <2>5 DEF Table
<1> QED BY <1>2, <1>3, <1>4 DEF UsersAsShown

-----------------------------------------------------------------------------
(***************************************************************************)
(* The parts together.                                                     *)
(***************************************************************************)

\* A step of the console is a step of the writer or leaves it alone.
LEMMA StreamMovesWriter ==
  ASSUME [StreamNext]_svars
  PROVE  [Next]_vars
<1>1. ASSUME StreamNext PROVE [Next]_vars
  <2>1. CASE Emit
    BY <2>1 DEF Emit, Next
  <2>2. CASE Writing
    BY <2>2 DEF Writing, Next
  <2>3. CASE Viewing
    BY <2>3 DEF Viewing, Mount, Unmount, Closed, Drop, Reconnect, Hide, Reveal, Publish, SendHistory,
       SendLines, ShowLines, Ask, Answer, AskFails
  <2> QED BY <1>1, <2>1, <2>2, <2>3 DEF StreamNext
<1>2. UNCHANGED svars => UNCHANGED vars
  BY DEF svars
<1> QED BY <1>1, <1>2

\* Every step of the pages is a step of each of their parts, or leaves it alone.
LEMMA PagesStep ==
  ASSUME [PagesNext]_pagesVars
  PROVE  /\ [StreamNext]_svars /\ [DashNext]_dashVars /\ [NoteFieldNext]_textVars
         /\ [PageNext]_pageVars /\ [FormNext]_formVars /\ [TableNext]_tableVars
BY DEF PagesNext, pagesVars, onlyStream, onlyCards, onlyForms

PagesConsistent ==
  /\ WriterConsistent /\ StreamConsistent /\ DashConsistent
  /\ TextConsistent /\ PageConsistent /\ FormConsistent /\ TableConsistent

\* The conjunction of the parts' invariants is inductive.
THEOREM PagesAlwaysConsistent == PagesSpec => []PagesConsistent
<1>1. PagesInit => PagesConsistent
  <2> SUFFICES ASSUME PagesInit PROVE PagesConsistent
    OBVIOUS
  <2>1. WriterConsistent /\ DashConsistent /\ TextConsistent /\ PageConsistent /\ FormConsistent /\ TableConsistent
    BY InitConsistent, DashInitConsistent, TextInitConsistent, PageInitConsistent, FormInitConsistent,
       TableInitConsistent DEF PagesInit, StreamInit
  <2>2. TypeOK
    BY <2>1 DEF WriterConsistent
  <2>3. StreamConsistent
    BY <2>2, StreamInitConsistent DEF PagesInit
  <2> QED BY <2>1, <2>3 DEF PagesConsistent
<1>2. PagesConsistent /\ [PagesNext]_pagesVars => PagesConsistent'
  <2> SUFFICES ASSUME PagesConsistent, [PagesNext]_pagesVars PROVE PagesConsistent'
    OBVIOUS
  <2>1. WriterConsistent'
    BY PagesStep, StreamMovesWriter, WriterStep DEF PagesConsistent
  <2>2. TypeOK'
    BY <2>1 DEF WriterConsistent
  <2>3. StreamConsistent'
    BY <2>2, PagesStep, StreamStep DEF PagesConsistent
  <2>4. DashConsistent' /\ TextConsistent' /\ PageConsistent' /\ FormConsistent' /\ TableConsistent'
    BY PagesStep, DashStep, TextStep, PageStep, FormStep, TableStep DEF PagesConsistent
  <2> QED BY <2>1, <2>3, <2>4 DEF PagesConsistent
<1> QED BY <1>1, <1>2, PTL DEF PagesSpec

\* The variables of six of the parts have their types, whatever the constants.
THEOREM PagesTypeCorrect ==
  PagesSpec => [](StreamTypeOK /\ DashTypeOK /\ TextTypeOK /\ PageTypeOK /\ FormTypeOK /\ TableTypeOK)
<1>1. PagesConsistent =>
        StreamTypeOK /\ DashTypeOK /\ TextTypeOK /\ PageTypeOK /\ FormTypeOK /\ TableTypeOK
  BY DEF PagesConsistent, StreamConsistent, DashConsistent, DashTypes, TextConsistent, PageConsistent,
         FormConsistent, TableConsistent
<1> QED BY <1>1, PagesAlwaysConsistent, PTL

\* The writer of BufferedWriter.ts writes what it is handed over once and in its
\* turn, or refuses it, whatever is retried line by line and whoever flushes.
THEOREM AlwaysWrittenAsEntered == PagesSpec => []WrittenAsEntered
<1>1. PagesConsistent => WrittenAsEntered
  BY WriterWritesAsEntered DEF PagesConsistent
<1> QED BY <1>1, PagesAlwaysConsistent, PTL

\* When flush of BufferedWriter.ts returns nothing is left to be written.
THEOREM FlushAlwaysComplete == PagesSpec => FlushIsComplete
<1>1. PagesConsistent /\ [PagesNext]_pagesVars
        => [\A f \in Flushers :
              flush[f] # Outside /\ flush'[f] = Outside => 1..accepted \subseteq Settled]_vars
  BY PagesStep, StreamMovesWriter, FlushIsLast DEF PagesConsistent
<1> QED BY <1>1, PagesAlwaysConsistent, PTL DEF PagesSpec, FlushIsComplete

\* While the socket is connected, of each text at least as many lines are shown or
\* on their way as websocket/routes.ts published to this connection, and once its
\* history is shown, as that held: for any number of lines, connections and
\* histories, whenever the tab is hidden or the socket cut. Of the order of lines,
\* and of a line shown twice, the theorem says nothing.
THEOREM LinesAlwaysKept == PagesSpec => []LiveLinesKept
<1>1. PagesConsistent => LiveLinesKept
  BY ConsistentLinesKept DEF PagesConsistent
<1> QED BY <1>1, PagesAlwaysConsistent, PTL

\* When nothing is under way the card of one account in DashboardPage.tsx shows its
\* image, status and last sale as they are, or is gone with the account, and the
\* sale shown never goes back, for any number of lists under way, news, batches
\* and connections, with the exceptions DashboardTrue names.
THEOREM DashboardAlwaysTrue == PagesSpec => DashboardTrue
<1>1. PagesConsistent => CardTrue
  BY ConsistentCardTrue DEF PagesConsistent
<1>2. PagesConsistent /\ PagesConsistent' /\ [PagesNext]_pagesVars
        => [{list, list'} \intersect {Unloaded, Absent} = {} /\ seen' = newest'
              => list'.sale >= list.sale]_dashVars
  BY PagesStep, SaleNeverBack DEF PagesConsistent
<1> QED BY <1>1, <1>2, PagesAlwaysConsistent, PTL DEF PagesSpec, DashboardTrue, CardTrue

\* Without a request or a timer the field of a note in DashboardPage.tsx shows what
\* is stored, for any number of keys, requests and lists, once a text was sent
\* with no other under way after the last of the exceptions NoteSaved names.
THEOREM NoteAlwaysSaved == PagesSpec => []NoteSaved
<1>1. PagesConsistent => NoteSaved
  BY ConsistentNoteSaved DEF PagesConsistent
<1> QED BY <1>1, PagesAlwaysConsistent, PTL

\* No answer to a request of AccountDetailPage.tsx is shown on the page of
\* another account, whatever is left, reopened and answered late, and a command
\* is cleared only when it was sent to the account shown.
THEOREM AnswersAlwaysStayHome == PagesSpec => AnswersStayHome
<1>1. PagesConsistent => PageSaysTrue
  BY ConsistentPageSaysTrue DEF PagesConsistent
<1>2. PagesConsistent /\ [PagesNext]_pagesVars
        => [command # 0 /\ command' = 0 /\ id' = id /\ asked' # asked
              => <<id, command>> \in sentTo]_pageVars
  BY PagesStep, TextGoesWhenSent DEF PagesConsistent
<1> QED BY <1>1, <1>2, PagesAlwaysConsistent, PTL DEF PagesSpec, AnswersStayHome, PageSaysTrue

\* What AccountSettingsPanel.tsx calls saved is in the row as it was pressed, and
\* a creator never loses the own account, whatever is edited, looked up and
\* closed while the two requests of a save are under way.
THEOREM AlwaysSavedAsPressed == PagesSpec => SavedAsPressed
<1>1. PagesConsistent =>
        (panel # 0 /\ said = "saved" /\ ~overtaken =>
           /\ row.setting = pressed.setting
           /\ row.users = IF isAdmin THEN pressed.users ELSE pressed.users \union {Me})
  BY DEF PagesConsistent, FormConsistent, SaidIsWritten, Granted
<1>2. PagesConsistent /\ [PagesNext]_pagesVars
        => [~isAdmin /\ Me \in row.users /\ foreign' = foreign => Me \in row'.users]_formVars
  BY PagesStep, CreatorStays DEF PagesConsistent
<1> QED BY <1>1, <1>2, PagesAlwaysConsistent, PTL DEF PagesSpec, SavedAsPressed

\* Whatever buttons, shared readings and saved names overlap in UsersPage.tsx, a
\* list read after a request holds what it changed, the table at rest is the
\* one in the database, and the name typed stays, but for failures and
\* overtaken answers.
THEOREM UsersAlwaysAsShown == PagesSpec => []UsersAsShown
<1>1. PagesConsistent => UsersAsShown
  BY ConsistentUsersAsShown DEF PagesConsistent
<1> QED BY <1>1, PagesAlwaysConsistent, PTL

=============================================================================
