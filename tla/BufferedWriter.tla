---------------------------- MODULE BufferedWriter ----------------------------
(***************************************************************************)
(* createBufferedWriter (logging/bufferedWriter.ts): console lines and     *)
(* sale earnings wait in memory and are written to the database in         *)
(* batches, one transaction at a time. The orderly exit of the backend     *)
(* flushes both writers before it closes the database (server.ts).         *)
(*                                                                         *)
(* Entries are numbered in the order in which they are handed over. A      *)
(* transaction is external: it writes all of its rows or none, and fails   *)
(* for reasons of its own (a deleted account, a busy database).            *)
(***************************************************************************)
EXTENDS Integers, FiniteSets, Sequences

CONSTANTS
  BatchSize,   \* rows of a transaction at most
  MaxEntries,  \* bound: entries handed over
  Flushers     \* callers of flush, each able to call it again

ASSUME BufferedWriterAssumption ==
  /\ BatchSize \in Nat \ {0}
  /\ MaxEntries \in Nat

VARIABLES
  accepted,  \* entries handed over so far, numbered 1..accepted
  queue,     \* those not yet taken into a batch
  timer,     \* the timer is armed
  running,   \* the save drain has begun and not seen the end of, by number
  saves,     \* saves that have not ended
  resolved,  \* entries whose promise is fulfilled
  rejected,  \* entries whose promise is rejected
  table,     \* the rows in the database, in the order they were written
  flush      \* what each flusher waits for

vars == <<accepted, queue, timer, running, saves, resolved, rejected, table, flush>>

Entries == 1..MaxEntries
None    == 0  \* no save

\* A save is known by the first entry of its batch. It writes the whole batch,
\* or, once that has failed, one entry after the other.
Saves == [of : Entries, left : Seq(Entries), whole : BOOLEAN]

\* A flusher is outside, awaits a save, or is about to look at the queue again.
FlushStates == [at : {"outside", "looking"}, for : {None}]
                 \union [at : {"awaiting"}, for : Entries]

Outside     == [at |-> "outside", for |-> None]
Looking     == [at |-> "looking", for |-> None]
Awaiting(n) == [at |-> "awaiting", for |-> n]

TypeOK ==
  /\ accepted \in 0..MaxEntries
  /\ queue \in Seq(Entries)
  /\ timer \in BOOLEAN
  /\ running \in {None} \union Entries
  /\ saves \subseteq Saves
  /\ resolved \subseteq Entries
  /\ rejected \subseteq Entries
  /\ table \in Seq(Entries)
  /\ flush \in [Flushers -> FlushStates]

Init ==
  /\ accepted = 0
  /\ queue = <<>>
  /\ timer = FALSE
  /\ running = None
  /\ saves = {}
  /\ resolved = {}
  /\ rejected = {}
  /\ table = <<>>
  /\ flush = [f \in Flushers |-> Outside]

Contents(s) == {s[i] : i \in DOMAIN s}

FirstOf(s, n) == SubSeq(s, 1, IF n < Len(s) THEN n ELSE Len(s))
RestOf(s, n)  == SubSeq(s, n + 1, Len(s))

-----------------------------------------------------------------------------
\* schedule, given the state it is called in.
Scheduled(isTimer, isRunning, q) ==
  isTimer \/ (isRunning = None /\ q # <<>>)

\* drain, begun by the timer or by a flusher. A save under way is left alone.
Drains == running = None /\ queue # <<>>

Drain ==
  IF Drains
  THEN /\ running' = Head(queue)
       /\ saves' = saves \union
            {[of |-> Head(queue), left |-> FirstOf(queue, BatchSize), whole |-> TRUE]}
       /\ queue' = RestOf(queue, BatchSize)
  ELSE UNCHANGED <<running, saves, queue>>

Enqueue ==
  /\ accepted < MaxEntries
  /\ accepted' = accepted + 1
  /\ queue' = Append(queue, accepted')
  /\ timer' = Scheduled(timer, running, queue')
  /\ UNCHANGED <<running, saves, resolved, rejected, table, flush>>

TimerFires ==
  /\ timer
  /\ timer' = FALSE
  /\ Drain
  /\ UNCHANGED <<accepted, resolved, rejected, table, flush>>

-----------------------------------------------------------------------------
\* save: what a transaction is given.
Rows(s) == IF s.whole THEN s.left ELSE <<Head(s.left)>>

Without(s, rows) == [s EXCEPT !.left = RestOf(@, Len(rows))]

\* The transaction commits; its entries are told.
Commit(s) ==
  /\ s.left # <<>>
  /\ table' = table \o Rows(s)
  /\ resolved' = resolved \union Contents(Rows(s))
  /\ saves' = (saves \ {s}) \union {Without(s, Rows(s))}
  /\ UNCHANGED <<accepted, queue, timer, running, rejected, flush>>

\* A batch that fails is written again entry by entry; an entry that fails
\* alone is rejected.
Abort(s) ==
  /\ s.left # <<>>
  /\ IF Len(Rows(s)) > 1
     THEN /\ saves' = (saves \ {s}) \union {[s EXCEPT !.whole = FALSE]}
          /\ UNCHANGED rejected
     ELSE /\ saves' = (saves \ {s}) \union {Without(s, Rows(s))}
          /\ rejected' = rejected \union Contents(Rows(s))
  /\ UNCHANGED <<accepted, queue, timer, running, resolved, table, flush>>

\* The finally of drain: the next batch waits for the timer, and those who
\* awaited this save go on.
Finish(s) ==
  /\ s.left = <<>>
  /\ saves' = saves \ {s}
  /\ running' = None
  /\ timer' = Scheduled(timer, running', queue)
  /\ flush' = [f \in Flushers |-> IF flush[f] = Awaiting(s.of) THEN Looking ELSE flush[f]]
  /\ UNCHANGED <<accepted, queue, resolved, rejected, table>>

-----------------------------------------------------------------------------
\* The body of the flush loop: the timer is disarmed and drain awaited.
FlushRound(f) ==
  /\ timer' = FALSE
  /\ Drain
  /\ flush' = [flush EXCEPT ![f] =
                 IF running' = None THEN Looking ELSE Awaiting(running')]
  /\ UNCHANGED <<accepted, resolved, rejected, table>>

FlushBegins(f) ==
  /\ flush[f] = Outside
  /\ FlushRound(f)

FlushGoesOn(f) ==
  /\ flush[f] = Looking
  /\ queue # <<>> \/ running # None
  /\ FlushRound(f)

\* Faulty: an empty queue is taken for the end, whatever is being saved.
FlushReturnsEarly(f) ==
  /\ flush[f] = Looking
  /\ queue = <<>>
  /\ timer' = FALSE
  /\ flush' = [flush EXCEPT ![f] = Outside]
  /\ UNCHANGED <<accepted, queue, running, saves, resolved, rejected, table>>

FlushReturns(f) ==
  /\ flush[f] = Looking
  /\ queue = <<>> /\ running = None
  /\ timer' = FALSE
  /\ flush' = [flush EXCEPT ![f] = Outside]
  /\ UNCHANGED <<accepted, queue, running, saves, resolved, rejected, table>>

Saving == \E s \in saves : Commit(s) \/ Abort(s) \/ Finish(s)

Flushing(f) == FlushGoesOn(f) \/ FlushReturns(f)

Next ==
  \/ Enqueue
  \/ TimerFires
  \/ Saving
  \/ \E f \in Flushers : FlushBegins(f) \/ Flushing(f)

Spec == Init /\ [][Next]_vars

\* The timer fires, transactions end and promises continue; nobody need hand
\* over an entry or begin a flush.
FairSpec ==
  /\ Spec
  /\ WF_vars(TimerFires)
  /\ WF_vars(Saving)
  /\ \A f \in Flushers : WF_vars(Flushing(f))
-----------------------------------------------------------------------------
(***************************************************************************)
(* What must hold.                                                         *)
(***************************************************************************)
Settled == resolved \union rejected

InSave == UNION {Contents(s.left) : s \in saves}

\* An entry handed over is waiting, being saved or settled, and only one of
\* these; the rows are those of the fulfilled promises. A batch that failed
\* for one account's sake takes no other account's entry with it, and none
\* that a batch has written is written again.
NothingLost ==
  /\ 1..accepted = Contents(queue) \union InSave \union Settled
  /\ Contents(queue) \intersect (InSave \union Settled) = {}
  /\ InSave \intersect Settled = {}
  /\ resolved \intersect rejected = {}
  /\ Contents(table) = resolved

\* The order in which lines and earnings came is the order in which they are
\* written, through batches, failures and the flushes racing with the timer.
WrittenInOrder == \A i, j \in DOMAIN table : i < j => table[i] < table[j]

\* An entry that is handed over is written once and in its turn, or refused.
WrittenAsEntered == NothingLost /\ WrittenInOrder

\* When flush returns, everything handed over by then has been settled, what
\* came in while it waited included: the database may be closed.
FlushIsComplete ==
  [][\A f \in Flushers :
       flush[f] # Outside /\ flush'[f] = Outside => 1..accepted \subseteq Settled]_vars

\* All of this, and no entry is forgotten between the timer, the end of a save
\* and a flush that disarms the timer, and no flush waits for ever: once the
\* last of the entries has come, there are states in which all are settled and
\* no flush waits, again and again.
EntriesSettle ==
  /\ []WrittenAsEntered
  /\ FlushIsComplete
  /\ []<>(1..accepted \subseteq Settled /\ \A f \in Flushers : flush[f] = Outside)
=============================================================================
