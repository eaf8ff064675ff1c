-------------------------- MODULE EarningsHistory --------------------------
(***************************************************************************)
(* The earnings history of one account, from the sale to the graph: the    *)
(* sale is written in a batch, then the server's cached history is dropped *)
(* and the sale is announced; the browser drops its own cached history     *)
(* when it hears of it (accounts/service.ts, frontend lib/api.ts).         *)
(*                                                                         *)
(* Both caches hold a history until the interval after its end is over,    *)
(* and both share a read under way with whoever asks for the same. A       *)
(* history is abstracted to the number of sales it counts: those written   *)
(* when the database was asked that were made in completed intervals.      *)
(***************************************************************************)
EXTENDS Integers, Sequences

CONSTANTS
  Queries,      \* queries of the server that can be under way
  Reads,        \* reads of the browser that can be under way
  MaxSales,     \* bound: sales
  MaxIntervals, \* bound: ends of an interval
  MaxClears,    \* bound: changes by the user and connections of the socket
  NoQuery

ASSUME EarningsHistoryAssumption ==
  /\ MaxSales \in Nat /\ MaxIntervals \in Nat /\ MaxClears \in Nat
  /\ NoQuery \notin Queries

VARIABLES
  sales,     \* sales made so far
  written,   \* sales the database has
  told,      \* sales announced, after the server's cache was dropped
  heard,     \* sales the browser knows of
  interval,  \* the current interval
  closed,    \* sales made in completed intervals
  queries,   \* the server's queries: their interval, and what they count
  entry,     \* the query in the server's cache, or NoQuery
  reads,     \* the browser's reads under way
  pending,   \* the read that pendingReads offers to others, if any
  cached,    \* the browser's cached history: its interval, and what it counts
  generation,\* readGeneration
  wire,      \* what the socket has sent and the browser has not handled
  listening, \* the socket is subscribed
  joins,     \* connections of the socket so far
  clears     \* changes by the user and lost connections so far

historyVars == <<sales, written, told, heard, interval, closed, queries, entry, reads,
                 pending, cached, generation, wire, listening, joins, clears>>

server == <<sales, written, told, interval, closed>>
socket == <<wire, listening, joins>>

Unused == [at |-> "unused", end |-> 0, upTo |-> 0, count |-> 0]
Resting == [at |-> "resting", query |-> NoQuery, generation |-> 0, owed |-> 0]
Nothing == [end |-> -1, count |-> 0]
Min2(a, b) == IF a < b THEN a ELSE b

Messages == [type : {"account_sale", "statuses"}, sales : Nat]

HistoryTypeOK ==
  /\ sales \in 0..MaxSales
  /\ written \in 0..sales /\ told \in 0..written /\ heard \in 0..told
  /\ closed \in 0..sales
  /\ interval \in 0..MaxIntervals
  /\ queries \in [Queries -> [at : {"unused", "asked", "counted"}, end : 0..MaxIntervals,
                              upTo : 0..MaxSales, count : 0..MaxSales]]
  /\ entry \in Queries \union {NoQuery}
  /\ reads \in [Reads -> [at : {"resting", "sent", "waiting"}, query : Queries \union {NoQuery},
                          generation : Nat, owed : 0..MaxSales]]
  /\ pending \subseteq Reads /\ \A r, s \in pending : r = s
  /\ cached \in [end : -1..MaxIntervals, count : 0..MaxSales]
  /\ generation \in Nat
  /\ wire \in Seq(Messages) /\ listening \in BOOLEAN /\ joins \in 0..(MaxClears + 1)
  /\ clears \in 0..MaxClears

HistoryInit ==
  /\ sales = 0 /\ written = 0 /\ told = 0 /\ heard = 0
  /\ interval = 0 /\ closed = 0
  /\ queries = [q \in Queries |-> Unused] /\ entry = NoQuery
  /\ reads = [r \in Reads |-> Resting] /\ pending = {}
  /\ cached = Nothing /\ generation = 0
  /\ wire = <<>> /\ listening = FALSE /\ joins = 0
  /\ clears = 0

-----------------------------------------------------------------------------
(***************************************************************************)
(* Sales and the server.                                                   *)
(***************************************************************************)

\* "earning" is emitted and enqueued with the time of the sale.
Sale ==
  /\ sales < MaxSales
  /\ sales' = sales + 1
  /\ UNCHANGED <<written, told, heard, interval, closed, queries, entry, reads, pending,
                 cached, generation, socket, clears>>

\* A batch of sales is committed, in the order in which they were enqueued.
Commit ==
  /\ written < sales
  /\ written' \in (written + 1)..sales
  /\ UNCHANGED <<sales, told, heard, interval, closed, queries, entry, reads, pending,
                 cached, generation, socket, clears>>

\* invalidateEarningsHistory, then the listeners: one sale after another.
Announce ==
  /\ told < written
  /\ told' = told + 1
  /\ entry' = NoQuery
  /\ wire' = IF listening THEN Append(wire, [type |-> "account_sale", sales |-> told']) ELSE wire
  /\ UNCHANGED <<sales, written, heard, interval, closed, queries, reads, pending,
                 cached, generation, listening, joins, clears>>

\* The clock reaches the end of an interval.
IntervalEnds ==
  /\ interval < MaxIntervals
  /\ interval' = interval + 1
  /\ closed' = sales
  /\ UNCHANGED <<sales, written, told, heard, queries, entry, reads, pending, cached,
                 generation, socket, clears>>

\* getEarningsHistory: the cached query of this interval, or a new one.
Serve(r) ==
  /\ reads[r].at = "sent"
  /\ IF entry # NoQuery /\ queries[entry].end = interval
     THEN /\ reads' = [reads EXCEPT ![r].at = "waiting", ![r].query = entry]
          /\ UNCHANGED <<queries, entry>>
     ELSE \E q \in Queries :
            /\ queries[q].at = "unused"
            /\ queries' = [queries EXCEPT ![q] =
                 [at |-> "asked", end |-> interval, upTo |-> closed, count |-> 0]]
            /\ entry' = q
            /\ reads' = [reads EXCEPT ![r].at = "waiting", ![r].query = q]
  /\ UNCHANGED <<server, heard, pending, cached, generation, socket, clears>>

\* The database answers a query.
Count(q) ==
  /\ queries[q].at = "asked"
  /\ queries' = [queries EXCEPT ![q].at = "counted",
                                ![q].count = Min2(written, queries[q].upTo)]
  /\ UNCHANGED <<server, heard, entry, reads, pending, cached, generation, socket, clears>>

\* A query fails: it leaves the cache if it is still there, and its readers'
\* requests fail.
CountFails(q) ==
  /\ queries[q].at = "asked"
  /\ queries' = [queries EXCEPT ![q] = Unused]
  /\ entry' = IF entry = q THEN NoQuery ELSE entry
  /\ reads' = [r \in Reads |-> IF reads[r].query = q THEN Resting ELSE reads[r]]
  /\ pending' = {r \in pending : reads[r].query # q}
  /\ UNCHANGED <<server, heard, cached, generation, socket, clears>>

\* pruneOldEarnings clears the cache; a full cache drops its oldest entry.
ServerForgets ==
  /\ entry # NoQuery
  /\ entry' = NoQuery
  /\ UNCHANGED <<server, heard, queries, reads, pending, cached, generation, socket, clears>>

\* Bookkeeping: a query nobody refers to any more can be used again.
Reuse(q) ==
  /\ queries[q].at = "counted" /\ entry # q
  /\ \A r \in Reads : reads[r].query # q
  /\ queries' = [queries EXCEPT ![q] = Unused]
  /\ UNCHANGED <<server, heard, entry, reads, pending, cached, generation, socket, clears>>

-----------------------------------------------------------------------------
(***************************************************************************)
(* The browser.                                                            *)
(***************************************************************************)

CacheIsValid == cached.end = interval

\* get without a valid cached history: the read under way is shared, or one is
\* begun. A cached history is delivered at once and leaves no trace.
Read ==
  /\ ~CacheIsValid
  /\ cached' = Nothing
  /\ IF pending # {}
     THEN /\ reads' = [r \in Reads |-> IF r \in pending
                         THEN [reads[r] EXCEPT !.owed = heard] ELSE reads[r]]
          /\ UNCHANGED pending
     ELSE \E r \in Reads :
            /\ reads[r].at = "resting"
            /\ reads' = [reads EXCEPT ![r] =
                 [at |-> "sent", query |-> NoQuery, generation |-> generation, owed |-> heard]]
            /\ pending' = {r}
  /\ UNCHANGED <<server, heard, queries, entry, generation, socket, clears>>

\* Faulty: a history is cached although something has changed since it was asked for.
DeliverCachingAlways(r) ==
  /\ reads[r].at = "waiting" /\ queries[reads[r].query].at = "counted"
  /\ LET answer == queries[reads[r].query] IN
       cached' = IF answer.end = interval
                 THEN [end |-> answer.end, count |-> answer.count] ELSE cached
  /\ reads' = [reads EXCEPT ![r] = Resting]
  /\ pending' = pending \ {r}
  /\ UNCHANGED <<server, heard, queries, entry, generation, socket, clears>>

\* An answer arrives: it is cached if nothing was invalidated since it was
\* asked for and its interval lasts, and delivered to all who share it.
Deliver(r) ==
  /\ reads[r].at = "waiting" /\ queries[reads[r].query].at = "counted"
  /\ LET answer == queries[reads[r].query] IN
       cached' = IF reads[r].generation = generation /\ answer.end = interval
                 THEN [end |-> answer.end, count |-> answer.count] ELSE cached
  /\ reads' = [reads EXCEPT ![r] = Resting]
  /\ pending' = pending \ {r}
  /\ UNCHANGED <<server, heard, queries, entry, generation, socket, clears>>

\* clearApiReadCache and, for this account, invalidateAccountHistory.
DropAll ==
  /\ generation' = generation + 1
  /\ pending' = {}
  /\ cached' = Nothing

\* A change the user makes clears every read before it is sent and after it.
UserChanges ==
  /\ clears < MaxClears
  /\ clears' = clears + 1
  /\ DropAll
  /\ UNCHANGED <<server, heard, queries, entry, reads, socket>>

\* A full browser cache drops its oldest history.
BrowserForgets ==
  /\ cached # Nothing
  /\ cached' = Nothing
  /\ UNCHANGED <<server, heard, queries, entry, reads, pending, generation, socket, clears>>

\* The dashboard's socket is subscribed and sends the statuses first.
Join ==
  /\ ~listening /\ joins <= MaxClears
  /\ listening' = TRUE
  /\ joins' = joins + 1
  /\ wire' = <<[type |-> "statuses", sales |-> told]>>
  /\ UNCHANGED <<server, heard, queries, entry, reads, pending, cached, generation, clears>>

\* The connection is lost with what it had not delivered.
LoseConnection ==
  /\ listening /\ clears < MaxClears
  /\ clears' = clears + 1
  /\ listening' = FALSE
  /\ wire' = <<>>
  /\ UNCHANGED <<server, heard, queries, entry, reads, pending, cached, generation, joins>>

\* onmessage: a sale drops the account's histories; so do the statuses of every
\* connection but the first, since sales may have been announced in between.
Handle ==
  /\ wire # <<>>
  /\ wire' = Tail(wire)
  /\ IF Head(wire).type = "account_sale" \/ joins > 1
     THEN heard' = Head(wire).sales /\ DropAll
     ELSE UNCHANGED <<heard, generation, pending, cached>>
  /\ UNCHANGED <<server, queries, entry, reads, listening, joins, clears>>

HistoryNext ==
  \/ Sale \/ Commit \/ Announce \/ IntervalEnds
  \/ \E q \in Queries : Count(q) \/ CountFails(q) \/ Reuse(q)
  \/ \E r \in Reads : Serve(r) \/ Deliver(r)
  \/ Read \/ ServerForgets \/ UserChanges \/ BrowserForgets
  \/ Join \/ LoseConnection \/ Handle

-----------------------------------------------------------------------------
(***************************************************************************)
(* What must hold.                                                         *)
(***************************************************************************)

\* A history shown counts every sale before its end that the browser knew of
\* when the last of its readers asked: neither a query asked before the sale was
\* written, nor an answer that was under way while the sale was announced, nor
\* a sale missed while the socket was away ends up in a cache or is shared with
\* a later reader.
ReadIsFresh ==
  /\ CacheIsValid => cached.count >= Min2(heard, closed)
  /\ \A r \in Reads :
       reads[r].at = "waiting" /\ queries[reads[r].query].at = "counted" =>
         queries[reads[r].query].count
           >= Min2(reads[r].owed, queries[reads[r].query].upTo)
=============================================================================
