----------------------------- MODULE ConsoleStream -----------------------------
(***************************************************************************)
(* One account's console from the bot to the browser: a line is handed to  *)
(* the buffered writer and, separately, published to the website socket    *)
(* (ClientManager.ts, websocket/routes.ts); the page joins the history it  *)
(* reads from the database with the lines it hears (useAccountConsole,     *)
(* consoleBuffer.ts).                                                      *)
(*                                                                         *)
(* What the browser holds is a bag of texts: a text is the time, kind and  *)
(* message of a line, all that tells one line from another there. Sorting  *)
(* by time and the limit of 20,000 lines in the browser are left out.      *)
(***************************************************************************)
EXTENDS BufferedWriter, SequencesExt, TLC

CONSTANTS
  TextOf,    \* the text of each entry; the same for identical lines
  PageSize,  \* CONSOLE_HISTORY_PAGE_SIZE
  MaxLogs,   \* MAX_LOGS_PER_ACCOUNT
  MaxJoins   \* bound: connections of the page

ASSUME ConsoleStreamAssumption ==
  /\ DOMAIN TextOf = Entries
  /\ PageSize \in Nat \ {0} /\ MaxLogs \in Nat \ {0} /\ MaxJoins \in Nat

VARIABLES
  socket,    \* of the page: unmounted, open, closed
  joins,     \* connections made since the page was opened
  batch,     \* lines that wait for the 25 ms of batchLiveEvents
  jobs,      \* what connection.run has queued, in order
  live,      \* texts of the lines published to the present connection
  past,      \* texts of the history the present connection was sent
  shown,     \* logs: what the page shows
  pending,   \* lines it has received and not shown
  history,   \* history received and not shown
  received,  \* receivedHistory
  fallback,  \* the page's HTTP request: armed, its answer under way, over
  hidden     \* the tab is hidden or the console is not rendered

page   == <<shown, pending, history, received, fallback, hidden>>
stream == <<socket, joins, batch, jobs, live, past, page>>
svars  == <<vars, stream>>

Texts  == {TextOf[n] : n \in Entries}
Bags_  == [Texts -> Nat]
NoText == [t \in Texts |-> 0]
HistoryJob == <<None>>

BagOfLines(s) == [t \in Texts |-> Cardinality({i \in DOMAIN s : TextOf[s[i]] = t})]
b ++ c       == [t \in Texts |-> b[t] + c[t]]
AtLeast(b, c) == \A t \in Texts : b[t] >= c[t]

\* Faulty: equal lines are taken for one.
MergedAsSet(h, lines) == [t \in Texts |-> IF h[t] + lines[t] > 0 THEN 1 ELSE 0]

\* mergeConsoleHistory: a live line counts as one of the equal history lines.
Merged(h, lines) == [t \in Texts |-> IF h[t] > lines[t] THEN h[t] ELSE lines[t]]

LastOf(s, n) == SubSeq(s, IF Len(s) > n THEN Len(s) - n + 1 ELSE 1, Len(s))

\* getConsoleLogs: the newest page of what the writer's transactions, each
\* pruning the account's oldest lines, have left. What still waits to be
\* written is not in it.
ConsoleLogs == BagOfLines(LastOf(LastOf(table, MaxLogs), PageSize))

StreamTypeOK ==
  /\ TypeOK
  /\ socket \in {"unmounted", "open", "closed"}
  /\ joins \in 0..MaxJoins
  /\ batch \in Seq(Entries)
  /\ jobs \in Seq(Seq(Entries) \union {HistoryJob})
  /\ live \in Bags_ /\ past \in Bags_ /\ shown \in Bags_ /\ pending \in Bags_
  /\ history \in Bags_
  /\ received \in BOOLEAN
  /\ fallback \in {[at |-> "armed"], [at |-> "over"]}
                    \union [at : {"answered"}, rows : Bags_]
  /\ hidden \in BOOLEAN

Blank(state) ==
  /\ socket' = state
  /\ shown' = NoText /\ pending' = NoText /\ history' = NoText
  /\ received' = FALSE /\ fallback' = [at |-> "armed"]

StreamInit ==
  /\ Init
  /\ socket = "unmounted" /\ joins = 0
  /\ batch = <<>> /\ jobs = <<>> /\ live = NoText /\ past = NoText
  /\ shown = NoText /\ pending = NoText /\ history = NoText
  /\ received = FALSE /\ fallback = [at |-> "armed"] /\ hidden = FALSE
-----------------------------------------------------------------------------
\* What has arrived is shown. No history adds nothing.
Show(lines, h) ==
  /\ shown' = Merged(h, shown ++ lines)
  /\ pending' = NoText
  /\ history' = NoText

\* flush of useAccountConsole, given what has arrived.
Flush(lines, h) ==
  IF hidden
  THEN pending' = lines /\ history' = h /\ UNCHANGED shown
  ELSE Show(lines, h)

\* The authorized socket subscribes before its first job reads the history.
Joined ==
  /\ socket' = "open"
  /\ joins' = joins + 1
  /\ jobs' = <<HistoryJob>>
  /\ batch' = <<>> /\ live' = NoText /\ past' = NoText

\* The page of the account is opened, and left again.
Mount ==
  /\ socket = "unmounted" /\ joins < MaxJoins
  /\ Joined
  /\ UNCHANGED <<vars, page>>

Closed ==
  /\ batch' = <<>> /\ jobs' = <<>> /\ live' = NoText /\ past' = NoText
  /\ UNCHANGED <<joins, vars>>

Unmount ==
  /\ socket # "unmounted"
  /\ Blank("unmounted")
  /\ Closed
  /\ UNCHANGED hidden

\* The connection drops, with what is on its way; the page connects again.
Drop ==
  /\ socket = "open"
  /\ socket' = "closed"
  /\ Closed
  /\ UNCHANGED page

Reconnect ==
  /\ socket = "closed" /\ joins < MaxJoins
  /\ Joined
  /\ UNCHANGED <<vars, page>>

\* The tab is hidden or shown again; showing it flushes.
Hide ==
  /\ ~hidden
  /\ hidden' = TRUE
  /\ UNCHANGED <<vars, socket, joins, batch, jobs, live, past, shown, pending,
                 history, received, fallback>>

Reveal ==
  /\ hidden
  /\ hidden' = FALSE
  /\ Show(pending, history)
  /\ UNCHANGED <<vars, socket, joins, batch, jobs, live, past, received, fallback>>

-----------------------------------------------------------------------------
\* A line of the client: handed to the writer and published to the socket.
Emit ==
  /\ Enqueue
  /\ IF socket = "open"
     THEN /\ batch' = Append(batch, accepted')
          /\ live' = live ++ BagOfLines(<<accepted'>>)
     ELSE UNCHANGED <<batch, live>>
  /\ UNCHANGED <<socket, joins, jobs, past, page>>

\* The 25 ms are over: the batch becomes a job behind those before it.
Publish ==
  /\ batch # <<>>
  /\ jobs' = Append(jobs, batch)
  /\ batch' = <<>>
  /\ UNCHANGED <<vars, socket, joins, live, past, page>>

\* The first job sends the history, and the page handles it.
SendHistory ==
  /\ jobs # <<>> /\ Head(jobs) = HistoryJob
  /\ jobs' = Tail(jobs)
  /\ past' = ConsoleLogs
  /\ received' = TRUE
  /\ fallback' = [at |-> "over"]
  /\ Flush(pending, ConsoleLogs)
  /\ UNCHANGED <<vars, socket, joins, batch, live, hidden>>

\* A later one sends its lines; the page shows them 50 ms later.
SendLines ==
  /\ jobs # <<>> /\ Head(jobs) # HistoryJob
  /\ jobs' = Tail(jobs)
  /\ pending' = pending ++ BagOfLines(Head(jobs))
  /\ UNCHANGED <<vars, socket, joins, batch, live, past, shown, history, received,
                 fallback, hidden>>

ShowLines ==
  /\ pending # NoText /\ ~hidden
  /\ Flush(pending, history)
  /\ UNCHANGED <<vars, socket, joins, batch, jobs, live, past, received, fallback, hidden>>

\* No history after 1.5 s: it is asked for by HTTP, and the answer is heeded
\* unless the socket's has come first.
Ask ==
  /\ socket # "unmounted" /\ ~received /\ fallback.at = "armed"
  /\ fallback' = [at |-> "answered", rows |-> ConsoleLogs]
  /\ UNCHANGED <<vars, socket, joins, batch, jobs, live, past, shown, pending, history,
                 received, hidden>>

Answer ==
  /\ fallback.at = "answered" /\ ~received
  /\ fallback' = [at |-> "over"]
  /\ received' = TRUE
  /\ Flush(pending, fallback.rows)
  /\ UNCHANGED <<vars, socket, joins, batch, jobs, live, past, hidden>>

AskFails ==
  /\ fallback.at = "answered"
  /\ fallback' = [at |-> "over"]
  /\ UNCHANGED <<vars, socket, joins, batch, jobs, live, past, shown, pending, history,
                 received, hidden>>

Writing ==
  /\ \/ TimerFires
     \/ Saving
     \/ \E f \in Flushers : FlushBegins(f) \/ Flushing(f)
  /\ UNCHANGED stream

Viewing ==
  \/ Mount \/ Unmount \/ Drop \/ Reconnect \/ Hide \/ Reveal
  \/ Publish \/ SendHistory \/ SendLines \/ ShowLines
  \/ Ask \/ Answer \/ AskFails

StreamNext == Emit \/ Writing \/ Viewing

StreamSpec == StreamInit /\ [][StreamNext]_svars

\* The fairness of the writer; the viewer's network promises nothing.
FairStreamSpec ==
  /\ StreamSpec
  /\ WF_svars(TimerFires /\ UNCHANGED stream)
  /\ WF_svars(Saving /\ UNCHANGED stream)
  /\ \A f \in Flushers : WF_svars(Flushing(f) /\ UNCHANGED stream)
-----------------------------------------------------------------------------
(***************************************************************************)
(* What must hold.                                                         *)
(***************************************************************************)
\* The places of a text in the jobs that wait: the job and the line of it.
Places(js, t) ==
  {p \in UNION {{i} \X DOMAIN js[i] : i \in DOMAIN js} :
     js[p[1]] # HistoryJob /\ TextOf[js[p[1]][p[2]]] = t}

OnTheWay ==
  BagOfLines(batch) ++ [t \in Texts |-> Cardinality(Places(jobs, t))] ++ pending

\* While the page is connected, no line published since it connected is
\* missing: it is shown or on its way, however the history, the HTTP answer and
\* a hidden tab interleave, and identical lines are not taken for one. Nor is a
\* line of the history missing once it has been shown.
LiveLinesKept ==
  socket = "open" =>
    /\ AtLeast(shown ++ OnTheWay, live)
    /\ history = NoText => AtLeast(shown, past)

\* consoleBuffer.ts:5-6 and docs/PERFORMANCE-2026-10-30.md:10: live lines and
\* history are merged without showing a line twice.
ShownOnce == AtLeast(BagOfLines([n \in 1..accepted |-> n]), shown)
=============================================================================
