--------------------------- MODULE WebsiteProofs ----------------------------
(***************************************************************************)
(* Proofs about the announcements (Announcements) and the live camera      *)
(* (LiveCam), and the theorems about all the parts of the website that     *)
(* MCWebsite checks.                                                       *)
(***************************************************************************)
EXTENDS MCWebsite, SessionsProofs, EditingProofs

-----------------------------------------------------------------------------
(***************************************************************************)
(* The announcements.                                                      *)
(***************************************************************************)

\* Only what a dialog showed is marked.
MarksDisplayed ==
  \A t \in UserTabs : marking[t].state # "none" => marking[t].of \in displayed

NewsConsistent == NewsTypeOK /\ MarksDisplayed /\ DisplayedBeforeRead

\* What a tab has, reads and marks.
LEMMA TabFields ==
  ASSUME NewsTypeOK, NEW t \in UserTabs
  PROVE  /\ news[t] \in TabNews
         /\ reading[t] \in Readings
         /\ marking[t] \in Markings
BY DEF NewsTypeOK

\* Tabs that have asked for nothing yet.
LEMMA NewsInitConsistent == NewsInit => NewsConsistent
<1> SUFFICES ASSUME NewsInit PROVE NewsConsistent
  OBVIOUS
<1>1. NewsTypeOK
  BY AnnouncementsAssumption
     DEF NewsInit, NewsTypeOK, NoNews, NoReading, NoMarking, Releases, OrNone, TabNews, Readings,
         Markings
<1>2. MarksDisplayed /\ DisplayedBeforeRead
  BY DEF NewsInit, MarksDisplayed, DisplayedBeforeRead, NoMarking
<1> QED BY <1>1, <1>2 DEF NewsConsistent

\* What a tab without a call under way has.
LEMMA NothingFields ==
  NoNews \in TabNews /\ NoReading \in Readings /\ NoMarking \in Markings
BY AnnouncementsAssumption DEF NoNews, NoReading, NoMarking, TabNews, Readings, Markings, OrNone

\* What read leaves in the tab, and what it sends, are of their types.
LEMMA ReadFields ==
  ASSUME NEW state \in TabNews
  PROVE  /\ [state EXCEPT !.unread = FALSE, !.pendingRead = state.of] \in TabNews
         /\ [state |-> "sent", of |-> state.of] \in Markings
         /\ state.of \in OrNone
<1>1. state.of \in OrNone
  BY DEF TabNews
<1>2. [state EXCEPT !.unread = FALSE] \in TabNews
  BY DEF TabNews
<1>3. [[state EXCEPT !.unread = FALSE] EXCEPT !.pendingRead = state.of] \in TabNews
  BY <1>1, <1>2 DEF TabNews
<1>4. [state EXCEPT !.unread = FALSE, !.pendingRead = state.of]
        = [[state EXCEPT !.unread = FALSE] EXCEPT !.pendingRead = state.of]
  BY DEF TabNews
<1>5. [state |-> "sent", of |-> state.of] \in Markings
  BY <1>1 DEF Markings
<1> QED BY <1>1, <1>3, <1>4, <1>5

\* Showing an announcement adds it to those displayed.
LEMMA ShownAdds ==
  ASSUME NewsTypeOK, NEW state \in TabNews, Shown(state)
  PROVE  /\ displayed \subseteq displayed' /\ displayed' \subseteq Releases
         /\ state.open /\ state.of # 0 => state.of \in displayed'
<1> DEFINE seen == IF state.open THEN {state.of} \ {0} ELSE {}
<1>1. displayed' = displayed \union seen
  BY DEF Shown
<1>2. state.of \in OrNone /\ displayed \subseteq Releases
  BY ReadFields DEF NewsTypeOK
<1>3. seen \subseteq Releases
  BY <1>2, AnnouncementsAssumption DEF OrNone, Releases
<1>4. state.open /\ state.of # 0 => state.of \in seen
  OBVIOUS
<1> HIDE DEF seen
<1> QED BY <1>1, <1>2, <1>3, <1>4

\* What a tab marks is the announcement its dialog shows.
LEMMA ReadNowMarks ==
  ASSUME NewsConsistent, NEW t \in UserTabs, NEW state, state.open,
         state \in TabNews,
         ReadNow(t, state), Shown(state), UNCHANGED <<released, lastSeen, misses>>
  PROVE  NewsConsistent'
<1> USE DEF NewsConsistent
<1>1. /\ displayed \subseteq displayed' /\ displayed' \subseteq Releases
      /\ state.of # 0 => state.of \in displayed'
  BY ShownAdds
<1>2. DisplayedBeforeRead'
  BY <1>1 DEF DisplayedBeforeRead
<1>3. CASE CanRead(state, t)
  <2> DEFINE now == [state EXCEPT !.unread = FALSE, !.pendingRead = state.of]
             mark == [state |-> "sent", of |-> state.of]
  <2>1. /\ news' = [news EXCEPT ![t] = now]
        /\ marking' = [marking EXCEPT ![t] = mark]
        /\ reading' = [reading EXCEPT ![t].fresh = FALSE]
    BY <1>3 DEF ReadNow
  <2>2. state.of # 0 /\ mark.of = state.of
    BY <1>3 DEF CanRead
  <2>3. now \in TabNews /\ mark \in Markings
    BY ReadFields
  <2> HIDE DEF now, mark
  <2>4. reading' \in [UserTabs -> Readings]
    BY <2>1 DEF NewsTypeOK, Readings
  <2>5. NewsTypeOK'
    BY <1>1, <2>1, <2>3, <2>4 DEF NewsTypeOK
  <2>6. MarksDisplayed'
    BY <1>1, <2>1, <2>2 DEF MarksDisplayed, NewsTypeOK
  <2> QED BY <1>2, <2>5, <2>6
<1>4. CASE ~CanRead(state, t)
  <2>1. news' = [news EXCEPT ![t] = state] /\ UNCHANGED <<marking, reading>>
    BY <1>4 DEF ReadNow
  <2> QED BY <1>1, <1>2, <2>1 DEF NewsTypeOK, MarksDisplayed
<1> QED BY <1>3, <1>4

\* The answer of a refresh is shown, and marked only if it is shown.
LEMMA NewsAnswersConsistent ==
  ASSUME NewsConsistent, NEW t \in UserTabs, NewsAnswers(t)
  PROVE  NewsConsistent'
<1> USE AnnouncementsAssumption DEF NewsConsistent
<1> DEFINE same == news[t].pendingRead = reading[t].of
           state == [news[t] EXCEPT !.of = reading[t].of, !.unread = reading[t].unread /\ ~same,
                                    !.pendingRead = IF same THEN @ ELSE 0]
<1>1. /\ reading' = [reading EXCEPT ![t] = NoReading]
      /\ UNCHANGED <<released, lastSeen, misses>>
  BY DEF NewsAnswers
<1>2. reading' \in [UserTabs -> Readings]
  BY <1>1, NothingFields DEF NewsTypeOK
<1>3. state \in TabNews
  <2>1. news[t] \in TabNews /\ reading[t] \in Readings
    BY TabFields
  <2>2. PICK unread \in BOOLEAN : unread = (reading[t].unread /\ ~same)
    BY Zenon
  <2>3. PICK pending \in OrNone : pending = IF same THEN news[t].pendingRead ELSE 0
    BY <2>1 DEF TabNews, OrNone
  <2>4. state = [[[news[t] EXCEPT !.of = reading[t].of] EXCEPT !.unread = unread]
                   EXCEPT !.pendingRead = pending]
    BY <2>1, <2>2, <2>3 DEF TabNews
  <2> QED BY <2>1, <2>4 DEF TabNews, Readings
<1>4. CASE ~reading[t].fresh
  <2>1. UNCHANGED <<news, marking, displayed>>
    BY <1>4 DEF NewsAnswers
  <2> QED BY <1>1, <1>2, <2>1 DEF NewsTypeOK, MarksDisplayed, DisplayedBeforeRead
<1>5. CASE reading[t].fresh
  <2>1. /\ Shown(state)
        /\ IF state.open /\ CanRead(state, t)
           THEN /\ news' = [news EXCEPT ![t] = [state EXCEPT !.unread = FALSE,
                                                             !.pendingRead = state.of]]
                /\ marking' = [marking EXCEPT ![t] = [state |-> "sent", of |-> state.of]]
           ELSE news' = [news EXCEPT ![t] = state] /\ UNCHANGED marking
    BY <1>5 DEF NewsAnswers
  <2> HIDE DEF state
  <2>2. /\ displayed \subseteq displayed' /\ displayed' \subseteq Releases
        /\ state.open /\ state.of # 0 => state.of \in displayed'
    BY <1>3, <2>1, ShownAdds
  <2>3. DisplayedBeforeRead'
    BY <1>1, <2>2 DEF DisplayedBeforeRead
  <2>4. CASE state.open /\ CanRead(state, t)
    <3> DEFINE now == [state EXCEPT !.unread = FALSE, !.pendingRead = state.of]
               mark == [state |-> "sent", of |-> state.of]
    <3>1. /\ news' = [news EXCEPT ![t] = now]
          /\ marking' = [marking EXCEPT ![t] = mark]
          /\ state.of # 0
      BY <2>1, <2>4 DEF CanRead
    <3>2. now \in TabNews /\ mark \in Markings
      BY <1>3, ReadFields
    <3>3. mark.of = state.of
      OBVIOUS
    <3> HIDE DEF now, mark
    <3>4. NewsTypeOK'
      BY <1>1, <1>2, <2>2, <3>1, <3>2 DEF NewsTypeOK
    <3>5. MarksDisplayed'
      BY <2>2, <2>4, <3>1, <3>3 DEF MarksDisplayed, NewsTypeOK
    <3> QED BY <2>3, <3>4, <3>5
  <2>5. CASE ~(state.open /\ CanRead(state, t))
    <3>1. news' = [news EXCEPT ![t] = state] /\ UNCHANGED marking
      BY <2>1, <2>5
    <3> QED BY <1>1, <1>2, <1>3, <2>2, <2>3, <3>1 DEF NewsTypeOK, MarksDisplayed
  <2> QED BY <2>4, <2>5
<1> QED BY <1>4, <1>5

\* Every step of the tabs and of the server keeps the invariant.
LEMMA NewsStep ==
  ASSUME NewsConsistent, [NewsNext]_newsVars
  PROVE  NewsConsistent'
<1> USE AnnouncementsAssumption DEF NewsConsistent
<1>1. ASSUME NEW t \in UserTabs, OpenDialog(t) PROVE NewsConsistent'
  <2> DEFINE opened == [news[t] EXCEPT !.open = TRUE]
  <2>1. ReadNow(t, opened) /\ Shown(opened) /\ UNCHANGED <<released, lastSeen, misses>>
    BY <1>1 DEF OpenDialog
  <2>2. /\ opened \in TabNews
        /\ opened.open
    BY TabFields DEF TabNews
  <2> HIDE DEF opened
  <2> QED BY <2>1, <2>2, ReadNowMarks
<1>2. ASSUME NEW t \in UserTabs, RefreshNews(t) \/ NewsFails(t) PROVE NewsConsistent'
  <2> DEFINE asked == [state |-> "sent", fresh |-> TRUE, of |-> 0, unread |-> FALSE]
  <2>1. asked \in Readings
    BY DEF Readings, OrNone
  <2>2. /\ reading' = [reading EXCEPT ![t] = asked] \/ reading' = [reading EXCEPT ![t] = NoReading]
        /\ UNCHANGED <<released, lastSeen, news, marking, displayed>>
    BY <1>2 DEF RefreshNews, NewsFails
  <2> HIDE DEF asked
  <2>3. reading' \in [UserTabs -> Readings]
    BY <2>1, <2>2, NothingFields DEF NewsTypeOK
  <2>4. misses' \in 0..MaxMisses
    BY <1>2 DEF RefreshNews, NewsFails, Miss, NewsTypeOK
  <2> QED BY <2>2, <2>3, <2>4 DEF NewsTypeOK, MarksDisplayed, DisplayedBeforeRead
<1>3. ASSUME NEW t \in UserTabs, CloseDialog(t) PROVE NewsConsistent'
  <2>1. news' \in [UserTabs -> TabNews]
    BY <1>3 DEF CloseDialog, NewsTypeOK, TabNews
  <2> QED BY <1>3, <2>1 DEF CloseDialog, NewsTypeOK, MarksDisplayed, DisplayedBeforeRead
<1>4. ASSUME NEW t \in UserTabs, MarkAnswers(t) PROVE NewsConsistent'
  <2>1. /\ marking' = [marking EXCEPT ![t] = NoMarking]
        /\ UNCHANGED <<released, lastSeen, reading, misses, displayed>>
        /\ news' \in [UserTabs -> TabNews]
    <3>1. /\ [news[t] EXCEPT !.pendingRead = 0]
               \in TabNews
          /\ [NoNews EXCEPT !.open = news[t].open]
               \in TabNews
      BY TabFields, NothingFields DEF TabNews, OrNone
    <3>2. /\ marking' = [marking EXCEPT ![t] = NoMarking]
          /\ UNCHANGED <<released, lastSeen, reading, misses, displayed>>
          /\ \/ news' = [news EXCEPT ![t] = [@ EXCEPT !.pendingRead = 0]]
             \/ news' = [news EXCEPT ![t] = [NoNews EXCEPT !.open = news[t].open]]
      BY <1>4 DEF MarkAnswers
    <3> QED BY <3>1, <3>2 DEF NewsTypeOK
  <2>2. NoMarking \in Markings /\ NoMarking.state = "none"
    BY NothingFields DEF NoMarking
  <2>3. NewsTypeOK'
    BY <2>1, <2>2 DEF NewsTypeOK
  <2>4. MarksDisplayed' /\ DisplayedBeforeRead'
    BY <2>1, <2>2 DEF NewsTypeOK, MarksDisplayed, DisplayedBeforeRead
  <2> QED BY <2>3, <2>4
<1>5. ASSUME NEW t \in UserTabs, MarkFails(t) \/ ReloadTab(t) PROVE NewsConsistent'
  <2>1. /\ marking' = [marking EXCEPT ![t] = NoMarking]
        /\ news' = news \/ news' = [news EXCEPT ![t] = NoNews]
        /\ reading' = reading \/ reading' = [reading EXCEPT ![t] = NoReading]
        /\ misses' \in 0..MaxMisses
        /\ UNCHANGED <<released, lastSeen, displayed>>
    BY <1>5 DEF MarkFails, ReloadTab, Miss, NewsTypeOK
  <2>2. /\ NoNews \in TabNews
        /\ NoReading \in Readings
        /\ NoMarking \in Markings
        /\ NoMarking.state = "none"
    BY NothingFields DEF NoMarking
  <2>3. NewsTypeOK'
    BY <2>1, <2>2 DEF NewsTypeOK
  <2>4. MarksDisplayed' /\ DisplayedBeforeRead'
    BY <2>1, <2>2 DEF NewsTypeOK, MarksDisplayed, DisplayedBeforeRead
  <2> QED BY <2>3, <2>4
<1>6. ASSUME NEW t \in UserTabs, ServeNews(t) PROVE NewsConsistent'
  <2>1. released \in OrNone /\ (lastSeen # released) \in BOOLEAN
    BY DEF NewsTypeOK, OrNone, Releases
  <2>2. reading' \in [UserTabs -> Readings]
    <3> DEFINE answer == [reading[t] EXCEPT !.state = "ok", !.of = released,
                                            !.unread = (lastSeen # released)]
    <3>1. reading \in [UserTabs -> Readings]
      BY DEF NewsTypeOK
    <3>2. answer \in Readings
      BY <2>1, <3>1 DEF Readings
    <3>3. reading' = [reading EXCEPT ![t] = answer]
      BY <1>6, <3>1 DEF ServeNews, Readings
    <3> HIDE DEF answer
    <3> QED BY <3>1, <3>2, <3>3
  <2> QED BY <1>6, <2>2 DEF ServeNews, NewsTypeOK, MarksDisplayed, DisplayedBeforeRead
<1>7. ASSUME NEW t \in UserTabs, ServeMark(t) PROVE NewsConsistent'
  <2>1. /\ lastSeen' = lastSeen
           \/ (lastSeen' = marking[t].of /\ marking[t].state # "none")
        /\ \/ marking' = [marking EXCEPT ![t].state = "ok"]
           \/ marking' = [marking EXCEPT ![t].state = "changed"]
        /\ marking[t].state # "none"
        /\ UNCHANGED <<released, news, reading, misses, displayed>>
    BY <1>7 DEF ServeMark
  <2>2. marking[t].of \in OrNone /\ marking[t].of \in displayed
    BY <2>1, TabFields DEF Markings, MarksDisplayed
  <2>3. marking' \in [UserTabs -> Markings]
    BY <2>1 DEF NewsTypeOK, Markings
  <2>4. NewsTypeOK'
    BY <2>1, <2>2, <2>3 DEF NewsTypeOK
  <2>5. MarksDisplayed'
    BY <2>1 DEF NewsTypeOK, Markings, MarksDisplayed
  <2>6. DisplayedBeforeRead'
    BY <2>1, <2>2 DEF DisplayedBeforeRead
  <2> QED BY <2>4, <2>5, <2>6
<1>8. CASE Release
  BY <1>8 DEF Release, NewsTypeOK, Releases, MarksDisplayed, DisplayedBeforeRead
<1>9. CASE UNCHANGED newsVars
  BY <1>9 DEF newsVars, NewsTypeOK, MarksDisplayed, DisplayedBeforeRead
<1> QED BY <1>1, <1>2, <1>3, <1>4, <1>5, <1>6, <1>7, <1>8, <1>9, NewsAnswersConsistent DEF NewsNext

-----------------------------------------------------------------------------
(***************************************************************************)
(* The live camera: every stream waits for the one before it.              *)
(***************************************************************************)

\* A stream that has not ended.
Used(n) == stream[n].phase # "ended"

\* The streams of the account, in the order they were opened for: each waits
\* for the one before, the first for none, and the last is in the map.
FirstWaitsNot(rank) ==
  \A m, n \in Streams : Used(m) /\ Used(n) /\ stream[n].previous = 0 => rank[n] <= rank[m]
Linked(rank) ==
  \A n \in Streams : Used(n) /\ stream[n].previous # 0 =>
    Used(stream[n].previous) /\ rank[n] = rank[stream[n].previous] + 1
LastInMap(rank) ==
  \A n \in Streams : Used(n) => current # 0 /\ Used(current) /\ rank[n] <= rank[current]
Distinct(rank) ==
  \A m, n \in Streams : Used(m) /\ Used(n) /\ rank[m] = rank[n] => m = n
Ordered(rank) ==
  FirstWaitsNot(rank) /\ Linked(rank) /\ LastInMap(rank) /\ Distinct(rank)

Chained == \E rank \in [Streams -> Nat] : Ordered(rank)
CurrentUsed == current # 0 => Used(current)
OnlyFirstOpen == \A n \in Streams : stream[n].phase \in {"open", "delay"} => stream[n].previous = 0
WatchedIsLive ==
  served => \A p \in Panels : panel[p] = "watching" => Live /\ p \in stream[current].viewers

CamConsistent == CamTypeOK /\ Chained /\ CurrentUsed /\ OnlyFirstOpen /\ WatchedIsLive

\* What a stream has.
LEMMA StreamFields ==
  ASSUME CamTypeOK, NEW n \in Streams
  PROVE  /\ stream[n] \in Upstreams
         /\ stream[n].previous \in 0..MaxStreams
         /\ stream[n].previous # 0 => stream[n].previous \in Streams
         /\ current # 0 => current \in Streams
<1>1. stream[n] \in Upstreams /\ current \in 0..MaxStreams
  BY DEF CamTypeOK
<1>2. stream[n].previous \in 0..MaxStreams
  BY <1>1 DEF Upstreams
<1> QED BY <1>1, <1>2, LiveCamAssumption DEF Streams

\* Distinct first streams there are none.
LEMMA ConsistentOneUpstream == CamConsistent => OneUpstream
<1> SUFFICES ASSUME CamConsistent PROVE OneUpstream
  OBVIOUS
<1> DEFINE open == {n \in Streams : stream[n].phase = "open"}
<1>1. PICK rank \in [Streams -> Nat] : Ordered(rank)
  BY DEF CamConsistent, Chained
<1>2. \A m, n \in open : m = n
  <2> SUFFICES ASSUME NEW m \in open, NEW n \in open PROVE m = n
    OBVIOUS
  <2>1. /\ Used(m) /\ Used(n)
        /\ stream[m].previous = 0 /\ stream[n].previous = 0
    BY DEF CamConsistent, OnlyFirstOpen, Used
  <2>2. rank[m] <= rank[n] /\ rank[n] <= rank[m]
    BY <1>1, <2>1 DEF Ordered, FirstWaitsNot
  <2>3. rank[m] \in Nat /\ rank[n] \in Nat
    OBVIOUS
  <2>4. rank[m] = rank[n]
    BY <2>2, <2>3
  <2> QED BY <1>1, <2>1, <2>4 DEF Ordered, Distinct
<1>3. Cardinality(open) <= 1
  <2>1. CASE open = {}
    BY <2>1, FS_EmptySet
  <2>2. CASE open # {}
    <3>1. PICK n : n \in open
      BY <2>2
    <3>2. open = {n}
      BY <1>2, <3>1
    <3> HIDE DEF open
    <3>3. Cardinality(open) = 1
      BY <3>2, FS_Singleton
    <3> QED BY <3>3
  <2> QED BY <2>1, <2>2
<1> QED BY <1>3 DEF CamConsistent, WatchedIsLive, OneUpstream

\* A camera nobody watches yet.
LEMMA CamInitConsistent == CamInit => CamConsistent
<1> SUFFICES ASSUME CamInit PROVE CamConsistent
  OBVIOUS
<1>1. Unused \in Upstreams /\ Unused.phase = "ended" /\ NoFlow \in Flows
  BY LiveCamAssumption DEF Unused, Upstreams, NoFlow, Flows
<1>2. \A n \in Streams : ~Used(n)
  BY <1>1 DEF CamInit, Used
<1>3. CamTypeOK
  BY <1>1, LiveCamAssumption DEF CamInit, CamTypeOK
<1>4. Chained
  <2>1. [n \in Streams |-> 0] \in [Streams -> Nat]
    OBVIOUS
  <2>2. Ordered([n \in Streams |-> 0])
    BY <1>2 DEF Ordered, FirstWaitsNot, Linked, LastInMap, Distinct
  <2> QED BY <2>1, <2>2 DEF Chained
<1>5. CurrentUsed /\ OnlyFirstOpen /\ WatchedIsLive
  BY <1>1 DEF CamInit, CurrentUsed, OnlyFirstOpen, WatchedIsLive
<1> QED BY <1>3, <1>4, <1>5 DEF CamConsistent

\* Steps that neither begin nor end a stream leave the chain as it is.
LEMMA ChainStays ==
  ASSUME CamTypeOK, Chained, CurrentUsed, current' = current,
         \A n \in Streams : /\ stream'[n].phase = "ended" <=> stream[n].phase = "ended"
                            /\ stream'[n].previous = stream[n].previous
  PROVE  Chained' /\ CurrentUsed'
<1>1. PICK rank \in [Streams -> Nat] : Ordered(rank)
  BY DEF Chained
<1>2. \A n \in Streams : /\ Used(n)' <=> Used(n)
                         /\ stream'[n].previous = stream[n].previous
                         /\ stream[n].previous # 0 => stream[n].previous \in Streams
                         /\ current # 0 => current \in Streams
  BY StreamFields DEF Used
<1>3. Streams' = Streams /\ Ordered(rank)'
  <2>1. FirstWaitsNot(rank)'
    BY <1>1, <1>2 DEF Ordered, FirstWaitsNot
  <2>2. Linked(rank)'
    BY <1>1, <1>2 DEF Ordered, Linked
  <2>3. LastInMap(rank)'
    BY <1>1, <1>2 DEF Ordered, LastInMap
  <2>4. Distinct(rank)'
    BY <1>1, <1>2 DEF Ordered, Distinct
  <2> QED BY <2>1, <2>2, <2>3, <2>4 DEF Ordered, Streams
<1>4. CurrentUsed'
  BY <1>2, LiveCamAssumption DEF CurrentUsed, CamTypeOK, Streams
<1> QED BY <1>1, <1>3, <1>4 DEF Chained

\* A stream is over only when it is the first; the next one then is.
LEMMA OverKeepsChain ==
  ASSUME CamTypeOK, Chained, CurrentUsed, OnlyFirstOpen,
         NEW n \in Streams, Used(n), stream[n].previous = 0, Over(n)
  PROVE  /\ Chained' /\ CurrentUsed' /\ OnlyFirstOpen'
         /\ stream' \in [Streams -> Upstreams]
<1>1. PICK rank \in [Streams -> Nat] : Ordered(rank)
  BY DEF Chained
<1>2. /\ stream' = [m \in Streams |->
           IF m = n THEN Unused
           ELSE [stream[m] EXCEPT !.previous = IF @ = n THEN 0 ELSE @]]
      /\ current' = IF current = n THEN 0 ELSE current
  BY DEF Over
<1>3. \A m \in Streams : m # n =>
        /\ stream'[m] = [stream[m] EXCEPT !.previous = IF stream[m].previous = n THEN 0
                                                        ELSE stream[m].previous]
        /\ stream'[m].phase = stream[m].phase
        /\ stream'[m].previous = IF stream[m].previous = n THEN 0 ELSE stream[m].previous
        /\ stream'[m] \in Upstreams
  <2> TAKE m \in Streams
  <2> HAVE m # n
  <2>1. stream[m] \in Upstreams
    BY StreamFields
  <2>2. PICK next \in 0..MaxStreams : next = IF stream[m].previous = n THEN 0 ELSE stream[m].previous
    BY StreamFields, LiveCamAssumption
  <2>3. stream'[m] = [stream[m] EXCEPT !.previous = next]
    BY <1>2, <2>2
  <2>4. /\ stream'[m].phase = stream[m].phase /\ stream'[m].previous = next
        /\ stream'[m] \in Upstreams
    BY <2>1, <2>3 DEF Upstreams
  <2> QED BY <2>2, <2>3, <2>4
<1>4. stream'[n] = Unused /\ Unused \in Upstreams /\ Unused.phase = "ended"
  BY <1>2, LiveCamAssumption DEF Unused, Upstreams
<1>5. \A m \in Streams : Used(m)' <=> (m # n /\ Used(m))
  BY <1>3, <1>4 DEF Used
<1>6. \A m \in Streams : rank[m] \in Nat
  OBVIOUS
<1>7. stream' \in [Streams -> Upstreams]
  BY <1>2, <1>3, <1>4
<1>8. \A m \in Streams : Used(m) => rank[n] <= rank[m]
  BY <1>1 DEF Ordered, FirstWaitsNot
<1>9. \A m \in Streams : Used(m) /\ m # n => rank[n] + 1 <= rank[m]
  <2> TAKE m \in Streams
  <2> HAVE Used(m) /\ m # n
  <2>1. rank[n] <= rank[m] /\ rank[n] # rank[m]
    BY <1>1, <1>8 DEF Ordered, Distinct
  <2> QED BY <1>6, <2>1
<1>10. \A m \in Streams : stream[m].previous # 0 => stream[m].previous \in Streams
  BY StreamFields
<1>11. FirstWaitsNot(rank)'
  <2> SUFFICES ASSUME NEW m \in Streams, NEW k \in Streams, Used(m)', Used(k)',
                      stream'[k].previous = 0
               PROVE  rank[k] <= rank[m]
    BY DEF FirstWaitsNot, Streams
  <2>1. m # n /\ k # n /\ Used(m) /\ Used(k)
    BY <1>5
  <2>2. CASE stream[k].previous = 0
    BY <1>1, <2>1, <2>2 DEF Ordered, FirstWaitsNot
  <2>3. CASE stream[k].previous = n
    <3>1. rank[k] = rank[n] + 1
      BY <1>1, <2>1, <2>3, n # 0, LiveCamAssumption DEF Ordered, Linked, Streams
    <3> QED BY <1>9, <2>1, <3>1
  <2> QED BY <1>3, <2>1, <2>2, <2>3
<1>12. Linked(rank)'
  BY <1>1, <1>3, <1>5, <1>10 DEF Ordered, Linked, Streams
<1>13. \A m \in Streams : Used(m) /\ m # n => current # n
  <2> SUFFICES ASSUME NEW m \in Streams, Used(m), m # n, current = n PROVE FALSE
    OBVIOUS
  <2>1. rank[m] <= rank[n] /\ rank[n] + 1 <= rank[m]
    BY <1>1, <1>9 DEF Ordered, LastInMap
  <2> QED BY <1>6, <2>1
<1>14. LastInMap(rank)'
  BY <1>1, <1>2, <1>5, <1>13, LiveCamAssumption DEF Ordered, LastInMap, Streams, CamTypeOK
<1>15. Distinct(rank)'
  BY <1>1, <1>5 DEF Ordered, Distinct, Streams
<1>16. Chained'
  BY <1>11, <1>12, <1>14, <1>15 DEF Chained, Ordered, Streams
<1>17. CurrentUsed'
  BY <1>2, <1>5, LiveCamAssumption DEF CurrentUsed, CamTypeOK, Streams
<1>18. OnlyFirstOpen'
  BY <1>3, <1>4 DEF OnlyFirstOpen, Streams
<1> QED BY <1>7, <1>16, <1>17, <1>18

\* A new stream is the last one, and waits for the one that was.
LEMMA SubscribeKeeps ==
  ASSUME CamConsistent, NEW p \in Panels, Subscribes(p),
         panel' = [panel EXCEPT ![p] = "watching"], UNCHANGED served
  PROVE  /\ stream' \in [Streams -> Upstreams] /\ current' \in 0..MaxStreams
         /\ Chained' /\ CurrentUsed' /\ OnlyFirstOpen' /\ WatchedIsLive'
<1> USE DEF CamConsistent
<1>1. PICK rank \in [Streams -> Nat] : Ordered(rank)
  BY DEF Chained
<1>2. current # 0 => current \in Streams
  BY LiveCamAssumption DEF CamTypeOK, Streams
<1>3. ASSUME ~Live, NEW n \in Streams, stream[n] = Unused, stream' = Subscribed(p, n), current' = n
      PROVE  /\ stream' \in [Streams -> Upstreams] /\ current' \in 0..MaxStreams
             /\ Chained' /\ CurrentUsed' /\ OnlyFirstOpen' /\ WatchedIsLive'
  <2> DEFINE new == [phase |-> "waiting", aborted |-> FALSE, previous |-> current, viewers |-> {p}]
  <2>1. new \in Upstreams
    BY DEF Upstreams, CamTypeOK
  <2>2. /\ new.phase = "waiting" /\ new.previous = current
        /\ ~new.aborted /\ new.viewers = {p}
    OBVIOUS
  <2>3. stream' = [stream EXCEPT ![n] = new]
    BY <1>3 DEF Subscribed
  <2> HIDE DEF new
  <2>4. stream' \in [Streams -> Upstreams] /\ current' \in 0..MaxStreams
    BY <1>3, <2>1, <2>3, LiveCamAssumption DEF CamTypeOK, Streams
  <2>5. stream'[n] = new /\ \A m \in Streams : m # n => stream'[m] = stream[m]
    BY <2>3 DEF CamTypeOK
  <2>6. ~Used(n)
    BY <1>3 DEF Used, Unused
  <2>7. \A m \in Streams : Used(m)' <=> (m = n \/ Used(m))
    BY <2>2, <2>5 DEF Used
  <2>8. current # 0 => Used(current) /\ current # n
    BY <2>6 DEF CurrentUsed
  <2>9. PICK next \in [Streams -> Nat] :
          /\ \A m \in Streams : m # n => next[m] = rank[m]
          /\ current # 0 => next[n] = rank[current] + 1
    <3> DEFINE longer == [rank EXCEPT ![n] = IF current = 0 THEN 0 ELSE rank[current] + 1]
    <3>1. /\ longer \in [Streams -> Nat]
          /\ \A m \in Streams : m # n => longer[m] = rank[m]
          /\ current # 0 => longer[n] = rank[current] + 1
      BY <1>2
    <3> QED BY <3>1
  <2>10. \A m \in Streams : next[m] \in Nat /\ rank[m] \in Nat
    BY <2>9
  <2>11. \A m \in Streams : Used(m) => m # n /\ next[m] + 1 <= next[n]
    <3> TAKE m \in Streams
    <3> HAVE Used(m)
    <3>1. m # n /\ current # 0 /\ rank[m] <= rank[current]
      BY <1>1, <2>6 DEF Ordered, LastInMap
    <3> QED BY <1>2, <2>9, <2>10, <3>1
  <2>12. FirstWaitsNot(next)'
    <3> SUFFICES ASSUME NEW m \in Streams, NEW k \in Streams, Used(m)', Used(k)',
                        stream'[k].previous = 0
                 PROVE  next[k] <= next[m]
      BY DEF FirstWaitsNot, Streams
    <3>1. CASE k = n
      <4>1. m = n
        BY <1>1, <2>2, <2>5, <2>7, <3>1 DEF Ordered, LastInMap
      <4> QED BY <2>10, <3>1, <4>1
    <3>2. CASE k # n /\ m = n
      BY <2>7, <2>10, <2>11, <3>2
    <3>3. CASE k # n /\ m # n
      BY <1>1, <2>5, <2>7, <2>9, <3>3 DEF Ordered, FirstWaitsNot
    <3> QED BY <3>1, <3>2, <3>3
  <2>13. Linked(next)'
    <3> SUFFICES ASSUME NEW m \in Streams, Used(m)', stream'[m].previous # 0
                 PROVE  /\ stream'[stream'[m].previous].phase # "ended"
                        /\ next[m] = next[stream'[m].previous] + 1
      BY DEF Linked, Streams, Used
    <3>1. CASE m = n
      <4>1. stream'[m].previous = current /\ current \in Streams
        BY <1>2, <2>2, <2>5, <3>1
      <4>2. current # 0 /\ current # n /\ stream'[current] = stream[current] /\ Used(current)
        BY <2>5, <2>8, <4>1, LiveCamAssumption DEF Streams
      <4> QED BY <2>9, <3>1, <4>1, <4>2 DEF Used
    <3>2. CASE m # n
      <4>1. /\ stream'[m] = stream[m] /\ stream[m].previous \in Streams
            /\ Used(stream[m].previous) /\ rank[m] = rank[stream[m].previous] + 1
        BY <1>1, <2>5, <2>7, <3>2, StreamFields DEF Ordered, Linked
      <4>2. stream[m].previous # n
        BY <2>6, <4>1
      <4>3. stream'[stream[m].previous] = stream[stream[m].previous]
        BY <2>5, <4>1, <4>2
      <4> QED BY <2>9, <3>2, <4>1, <4>2, <4>3 DEF Used
    <3> QED BY <3>1, <3>2
  <2>14. LastInMap(next)'
    <3> SUFFICES ASSUME NEW m \in Streams, Used(m)'
                 PROVE  n # 0 /\ Used(n)' /\ next[m] <= next[n]
      BY <1>3 DEF LastInMap, Streams
    <3>1. n # 0 /\ Used(n)'
      BY <2>7, LiveCamAssumption DEF Streams
    <3>2. next[m] <= next[n]
      BY <2>7, <2>10, <2>11
    <3> QED BY <3>1, <3>2
  <2>15. Distinct(next)'
    <3> SUFFICES ASSUME NEW m \in Streams, NEW k \in Streams, Used(m)', Used(k)', next[m] = next[k]
                 PROVE  m = k
      BY DEF Distinct, Streams
    <3>1. CASE m = n \/ k = n
      BY <2>7, <2>10, <2>11, <3>1
    <3>2. CASE m # n /\ k # n
      BY <1>1, <2>7, <2>9, <3>2 DEF Ordered, Distinct
    <3> QED BY <3>1, <3>2
  <2>16. Chained'
    BY <2>9, <2>12, <2>13, <2>14, <2>15 DEF Chained, Ordered, Streams
  <2>17. CurrentUsed'
    BY <1>3, <2>7 DEF CurrentUsed
  <2>18. OnlyFirstOpen'
    BY <2>2, <2>5 DEF OnlyFirstOpen, Streams
  <2>19. WatchedIsLive'
    <3>1. served => \A q \in Panels : panel[q] # "watching"
      BY <1>3 DEF WatchedIsLive
    <3>2. Live' /\ p \in stream'[current'].viewers
      BY <1>3, <2>2, <2>5, LiveCamAssumption DEF Live, Streams
    <3> QED BY <3>1, <3>2 DEF WatchedIsLive, CamTypeOK
  <2> QED BY <2>4, <2>16, <2>17, <2>18, <2>19
<1>4. ASSUME Live, stream' = [stream EXCEPT ![current].viewers = @ \union {p}], UNCHANGED current
      PROVE  /\ stream' \in [Streams -> Upstreams] /\ current' \in 0..MaxStreams
             /\ Chained' /\ CurrentUsed' /\ OnlyFirstOpen' /\ WatchedIsLive'
  <2>1. current \in Streams
    BY <1>2, <1>4 DEF Live
  <2>2. stream[current] \in Upstreams
    BY <2>1, StreamFields
  <2>3. [stream[current] EXCEPT !.viewers = stream[current].viewers \union {p}] \in Upstreams
    BY <2>2 DEF Upstreams
  <2>4. /\ \A n \in Streams : n # current => stream'[n] = stream[n]
        /\ stream'[current]
             = [stream[current] EXCEPT !.viewers = stream[current].viewers \union {p}]
        /\ stream' \in [Streams -> Upstreams]
    BY <1>4, <2>1, <2>3 DEF CamTypeOK
  <2>5. /\ stream'[current].phase = stream[current].phase
        /\ stream'[current].previous = stream[current].previous
        /\ stream'[current].aborted = stream[current].aborted
        /\ stream'[current].viewers = stream[current].viewers \union {p}
    BY <2>2, <2>4 DEF Upstreams
  <2>6. \A n \in Streams : /\ stream'[n].phase = stream[n].phase
                           /\ stream'[n].previous = stream[n].previous
    BY <2>4, <2>5
  <2>7. Chained' /\ CurrentUsed'
    BY <1>4, <2>6, ChainStays
  <2>8. OnlyFirstOpen'
    BY <2>6 DEF OnlyFirstOpen, Streams
  <2>9. WatchedIsLive'
    BY <1>4, <2>5 DEF WatchedIsLive, Live, CamTypeOK
  <2>10. current' \in 0..MaxStreams
    BY <1>4 DEF CamTypeOK
  <2> QED BY <2>4, <2>7, <2>8, <2>9, <2>10
<1> QED BY <1>3, <1>4 DEF Subscribes

\* A panel that leaves takes its subscription along, and only its own.
LEMMA LeftKeeps ==
  ASSUME CamConsistent, NEW p \in Panels, NEW next \in {"hidden", "retrying"}, Left(p, next),
         UNCHANGED <<online, current, served>>, switches' \in 0..MaxSwitches
  PROVE  CamConsistent'
<1> USE DEF CamConsistent
<1>1. \A n \in Streams : /\ stream'[n] \in Upstreams
                         /\ stream'[n].phase = stream[n].phase
                         /\ stream'[n].previous = stream[n].previous
                         /\ stream'[n].viewers = stream[n].viewers \ {p}
                         /\ stream'[n].aborted => stream[n].aborted \/ stream[n].viewers \ {p} = {}
  <2> TAKE n \in Streams
  <2> DEFINE left == stream[n].viewers \ {p}
  <2>1. stream[n] \in Upstreams
    BY StreamFields
  <2>2. left \in SUBSET Panels
    BY <2>1 DEF Upstreams
  <2>3. PICK over \in BOOLEAN : over = (stream[n].aborted \/ (p \in stream[n].viewers /\ left = {}))
    BY Zenon
  <2>4. stream'[n] = [stream[n] EXCEPT !.viewers = left,
                        !.aborted = stream[n].aborted \/ (p \in stream[n].viewers /\ left = {})]
    BY DEF Left, Without
  <2>5. over => stream[n].aborted \/ left = {}
    BY <2>3
  <2> HIDE DEF left
  <2>6. stream'[n] = [[stream[n] EXCEPT !.viewers = left] EXCEPT !.aborted = over]
    BY <2>1, <2>3, <2>4 DEF Upstreams
  <2>7. /\ stream'[n] \in Upstreams
        /\ stream'[n].phase = stream[n].phase
        /\ stream'[n].previous = stream[n].previous
        /\ stream'[n].viewers = left
        /\ stream'[n].aborted = over
    BY <2>1, <2>2, <2>6 DEF Upstreams
  <2> QED BY <2>5, <2>7 DEF left
<1>2. stream' \in [Streams -> Upstreams]
  <2>1. DOMAIN stream' = Streams /\ stream' = [n \in Streams |-> stream'[n]]
    BY DEF Left, Without
  <2> QED BY <1>1, <2>1
<1>3. NoFlow \in Flows
  BY DEF NoFlow, Flows
<1>4. /\ panel' = [panel EXCEPT ![p] = next] /\ flow' = [flow EXCEPT ![p] = NoFlow]
  BY DEF Left
<1>5. CamTypeOK'
  BY <1>2, <1>3, <1>4 DEF CamTypeOK
<1>6. Chained' /\ CurrentUsed'
  BY <1>1, ChainStays
<1>7. OnlyFirstOpen'
  BY <1>1 DEF OnlyFirstOpen, Streams
<1>8. WatchedIsLive'
  <2> SUFFICES ASSUME served, NEW q \in Panels, panel'[q] = "watching"
               PROVE  Live' /\ q \in stream'[current].viewers
    BY DEF WatchedIsLive
  <2>1. q # p /\ panel[q] = "watching"
    BY <1>4 DEF CamTypeOK
  <2>2. Live /\ q \in stream[current].viewers /\ current \in Streams
    BY <2>1, LiveCamAssumption DEF WatchedIsLive, Live, CamTypeOK, Streams
  <2> QED BY <1>1, <2>1, <2>2 DEF Live
<1> QED BY <1>5, <1>6, <1>7, <1>8

\* A step of one stream keeps the invariant if the stream neither begins nor ends.
LEMMA PhaseKeeps ==
  ASSUME CamConsistent, NEW n \in Streams, NEW next \in {"open", "delay"},
         stream[n].phase \in {"waiting", "open", "delay"}, stream[n].previous = 0,
         stream' = [stream EXCEPT ![n].phase = next],
         UNCHANGED <<online, current, panel, flow, served>>, switches' \in 0..MaxSwitches
  PROVE  CamConsistent'
<1> USE DEF CamConsistent
<1>1. stream[n] \in Upstreams
  BY StreamFields
<1>2. [stream[n] EXCEPT !.phase = next] \in Upstreams
  BY <1>1 DEF Upstreams
<1>3. /\ stream' \in [Streams -> Upstreams]
      /\ stream'[n] = [stream[n] EXCEPT !.phase = next]
      /\ \A m \in Streams : m # n => stream'[m] = stream[m]
  BY <1>2 DEF CamTypeOK
<1>4. /\ stream'[n].phase = next
      /\ stream'[n].previous = 0 /\ stream[n].previous = 0
      /\ stream'[n].aborted = stream[n].aborted
      /\ stream'[n].viewers = stream[n].viewers
  BY <1>1, <1>3 DEF Upstreams
<1>5. CamTypeOK'
  BY <1>3 DEF CamTypeOK
<1>6. Chained' /\ CurrentUsed'
  BY <1>3, <1>4, ChainStays
<1>7. OnlyFirstOpen'
  BY <1>3, <1>4 DEF OnlyFirstOpen, Streams
<1>8. WatchedIsLive'
  BY <1>3, <1>4, LiveCamAssumption DEF WatchedIsLive, Live, CamTypeOK, Streams
<1> QED BY <1>5, <1>6, <1>7, <1>8

\* Where a stream does not wait, it waits for none: those before it have left.
LEMMA NotWaiting ==
  ASSUME CamConsistent, NEW n \in Streams, Used(n), ~Waits(n)
  PROVE  stream[n].previous = 0
<1>1. PICK rank \in [Streams -> Nat] : Ordered(rank)
  BY DEF CamConsistent, Chained
<1> QED BY <1>1 DEF Ordered, Linked, Waits, Used

\* Cancelling every stream keeps the chain; nobody may be watching then.
LEMMA CancelledKeeps ==
  ASSUME CamConsistent, CamTypeOK', current' = current,
         \A n \in Streams : /\ stream'[n].phase = stream[n].phase
                            /\ stream'[n].previous = stream[n].previous,
         served' => \A p \in Panels : panel'[p] # "watching"
  PROVE  CamConsistent'
<1> USE DEF CamConsistent
<1>1. Chained' /\ CurrentUsed'
  BY ChainStays
<1>2. OnlyFirstOpen'
  BY DEF OnlyFirstOpen, Streams
<1>3. WatchedIsLive'
  BY DEF WatchedIsLive
<1> QED BY <1>1, <1>2, <1>3

\* The bound on what goes wrong is kept.
LEMMA SwitchBounded == CamTypeOK /\ Switch => switches' \in 0..MaxSwitches
BY LiveCamAssumption DEF CamTypeOK, Switch

\* Every step of panels, streams and account keeps the invariant.
LEMMA CamStep ==
  ASSUME CamConsistent, [CamNext]_camVars
  PROVE  CamConsistent'
<1> USE DEF CamConsistent
<1>1. ASSUME UNCHANGED <<stream, current, served>>, CamTypeOK',
             \A p \in Panels : panel'[p] = "watching" => panel[p] = "watching"
      PROVE  CamConsistent'
  <2>1. Chained' /\ CurrentUsed'
    BY <1>1, ChainStays
  <2>2. OnlyFirstOpen' /\ WatchedIsLive'
    BY <1>1 DEF OnlyFirstOpen, WatchedIsLive, Live, Streams
  <2> QED BY <1>1, <2>1, <2>2
<1>2. NoFlow \in Flows
  BY DEF NoFlow, Flows
<1>3. ASSUME NEW p \in Panels, ConnectPanel(p) PROVE CamConsistent'
  <2>1. CamTypeOK' /\ \A q \in Panels : panel'[q] = "watching" => panel[q] = "watching"
    BY <1>3 DEF ConnectPanel, CamTypeOK
  <2> QED BY <1>1, <1>3, <2>1 DEF ConnectPanel
<1>4. ASSUME NEW p \in Panels, Join(p) PROVE CamConsistent'
  <2>1. flow' \in [Panels -> Flows] /\ UNCHANGED <<online, served, switches>>
    BY <1>2, <1>4 DEF Join, CamTypeOK
  <2>2. CASE online
    <3>1. Subscribes(p) /\ panel' = [panel EXCEPT ![p] = "watching"]
      BY <1>4, <2>2 DEF Join
    <3>2. /\ stream' \in [Streams -> Upstreams] /\ current' \in 0..MaxStreams
          /\ Chained' /\ CurrentUsed' /\ OnlyFirstOpen' /\ WatchedIsLive'
      BY <2>1, <3>1, SubscribeKeeps
    <3>3. CamTypeOK'
      BY <2>1, <3>1, <3>2 DEF CamTypeOK
    <3> QED BY <3>2, <3>3
  <2>3. CASE ~online
    <3>1. panel' = [panel EXCEPT ![p] = "retrying"] /\ UNCHANGED <<stream, current>>
      BY <1>4, <2>3 DEF Join
    <3>2. CamTypeOK' /\ \A q \in Panels : panel'[q] = "watching" => panel[q] = "watching"
      BY <2>1, <3>1 DEF CamTypeOK
    <3> QED BY <1>1, <2>1, <3>1, <3>2
  <2> QED BY <2>2, <2>3
<1>5. ASSUME NEW p \in Panels, LeavePanel(p) \/ LoseSocket(p) PROVE CamConsistent'
  <2>1. /\ Left(p, "hidden") \/ Left(p, "retrying")
        /\ switches' \in 0..MaxSwitches /\ UNCHANGED <<online, current, served>>
    BY <1>5, SwitchBounded DEF LeavePanel, LoseSocket
  <2> QED BY <2>1, LeftKeeps
<1>6. ASSUME NEW p \in Panels, CloseTold(p) PROVE CamConsistent'
  <2>1. /\ Left(p, "retrying")
        /\ switches' \in 0..MaxSwitches /\ UNCHANGED <<online, current, served>>
    BY <1>6 DEF CloseTold, CamTypeOK
  <2> QED BY <2>1, LeftKeeps
<1>7. ASSUME NEW p \in Panels, SendFrame(p) PROVE CamConsistent'
  <2>1. CASE Left(p, "retrying")
    <3>1. switches' \in 0..MaxSwitches /\ UNCHANGED <<online, current, served>>
      BY <1>7 DEF SendFrame, CamTypeOK
    <3> QED BY <2>1, <3>1, LeftKeeps
  <2>2. CASE /\ flow' = [flow EXCEPT ![p] = [queued |-> FALSE, unacked |-> TRUE]]
             /\ UNCHANGED <<panel, stream>>
    <3>1. CamTypeOK'
      BY <1>7, <2>2 DEF SendFrame, CamTypeOK, Flows
    <3> QED BY <1>1, <1>7, <2>2, <3>1 DEF SendFrame
  <2> QED BY <1>7, <2>1, <2>2 DEF SendFrame
<1>8. ASSUME NEW p \in Panels, Acknowledge(p) PROVE CamConsistent'
  <2>1. CamTypeOK'
    BY <1>8 DEF Acknowledge, CamTypeOK, Flows
  <2> QED BY <1>1, <1>8, <2>1 DEF Acknowledge
<1>9. ASSUME NEW n \in Streams, OpenUpstream(n) PROVE CamConsistent'
  <2>1. /\ stream[n].phase \in {"waiting", "open", "delay"} /\ Used(n) /\ ~Waits(n)
        /\ stream' = [stream EXCEPT ![n].phase = "open"]
        /\ UNCHANGED <<online, current, panel, flow, served>> /\ switches' \in 0..MaxSwitches
    BY <1>9 DEF OpenUpstream, Used, CamTypeOK
  <2>2. stream[n].previous = 0
    BY <2>1, NotWaiting
  <2> QED BY <2>1, <2>2, PhaseKeeps
<1>10. ASSUME NEW n \in Streams, Interrupted(n) PROVE CamConsistent'
  <2>1. /\ stream[n].phase \in {"waiting", "open", "delay"} /\ stream[n].previous = 0
        /\ stream' = [stream EXCEPT ![n].phase = "delay"]
        /\ UNCHANGED <<online, current, panel, flow, served>> /\ switches' \in 0..MaxSwitches
    BY <1>10, SwitchBounded DEF Interrupted, OnlyFirstOpen
  <2> QED BY <2>1, PhaseKeeps
<1>11. ASSUME NEW n \in Streams, Over(n), Used(n), stream[n].previous = 0,
              UNCHANGED <<online, flow, served>>, switches' \in 0..MaxSwitches,
              panel' \in [Panels -> {"hidden", "connecting", "watching", "told", "retrying"}],
              \A p \in Panels : panel'[p] = "watching" =>
                panel[p] = "watching" /\ (stream[n].aborted \/ p \notin stream[n].viewers)
       PROVE  CamConsistent'
  <2>1. /\ Chained' /\ CurrentUsed' /\ OnlyFirstOpen'
        /\ stream' \in [Streams -> Upstreams]
    BY <1>11, OverKeepsChain
  <2>2. current' = IF current = n THEN 0 ELSE current
    BY <1>11 DEF Over
  <2>3. CamTypeOK'
    BY <1>11, <2>1, <2>2, LiveCamAssumption DEF CamTypeOK
  <2>4. WatchedIsLive'
    <3> SUFFICES ASSUME served, NEW p \in Panels, panel'[p] = "watching"
                 PROVE  Live' /\ p \in stream'[current'].viewers
      BY <1>11 DEF WatchedIsLive
    <3>1. Live /\ p \in stream[current].viewers /\ current # n
      BY <1>11 DEF WatchedIsLive, Live
    <3>2. current' = current /\ current \in Streams
      BY <2>2, <3>1, StreamFields DEF Live
    <3>3. PICK next \in 0..MaxStreams : stream'[current] = [stream[current] EXCEPT !.previous = next]
      <4>1. stream'[current] = [stream[current] EXCEPT !.previous =
                                  IF stream[current].previous = n THEN 0 ELSE stream[current].previous]
        BY <1>11, <3>1, <3>2 DEF Over
      <4>2. PICK next \in 0..MaxStreams :
              next = IF stream[current].previous = n THEN 0 ELSE stream[current].previous
        BY <3>2, StreamFields, LiveCamAssumption
      <4> QED BY <4>1, <4>2
    <3>4. /\ stream'[current].aborted = stream[current].aborted
          /\ stream'[current].viewers = stream[current].viewers
      BY <3>2, <3>3, StreamFields DEF Upstreams
    <3> QED BY <3>1, <3>2, <3>4 DEF Live
  <2> QED BY <2>1, <2>3, <2>4
<1>12. ASSUME NEW n \in Streams, End(n) PROVE CamConsistent'
  <2>1. /\ Over(n) /\ Used(n) /\ ~Waits(n) /\ stream[n].aborted
        /\ UNCHANGED <<online, panel, flow, served, switches>>
    BY <1>12 DEF End, Used
  <2>2. stream[n].previous = 0
    BY <2>1, NotWaiting
  <2>3. /\ switches' \in 0..MaxSwitches
        /\ panel' \in [Panels -> {"hidden", "connecting", "watching", "told", "retrying"}]
    BY <2>1 DEF CamTypeOK
  <2> QED BY <1>11, <2>1, <2>2, <2>3
<1>13. ASSUME NEW n \in Streams, Fatal(n) PROVE CamConsistent'
  <2>1. /\ Over(n) /\ Used(n) /\ stream[n].previous = 0
        /\ panel' = [p \in Panels |-> IF p \in stream[n].viewers THEN "told" ELSE panel[p]]
        /\ UNCHANGED <<online, flow, served>> /\ switches' \in 0..MaxSwitches
    BY <1>13, SwitchBounded DEF Fatal, Used, OnlyFirstOpen
  <2>2. /\ panel' \in [Panels -> {"hidden", "connecting", "watching", "told", "retrying"}]
        /\ \A p \in Panels : panel'[p] = "watching" =>
             panel[p] = "watching" /\ (stream[n].aborted \/ p \notin stream[n].viewers)
    BY <2>1 DEF CamTypeOK
  <2> QED BY <1>11, <2>1, <2>2
<1>14. ASSUME NEW n \in Streams, Frame(n) PROVE CamConsistent'
  <2>1. \A p \in Panels : [flow[p] EXCEPT !.queued = TRUE] \in Flows /\ flow[p] \in Flows
    BY DEF CamTypeOK, Flows
  <2>2. flow' \in [Panels -> Flows]
    BY <1>14, <2>1 DEF Frame
  <2>3. CamTypeOK'
    BY <1>14, <2>2 DEF Frame, CamTypeOK
  <2> QED BY <1>1, <1>14, <2>3 DEF Frame
<1>15. CASE GoOffline
  <2>1. /\ online' = FALSE /\ switches' \in 0..MaxSwitches /\ UNCHANGED <<current, served>>
        /\ panel' = [p \in Panels |-> IF panel[p] = "watching" THEN "retrying" ELSE panel[p]]
        /\ stream' = [n \in Streams |-> [stream[n] EXCEPT !.viewers = {}, !.aborted = TRUE]]
        /\ flow' = [p \in Panels |-> NoFlow]
    BY <1>15, SwitchBounded DEF GoOffline
  <2>2. \A n \in Streams : /\ stream'[n] \in Upstreams
                           /\ stream'[n].phase = stream[n].phase
                           /\ stream'[n].previous = stream[n].previous
    <3> TAKE n \in Streams
    <3>1. stream[n] \in Upstreams
      BY StreamFields
    <3>2. stream'[n] = [[stream[n] EXCEPT !.viewers = {}] EXCEPT !.aborted = TRUE]
      BY <2>1, <3>1 DEF Upstreams
    <3> QED BY <3>1, <3>2 DEF Upstreams
  <2>3. stream' \in [Streams -> Upstreams]
    BY <2>1, <2>2
  <2>4. flow' \in [Panels -> Flows]
    BY <1>2, <2>1
  <2>5. /\ panel' \in [Panels -> {"hidden", "connecting", "watching", "told", "retrying"}]
        /\ \A p \in Panels : panel'[p] # "watching"
    BY <2>1 DEF CamTypeOK
  <2>6. CamTypeOK'
    BY <2>1, <2>3, <2>4, <2>5 DEF CamTypeOK
  <2> QED BY <2>1, <2>2, <2>5, <2>6, CancelledKeeps
<1>16. CASE GoOnline
  <2>1. CamTypeOK'
    BY <1>16 DEF GoOnline, CamTypeOK
  <2> QED BY <1>1, <1>16, <2>1 DEF GoOnline
<1>17. CASE CloseAll
  <2>1. /\ served' = FALSE /\ switches' \in 0..MaxSwitches
        /\ stream' = [n \in Streams |-> [stream[n] EXCEPT !.aborted = TRUE]]
        /\ UNCHANGED <<online, current, panel, flow>>
    BY <1>17, SwitchBounded DEF CloseAll
  <2>2. \A n \in Streams : /\ stream'[n] \in Upstreams
                           /\ stream'[n].phase = stream[n].phase
                           /\ stream'[n].previous = stream[n].previous
    <3> TAKE n \in Streams
    <3>1. stream[n] \in Upstreams
      BY StreamFields
    <3>2. stream'[n] = [stream[n] EXCEPT !.aborted = TRUE]
      BY <2>1
    <3> QED BY <3>1, <3>2 DEF Upstreams
  <2>3. stream' \in [Streams -> Upstreams]
    BY <2>1, <2>2
  <2>4. CamTypeOK'
    BY <2>1, <2>3 DEF CamTypeOK
  <2> QED BY <2>1, <2>2, <2>4, CancelledKeeps
<1>18. CASE UNCHANGED camVars
  <2>1. CamTypeOK' /\ UNCHANGED <<stream, current, served, panel>>
    BY <1>18 DEF camVars, CamTypeOK
  <2> QED BY <1>1, <2>1
<1> QED BY <1>3, <1>4, <1>5, <1>6, <1>7, <1>8, <1>9, <1>10, <1>12, <1>13, <1>14, <1>15, <1>16,
           <1>17, <1>18 DEF CamNext

-----------------------------------------------------------------------------
(***************************************************************************)
(* The parts together.                                                     *)
(***************************************************************************)

\* Every step of the website is a step of each of its parts, or leaves it alone.
LEMMA WebsiteStep ==
  ASSUME [WebsiteNext]_websiteVars
  PROVE  /\ [SessionsNext]_sessionVars /\ [SocketNext]_socketVars /\ [NoteNext]_noteVars
         /\ [ProfileNext]_profileVars /\ [NewsNext]_newsVars /\ [CamNext]_camVars
BY DEF WebsiteNext, websiteVars

WebsiteConsistent ==
  /\ SessionsConsistent /\ SocketConsistent /\ NotesConsistent
  /\ ProfileConsistent /\ NewsConsistent /\ CamConsistent

\* The conjunction of the parts' invariants is inductive.
THEOREM WebsiteAlwaysConsistent == WebsiteSpec => []WebsiteConsistent
<1>1. WebsiteInit => WebsiteConsistent
  BY SessionsInitConsistent, SocketInitConsistent, NoteInitConsistent, ProfileInitConsistent,
     NewsInitConsistent, CamInitConsistent DEF WebsiteInit, WebsiteConsistent
<1>2. WebsiteConsistent /\ [WebsiteNext]_websiteVars => WebsiteConsistent'
  BY WebsiteStep, SessionsStep, SocketStep, NoteStep, ProfileStep, NewsStep, CamStep
     DEF WebsiteConsistent
<1> QED BY <1>1, <1>2, PTL DEF WebsiteSpec

\* The variables of the six parts have their types, whatever the constants.
THEOREM WebsiteTypeCorrect == WebsiteSpec => []WebsiteTypeOK
<1>1. WebsiteConsistent => WebsiteTypeOK
  BY DEF WebsiteConsistent, WebsiteTypeOK, SessionsConsistent, SocketConsistent, NotesConsistent,
         ProfileConsistent, NewsConsistent, CamConsistent
<1> QED BY <1>1, WebsiteAlwaysConsistent, PTL

\* What administrators decide is in force, and an active one remains unless two
\* changes of users overlapped, for any number of requests of users/service.ts
\* and logins under way.
THEOREM AdminsAlwaysDecide == WebsiteSpec => []AdminsDecide
<1>1. WebsiteConsistent => AdminsDecide
  BY ConsistentAdminsDecide DEF WebsiteConsistent
<1> QED BY <1>1, WebsiteAlwaysConsistent, PTL

\* The safety half of EventsAsDue: authorizeSocket sends a live event only to
\* whom it is due, and after a revocation nothing is sent or executed.
THEOREM NothingEverUndue == WebsiteSpec => NothingUndue
<1>1. WebsiteConsistent => sent \ {0} \subseteq due
  BY DEF WebsiteConsistent, SocketConsistent, SentDue
<1>2. WebsiteConsistent /\ [WebsiteNext]_websiteVars
        => [sent' # sent \/ ran' # ran => ~revoked]_socketVars
  BY WebsiteStep, NothingRevoked DEF WebsiteConsistent
<1> QED BY <1>1, <1>2, WebsiteAlwaysConsistent, PTL DEF WebsiteSpec, NothingUndue

\* What was typed last into the notes of an account is in the editor, in the
\* local draft or at the server, unless the user gave it up.
THEOREM TextAlwaysKept == WebsiteSpec => []TextKept
<1>1. WebsiteConsistent => TextKept
  BY ConsistentTextKept DEF WebsiteConsistent
<1> QED BY <1>1, WebsiteAlwaysConsistent, PTL

\* What useDashboardPreferences shows is the user's own, and never older than the
\* last edit that was acknowledged.
THEOREM AcknowledgedAlwaysShown == WebsiteSpec => []AcknowledgedShown
<1>1. WebsiteConsistent => AcknowledgedShown
  BY DEF WebsiteConsistent, ProfileConsistent
<1> QED BY <1>1, WebsiteAlwaysConsistent, PTL

\* No announcement is marked as read that was not displayed.
THEOREM AlwaysDisplayedBeforeRead == WebsiteSpec => []DisplayedBeforeRead
<1>1. WebsiteConsistent => DisplayedBeforeRead
  BY DEF WebsiteConsistent, NewsConsistent
<1> QED BY <1>1, WebsiteAlwaysConsistent, PTL

\* No second stream of the live camera is open upstream while a cancelled one is
\* still ending, and every viewer is with the stream that is or will be open.
THEOREM AlwaysOneUpstream == WebsiteSpec => []OneUpstream
<1>1. WebsiteConsistent => OneUpstream
  BY ConsistentOneUpstream DEF WebsiteConsistent
<1> QED BY <1>1, WebsiteAlwaysConsistent, PTL

=============================================================================
