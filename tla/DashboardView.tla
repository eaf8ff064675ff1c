---------------------------- MODULE DashboardView ----------------------------
(***************************************************************************)
(* The card of one account on the dashboard (pages/DashboardPage.tsx), fed *)
(* by two channels: the list of accounts, read over HTTP when the page is  *)
(* opened, after a deletion and after a reconnection, and the dashboard    *)
(* socket (useDashboardSocket, lib/sockets.ts; /ws/dashboard,              *)
(* websocket/routes.ts), which tells of statuses, images (accounts/        *)
(* images.ts) and sales. Lists may be under way at the same time and       *)
(* arrive in any order; the socket keeps the order, and may be cut.        *)
(*                                                                         *)
(* The value of an image or of the last sale is the number of its changes. *)
(* The database, external, answers the writes of an account in order.      *)
(***************************************************************************)
EXTENDS Integers, Sequences, FiniteSets

CONSTANTS
  MaxLists,   \* bound: readings of the list under way at a time
  MaxNews,    \* bound: changes of the account
  MaxReadings, \* bound: readings of the list
  MaxBreaks,  \* bound: cuts of the socket and failed requests
  Unloaded,   \* no list was shown yet
  Absent      \* the list shown does not hold the account

Lists == 1..MaxLists
Kinds == {"status", "image", "sale"}
Row   == [image : 0..MaxNews, sale : 0..MaxNews]

ASSUME DashboardViewAssumption ==
  /\ MaxLists \in Nat \ {0}
  /\ MaxNews \in Nat
  /\ MaxReadings \in Nat \ {0}
  /\ MaxBreaks \in Nat
  /\ Unloaded # Absent /\ {Unloaded, Absent} \intersect Row = {}

VARIABLES
  account,   \* the account: status, image and last sale as the backend has them
  present,   \* the account exists
  told,      \* the image and the sale the listeners were last told of
  cable,     \* the socket: "down", "joining" (subscribed), "up", "ended"
  gathered,  \* kinds of the news the server gathers for its next batch
  wire,      \* messages under way to the page
  initial,   \* receivedInitialStatuses
  liveStatus,      \* liveStatuses: the account's status, or -1
  list,      \* accounts: the account's row, Unloaded or Absent
  lastSale,  \* lastSales: the last sale the socket told of, or 0
  readings,  \* readings of the list under way: an answer has a number
  removal,   \* the page's request to delete the account: "no", "sent", "done"
  upload,    \* the page's request to replace the image: 0, or -1 until done
  readingsMade, \* readings answered so far
  seen,      \* ghost: the number of the reading shown
  newest,    \* ghost: the latest reading ever shown
  needs,     \* ghost: news up to this reading escaped the page and it said so,
             \* or they came before the socket was first connected
  given,     \* ghost: the newest image the page ever had
  newsMade,  \* changes so far
  breaks     \* cuts and failures so far

backend == <<account, present, told>>
card == <<initial, liveStatus, list, lastSale, seen, newest, needs, given>>
requests == <<readings, removal, upload, readingsMade>>
dashVars == <<backend, cable, gathered, wire, card, requests, newsMade, breaks>>

Free == [at |-> "free", n |-> 0, row |-> Absent]
ListAsked == [at |-> "asked", n |-> 0, row |-> Absent]

DashTypeOK ==
  /\ account \in [Kinds -> 0..MaxNews]
  /\ present \in BOOLEAN
  /\ told \in Row
  /\ cable \in {"down", "joining", "up", "ended"}
  /\ gathered \subseteq Kinds
  /\ \A i \in DOMAIN wire : wire[i].first \in BOOLEAN /\ DOMAIN wire[i].news \subseteq Kinds
  /\ initial \in BOOLEAN
  /\ liveStatus \in -1..MaxNews
  /\ list \in Row \union {Unloaded, Absent}
  /\ lastSale \in 0..MaxNews
  /\ readings \in [Lists -> [at : {"free", "asked", "answered"}, n : 0..MaxReadings,
                            row : Row \union {Absent}]]
  /\ removal \in {"no", "sent", "done"}
  /\ upload \in -1..MaxNews
  /\ readingsMade \in 0..MaxReadings
  /\ {seen, newest} \subseteq 0..MaxReadings
  /\ needs \in -1..MaxReadings
  /\ given \in 0..MaxNews
  /\ newsMade \in 0..MaxNews
  /\ breaks \in 0..MaxBreaks

\* The page is opened: it asks for the list and connects.
DashInit ==
  /\ account = [k \in Kinds |-> 0]
  /\ present = TRUE
  /\ told = [image |-> 0, sale |-> 0]
  /\ cable = "down" /\ gathered = {} /\ wire = <<>>
  /\ initial = FALSE /\ liveStatus = -1 /\ list = Unloaded /\ lastSale = 0
  /\ readings = [l \in Lists |-> IF l = 1 THEN ListAsked ELSE Free]
  /\ removal = "no" /\ upload = 0
  /\ readingsMade = 0 /\ seen = 0 /\ newest = 0 /\ needs = -1 /\ given = 0
  /\ newsMade = 0 /\ breaks = 0

-----------------------------------------------------------------------------
(***************************************************************************)
(* The backend.                                                            *)
(***************************************************************************)

\* A listener of the socket: the newest of each kind waits for the batch. What
\* is told before the page was ever connected, or its answer lost, it may miss.
Hears(kind) ==
  /\ gathered' = IF cable \in {"joining", "up"} THEN gathered \union {kind} ELSE gathered
  /\ needs' = IF cable = "down" /\ ~initial THEN readingsMade ELSE needs

\* The supervisor's status changes and is emitted.
StatusNews ==
  /\ present /\ newsMade < MaxNews
  /\ newsMade' = newsMade + 1
  /\ account' = [account EXCEPT !.status = @ + 1]
  /\ Hears("status")
  /\ UNCHANGED <<present, told, cable, wire, initial, liveStatus, list, lastSale, seen,
                 newest, given, requests, breaks>>

\* persistSellEarning is done, or another user's replaceAccountImage.
RowNews(kind) ==
  /\ present /\ newsMade < MaxNews
  /\ newsMade' = newsMade + 1
  /\ account' = [account EXCEPT ![kind] = @ + 1]
  /\ UNCHANGED <<present, told, cable, gathered, wire, card, requests, breaks>>

\* Its listeners are told.
RowTold(kind) ==
  /\ told[kind] < account[kind]
  /\ told' = [told EXCEPT ![kind] = @ + 1]
  /\ Hears(kind)
  /\ UNCHANGED <<account, present, cable, wire, initial, liveStatus, list, lastSale, seen, newest,
                 given, requests, newsMade, breaks>>

\* The statuses are read and sent before any batch.
SendsStatuses ==
  /\ cable = "joining"
  /\ cable' = "up"
  /\ wire' = Append(wire, [first |-> TRUE, news |-> [k \in {"status"} |-> account[k]]])
  /\ UNCHANGED <<backend, gathered, card, requests, newsMade, breaks>>

\* The timer of scheduleFlush, and the job that sends the batch.
FlushNews ==
  /\ cable = "up" /\ gathered # {}
  /\ wire' = Append(wire, [first |-> FALSE,
                           news |-> [k \in gathered |-> IF k = "status" THEN account[k]
                                                        ELSE told[k]]])
  /\ gathered' = {}
  /\ UNCHANGED <<backend, cable, card, requests, newsMade, breaks>>

\* The list is read for one of the page's requests.
ListIsRead(l) ==
  /\ readings[l].at = "asked"
  /\ readingsMade < MaxReadings
  /\ readingsMade' = readingsMade + 1
  /\ readings' = [readings EXCEPT ![l] =
       [at |-> "answered", n |-> readingsMade',
        row |-> IF present THEN [image |-> account.image, sale |-> account.sale] ELSE Absent]]
  /\ UNCHANGED <<backend, cable, gathered, wire, card, removal, upload, newsMade, breaks>>

-----------------------------------------------------------------------------
(***************************************************************************)
(* The page.                                                               *)
(***************************************************************************)
Larger(a, b) == IF a > b THEN a ELSE b

\* load: the reads that are under way were forgotten first (clearApiReadCache),
\* so that this one is a request of its own.
Load ==
  \E l \in Lists :
    /\ readings[l].at = "free" /\ \A m \in Lists : m < l => readings[m].at # "free"
    /\ readings' = [readings EXCEPT ![l] = ListAsked]

\* updateImage.
UpdateImage(image) ==
  /\ list' = IF list \in {Unloaded, Absent} THEN list ELSE [list EXCEPT !.image = image]
  /\ given' = Larger(given, image)

\* updateSale: an older sale changes nothing.
UpdatedSale(row, sale) ==
  IF row \in {Unloaded, Absent} \/ lastSale >= sale \/ row.sale >= sale THEN row
  ELSE [row EXCEPT !.sale = sale]

\* The messages of a batch, in the order in which the server sends them.
BatchArrives ==
  /\ wire # <<>> /\ ~Head(wire).first
  /\ LET got == Head(wire).news IN
     /\ liveStatus' = IF "status" \in DOMAIN got THEN got["status"] ELSE liveStatus
     /\ LET pictured == IF "image" \in DOMAIN got /\ list \notin {Unloaded, Absent}
                        THEN [list EXCEPT !.image = got["image"]] ELSE list
        IN list' = IF "sale" \in DOMAIN got THEN UpdatedSale(pictured, got["sale"]) ELSE pictured
     /\ lastSale' = IF "sale" \in DOMAIN got THEN Larger(lastSale, got["sale"]) ELSE lastSale
     /\ given' = IF "image" \in DOMAIN got THEN Larger(given, got["image"]) ELSE given
  /\ wire' = Tail(wire)
  /\ UNCHANGED <<backend, cable, gathered, initial, seen, newest, needs, requests, newsMade,
                 breaks>>

\* The statuses replace those shown; those of a reconnection call for a new list.
StatusesArrive ==
  /\ wire # <<>> /\ Head(wire).first
  /\ liveStatus' = Head(wire).news["status"]
  /\ initial' = TRUE
  /\ IF initial THEN Load ELSE UNCHANGED readings
  /\ wire' = Tail(wire)
  /\ UNCHANGED <<backend, cable, gathered, list, lastSale, seen, newest, needs, given, removal,
                 upload, readingsMade, newsMade, breaks>>

\* Faulty: the list is shown as it was read.
WithoutLiveSale(row) == row

\* A sale the socket told of is kept if the list does not know it.
WithLiveSale(row) ==
  IF row = Absent \/ row.sale >= lastSale THEN row ELSE [row EXCEPT !.sale = lastSale]

\* The answer of load is shown.
ListArrives(l) ==
  /\ readings[l].at = "answered"
  /\ list' = WithLiveSale(readings[l].row)
  /\ given' = IF readings[l].row = Absent THEN given ELSE Larger(given, readings[l].row.image)
  /\ seen' = readings[l].n
  /\ newest' = Larger(newest, readings[l].n)
  /\ readings' = [readings EXCEPT ![l] = Free]
  /\ UNCHANGED <<backend, cable, gathered, wire, initial, liveStatus, lastSale, needs, removal,
                 upload, readingsMade, newsMade, breaks>>

\* It fails, or is too late: the page shows the error and what it had.
ListFails(l) ==
  /\ readings[l].at # "free"
  /\ breaks < MaxBreaks
  /\ breaks' = breaks + 1
  /\ readings' = [readings EXCEPT ![l] = Free]
  /\ needs' = readingsMade
  /\ UNCHANGED <<backend, cable, gathered, wire, initial, liveStatus, list, lastSale, seen, newest,
                 given, removal, upload, readingsMade, newsMade>>

\* The socket is cut and with it what is under way, or it is closed for good
\* because the session ended.
SocketCloses ==
  /\ cable \in {"joining", "up"}
  /\ breaks < MaxBreaks
  /\ breaks' = breaks + 1
  /\ cable' \in {"down", "ended"}
  /\ gathered' = {} /\ wire' = <<>>
  /\ needs' = IF initial THEN needs ELSE readingsMade
  /\ UNCHANGED <<backend, initial, liveStatus, list, lastSale, seen, newest, given, requests,
                 newsMade>>

\* connect, at first or three seconds after a cut; the server subscribes.
SocketConnects ==
  /\ cable = "down"
  /\ cable' = "joining"
  /\ UNCHANGED <<backend, gathered, wire, card, requests, newsMade, breaks>>

-----------------------------------------------------------------------------
\* deleteAccount, confirmed.
AsksRemoval ==
  /\ removal = "no" /\ list \notin {Unloaded, Absent}
  /\ removal' = "sent"
  /\ UNCHANGED <<backend, cable, gathered, wire, card, readings, upload, readingsMade,
                 newsMade, breaks>>

\* deleteAccount of the backend, whose failure the route ignores.
RemovalDone ==
  /\ removal = "sent"
  /\ removal' = "done"
  /\ \/ present' = FALSE /\ UNCHANGED breaks
     \/ breaks < MaxBreaks /\ breaks' = breaks + 1 /\ UNCHANGED present
  /\ UNCHANGED <<account, told, cable, gathered, wire, card, readings, upload, readingsMade,
                 newsMade>>

\* The answer: the list is loaded again.
RemovalAnswered ==
  /\ removal = "done"
  /\ removal' = "no"
  /\ Load
  /\ UNCHANGED <<backend, cable, gathered, wire, card, upload, readingsMade, newsMade, breaks>>

\* An error is shown, whether or not the account was deleted.
RemovalFails ==
  /\ removal # "no"
  /\ breaks < MaxBreaks
  /\ breaks' = breaks + 1
  /\ removal' = "no"
  /\ needs' = readingsMade
  /\ UNCHANGED <<backend, cable, gathered, wire, initial, liveStatus, list, lastSale, seen, newest,
                 given, readings, upload, readingsMade, newsMade>>

\* selectItem and upload of AccountImageButton.
AsksUpload ==
  /\ upload = 0 /\ list \notin {Unloaded, Absent}
  /\ upload' = -1
  /\ UNCHANGED <<backend, cable, gathered, wire, card, readings, removal, readingsMade,
                 newsMade, breaks>>

\* replaceAccountImage for it.
UploadDone ==
  /\ upload = -1 /\ present /\ newsMade < MaxNews
  /\ newsMade' = newsMade + 1
  /\ account' = [account EXCEPT !.image = @ + 1]
  /\ upload' = account.image + 1
  /\ UNCHANGED <<present, told, cable, gathered, wire, card, readings, removal, readingsMade,
                 breaks>>

\* The answer, given after the listeners were told.
UploadAnswered ==
  /\ upload > 0 /\ told.image >= upload
  /\ UpdateImage(upload)
  /\ upload' = 0
  /\ UNCHANGED <<backend, cable, gathered, wire, initial, liveStatus, lastSale, seen, newest, needs,
                 readings, removal, readingsMade, newsMade, breaks>>

\* It fails, or its answer is lost: the dialog shows it.
UploadFails ==
  /\ upload # 0
  /\ breaks < MaxBreaks
  /\ breaks' = breaks + 1
  /\ upload' = 0
  /\ UNCHANGED <<backend, cable, gathered, wire, card, readings, removal, readingsMade,
                 newsMade>>

DashNext ==
  \/ StatusNews \/ SendsStatuses \/ FlushNews
  \/ \E kind \in {"image", "sale"} : RowNews(kind) \/ RowTold(kind)
  \/ \E l \in Lists : ListIsRead(l) \/ ListArrives(l) \/ ListFails(l)
  \/ BatchArrives \/ StatusesArrive \/ SocketCloses \/ SocketConnects
  \/ AsksRemoval \/ RemovalDone \/ RemovalAnswered \/ RemovalFails
  \/ AsksUpload \/ UploadDone \/ UploadAnswered \/ UploadFails

-----------------------------------------------------------------------------
(***************************************************************************)
(* What must hold.                                                         *)
(***************************************************************************)
Rests ==
  /\ cable = "up" /\ initial /\ gathered = {} /\ wire = <<>>
  /\ told = [image |-> account.image, sale |-> account.sale]
  /\ \A l \in Lists : readings[l].at = "free"
  /\ removal = "no" /\ upload = 0

\* The list shown was not overtaken by a later one, and escaped no news.
UpToDate == list # Unloaded /\ seen = newest /\ seen > needs

\* When nothing is under way, the card shows the account as it is, whatever was
\* cut, gathered, reconnected and answered late, and a deleted account is gone;
\* and the sale shown never goes back. Excused are a list that an older answer
\* replaced, which load does not notice; a request that failed, which the page
\* says; news from before the socket was first connected, after which no list
\* is fetched; and an image that an answer read before it replaced.
DashboardTrue ==
  /\ [](Rests /\ UpToDate =>
          IF present
          THEN /\ list # Absent /\ liveStatus = account.status /\ list.sale = account.sale
               /\ list.image = account.image \/ list.image < given
          ELSE list = Absent)
  /\ [][ {list, list'} \intersect {Unloaded, Absent} = {} /\ seen' = newest'
           => list'.sale >= list.sale ]_dashVars
=============================================================================
