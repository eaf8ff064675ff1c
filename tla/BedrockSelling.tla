--------------------------- MODULE BedrockSelling ---------------------------
(***************************************************************************)
(* The sale of the former Bedrock engine: BedrockInventory, which knows    *)
(* the inventory and the open menu from the server's packets and moves     *)
(* stacks into the menu of the sell command, and the tick of BehaviorState *)
(* that drives it between the user's commands (bedrock-bot/inventory.ts,   *)
(* behaviors.ts, packetRecovery.ts).                                       *)
(*                                                                         *)
(* The server is external: it answers a command with a menu or does not,   *)
(* sooner or later, with a title that comes before or after the menu. The  *)
(* inventory is the set of the slots that hold a stack, a menu has room    *)
(* for so many. A unit of time may pass between two ticks or many.         *)
(***************************************************************************)
EXTENDS Integers, Sequences

CONSTANTS
  Slots,          \* of the player's inventory
  MaxRoom,        \* of a menu
  MenuWait,       \* SELL_MENU_TIMEOUT_MS
  TransferWait,   \* 2 s
  ManualGuard,    \* 5 s: of a manual command and of a request
  LongWait,       \* 10 s: a cancelled sale, an open menu, a scan
  SellInterval,   \* autosell_interval_seconds
  Settling,       \* the guards of a few 100 ms after a teleport or command
  MaxTrouble      \* bound: commands, lost packets, teleports, joins, busy messages, settings

ASSUME BedrockSellingAssumption ==
  /\ Slots \subseteq Nat \ {0}
  /\ {MenuWait, TransferWait, ManualGuard, LongWait, SellInterval, Settling} \subseteq Nat \ {0}
  /\ {MaxRoom, MaxTrouble} \subseteq Nat
  /\ MenuWait < ManualGuard /\ TransferWait < ManualGuard /\ ManualGuard < LongWait

Off == -1
Undecided == {0}
NoSlot == 0
NoMenu == [state |-> "none"]
Titles == {"sell", "multi", "other", "station"}  \* station: not a container
Origins == {"sale", "reading", "user", "freed", "mistaken", "stray"}

VARIABLES
  sale,       \* what BedrockInventory knows of menu, request and transfer
  player,     \* what it knows of the inventory: known, has
  needsFull,  \* needsFullPlayerContent
  legacy,     \* the server does not keep the inventory authoritatively
  selling,    \* autosell_enabled
  paused,     \* within the pause around a world restart
  inWorld,    \* spawned, of BehaviorState
  spawning,   \* the spawn event of the process: to come for the first time, again, or none
  unsettled,  \* units until automationReadyAt; Off: before the spawn
  manualRest, \* until manualAutosellPauseUntil
  nextSell,   \* until nextAutosellAt
  queue,      \* manualQueue
  asked,      \* the commands the server has still to answer
  window,     \* ghost: units since the user's last command in which its menu is in time
  lifted,     \* ghost: since then a reading or a join began
  lost,       \* an inventory packet was lost and not made up for
  troubles

sellingVars == <<sale, player, needsFull, legacy, selling, paused, inWorld, spawning, unsettled,
                 manualRest, nextSell, queue, asked, window, lifted, lost, troubles>>
knowledge == <<player, needsFull, legacy, lost>>
behavior == <<selling, paused, inWorld, spawning, unsettled, manualRest, nextSell, queue>>
commands == <<window, lifted>>

Menus == {NoMenu} \union
  [state : {"open"}, of : Origins, title : Titles, seen : BOOLEAN, ready : BOOLEAN,
   room : 0..MaxRoom, owned : BOOLEAN, manual : BOOLEAN, age : 0..LongWait]

BedrockSellingTypeOK ==
  /\ sale \in [menu : Menus, request : Off..(ManualGuard + 1), targets : SUBSET (Slots \union {0}),
               pending : Slots \union {NoSlot}, waited : 0..TransferWait,
               guard : 0..ManualGuard, cancelled : 0..LongWait, scan : Off..LongWait, mine : BOOLEAN]
  /\ player \in [known : BOOLEAN, has : SUBSET Slots]
  /\ {needsFull, legacy, selling, paused, inWorld, lifted, lost} \subseteq BOOLEAN
  /\ spawning \in {"first", "again", "none"}
  /\ unsettled \in Off..Settling /\ manualRest \in 0..ManualGuard
  /\ nextSell \in 0..SellInterval \union 0..Settling
  /\ queue \in Seq({"command", "sell", "multi"}) /\ Len(queue) <= MaxTrouble
  /\ asked \subseteq {"sell", "multi", "manual"} /\ window \in 0..ManualGuard
  /\ troubles \in 0..MaxTrouble
  /\ needsFull => ~player.known

BedrockSellingInit ==
  /\ sale = [menu |-> NoMenu, request |-> Off, targets |-> Undecided, pending |-> NoSlot, waited |-> 0,
             guard |-> 0, cancelled |-> 0, scan |-> Off, mine |-> FALSE]
  /\ player = [known |-> FALSE, has |-> {}]
  /\ needsFull = FALSE /\ legacy \in BOOLEAN
  /\ selling = TRUE /\ paused = FALSE
  /\ inWorld = FALSE /\ spawning = "first" /\ unsettled = Off
  /\ manualRest = 0 /\ nextSell = 0 /\ queue = <<>>
  /\ asked = {} /\ window = 0 /\ lifted = FALSE /\ lost = FALSE /\ troubles = 0

-----------------------------------------------------------------------------
(***************************************************************************)
(* What BedrockInventory does to the sale, as functions of it.             *)
(***************************************************************************)

HasMenu(s) == s.menu # NoMenu
Busy(s) == s.request # Off \/ (HasMenu(s) /\ s.menu.owned)
Blocked(s) == HasMenu(s) /\ ~s.menu.owned
Recent(s) == s.request # Off /\ s.request <= ManualGuard

Idle(s) == [s EXCEPT !.request = Off, !.targets = Undecided, !.pending = NoSlot, !.waited = 0]

\* close: the menu is given up whether or not the packet went out.
Closed(s) == [Idle(s) EXCEPT !.menu = NoMenu, !.mine = FALSE]

\* The menu was opened by the scan and shows by title or content that it is its.
ScanOwns(s) ==
  /\ s.scan # Off /\ s.mine /\ HasMenu(s)
  /\ s.menu.title = "multi" /\ (s.menu.seen \/ s.menu.ready)

\* interrupt: what the automation has open is closed, and the user's menu as
\* well where the interruption is the user's next command.
Interrupted(s, closeForeign, manualSell) ==
  LET left == [s EXCEPT
        !.scan = Off,
        !.guard = IF closeForeign THEN ManualGuard ELSE @,
        !.cancelled = IF ~closeForeign THEN @
                      ELSE IF manualSell THEN 0
                      ELSE IF Busy(s) THEN LongWait ELSE @]
  IN IF HasMenu(s) /\ (s.menu.owned \/ closeForeign \/ ScanOwns(s)) THEN Closed(left) ELSE Idle(left)

Stopped(s) == Interrupted(s, FALSE, FALSE)

\* Faulty: the user's command does not count.
OwnsAnyway(s, title, seen, manual) ==
  title # "station" /\ (Recent(s) \/ (seen /\ title = "sell"))

\* A menu is the automation's if it was asked for a short time ago or bears the
\* title of the sale, and the user has not just given a command.
Owns(s, title, seen, manual) ==
  ~manual /\ title # "station" /\ (Recent(s) \/ (seen /\ title = "sell"))

\* onOpen.
Opened(s, of, title, seen) ==
  LET open == [s EXCEPT
        !.menu = [state |-> "open", of |-> of, title |-> title, seen |-> seen, ready |-> FALSE,
                  room |-> 0, owned |-> Owns(s, title, seen, s.guard > 0),
                  manual |-> s.guard > 0, age |-> 0],
        !.mine = s.scan # Off /\ title # "station",
        !.targets = Undecided, !.pending = NoSlot, !.waited = 0]
  IN IF seen /\ title = "sell" /\ s.cancelled > 0 THEN Closed(open) ELSE open

\* onBlockEntity, for the menu that is open.
Titled(s) ==
  IF s.menu.title = "sell" /\ s.cancelled > 0 THEN Closed(s)
  ELSE [s EXCEPT !.menu.seen = TRUE, !.menu.owned = Owns(s, s.menu.title, TRUE, s.menu.manual)]

Least(set) == CHOOSE i \in set : \A j \in set : i <= j

\* The transfer of a stack into the menu. It may fail at once: the packet cannot
\* be sent, or the stack has no number yet.
Transfers(s, slot) ==
  {Stopped(s),
   [s EXCEPT !.targets = {i \in @ : i > slot}, !.pending = slot, !.waited = 0]}

\* tick: what the sale may become.
Sold(s, p) ==
  IF needsFull \/ ~Busy(s) THEN {s}
  ELSE IF ~HasMenu(s) \/ ~s.menu.owned
  THEN {IF s.request # Off /\ s.request >= MenuWait THEN Stopped(s) ELSE s}
  ELSE IF s.menu.age >= LongWait THEN {Stopped(s)}
  ELSE IF s.pending # NoSlot THEN {IF s.waited >= TransferWait THEN Stopped(s) ELSE s}
  ELSE IF ~s.menu.ready \/ ~p.known THEN {s}
  ELSE LET begun == [s EXCEPT !.targets = IF @ = Undecided THEN p.has ELSE @]
           left == begun.targets \intersect p.has
       IN IF left = {} \/ s.menu.room = 0 THEN {Closed(s)} ELSE Transfers(begun, Least(left))

\* tickMultipliers: the menu is read whole, or given up after its time.
Scanned(s) ==
  LET itsMenu == s.mine /\ HasMenu(s) /\ s.menu.title = "multi"
  IN IF itsMenu /\ s.menu.ready THEN [Closed(s) EXCEPT !.scan = Off]
     ELSE IF s.scan > 0 THEN s
     ELSE IF itsMenu /\ s.menu.seen THEN [Closed(s) EXCEPT !.scan = Off]
     ELSE [s EXCEPT !.scan = Off]

-----------------------------------------------------------------------------
(***************************************************************************)
(* The tick of the behaviours.                                             *)
(***************************************************************************)

Later(a, b) == IF a > b THEN a ELSE b

\* postponeAutomation. Before the spawn there is nothing to put off.
PostponeAutomation ==
  /\ unsettled' = IF unsettled = Off THEN Off ELSE Later(unsettled, Settling)
  /\ nextSell' = Later(nextSell, Settling)

\* runForeground, for a command of the manual queue. One that is the sell command
\* cancels no sale of the automation.
RunManual ==
  /\ inWorld /\ queue # <<>>
  /\ queue' = Tail(queue)
  /\ IF Head(queue) = "multi"
     THEN /\ sale' = [Interrupted(sale, TRUE, FALSE) EXCEPT !.guard = 0, !.scan = LongWait]
          /\ asked' = asked \union {"multi"}
          /\ lifted' = TRUE /\ UNCHANGED <<window, manualRest>>
     ELSE /\ sale' = Interrupted(sale, TRUE, Head(queue) = "sell")
          /\ asked' = asked \union {"manual"}
          /\ manualRest' = ManualGuard
          /\ window' = ManualGuard /\ lifted' = FALSE
  /\ PostponeAutomation
  /\ UNCHANGED <<selling, paused, inWorld, spawning>>

ReadMultipliers ==
  /\ ~(inWorld /\ queue # <<>>) /\ sale.scan # Off
  /\ sale' = Scanned(sale)
  /\ UNCHANGED <<behavior, asked, commands>>

Automates == inWorld /\ unsettled = 0 /\ manualRest = 0

\* The sale goes on, and when nothing is open or asked for the next one is due.
Sell ==
  /\ ~(inWorld /\ queue # <<>>) /\ sale.scan = Off /\ Automates
  /\ IF paused THEN sale' = Stopped(sale) /\ UNCHANGED <<nextSell, asked>>
     ELSE IF ~selling \/ needsFull THEN UNCHANGED <<sale, nextSell, asked>>
     ELSE \E s \in Sold(sale, player) :
            IF Busy(s) \/ Blocked(s) \/ nextSell > 0 THEN sale' = s /\ UNCHANGED <<nextSell, asked>>
            ELSE /\ sale' = [s EXCEPT !.cancelled = 0, !.request = 0, !.targets = Undecided]
                 /\ nextSell' = SellInterval
                 /\ asked' = asked \union {"sell"}
  /\ UNCHANGED <<selling, paused, inWorld, spawning, unsettled, manualRest, queue, commands>>

Waits ==
  /\ ~(inWorld /\ queue # <<>>) /\ sale.scan = Off /\ ~Automates
  /\ UNCHANGED <<sale, behavior, asked, commands>>

OnTick ==
  /\ RunManual \/ ReadMultipliers \/ Sell \/ Waits
  /\ UNCHANGED <<knowledge, troubles>>

Less(n) == IF n > 0 THEN n - 1 ELSE n
More(n, most) == IF n = Off THEN Off ELSE IF n < most THEN n + 1 ELSE n

Aged(menu) == IF menu = NoMenu THEN menu ELSE [menu EXCEPT !.age = More(@, LongWait)]

Elapse ==
  /\ sale' = [sale EXCEPT
       !.request = More(@, ManualGuard + 1),
       !.waited = IF sale.pending = NoSlot THEN 0 ELSE More(@, TransferWait),
       !.guard = Less(@), !.cancelled = Less(@), !.scan = Less(@),
       !.menu = Aged(@)]
  /\ unsettled' = Less(unsettled) /\ manualRest' = Less(manualRest)
  /\ nextSell' = Less(nextSell) /\ window' = Less(window)
  /\ UNCHANGED <<knowledge, selling, paused, inWorld, spawning, queue, asked, lifted, troubles>>

-----------------------------------------------------------------------------
(***************************************************************************)
(* What the user, the supervisor and the server do.                        *)
(***************************************************************************)

Trouble == troubles < MaxTrouble /\ troubles' = troubles + 1

Enqueue(command) ==
  /\ Trouble
  /\ queue' = Append(queue, command)
  /\ UNCHANGED <<sale, knowledge, selling, paused, inWorld, spawning, unsettled, manualRest, nextSell,
                 asked, commands>>

\* updateConfig and pauseAutosell.
Configure ==
  /\ Trouble
  /\ \/ /\ selling' = ~selling /\ UNCHANGED paused
        /\ sale' = IF selling THEN Stopped(sale) ELSE sale
        /\ nextSell' = IF selling THEN nextSell ELSE Later(unsettled, 0)
     \/ paused' = ~paused /\ UNCHANGED <<selling, sale, nextSell>>
  /\ UNCHANGED <<knowledge, inWorld, spawning, unsettled, manualRest, queue, asked, commands>>

\* What the menu that answers a command is, when it opens: the sale's own; the one
\* of a reading under way; the user's, within the time for which a command is
\* guarded, or in it but no longer guarded; or one that nobody waits for any more,
\* which may come while the sale waits for its own.
Origin(command) ==
  CASE command = "sell" -> "sale"
    [] command = "multi" /\ sale.scan # Off -> "reading"
    [] command = "manual" /\ window > 0 -> IF lifted THEN "freed" ELSE "user"
    [] OTHER -> IF sale.request # Off THEN "mistaken" ELSE "stray"

\* The server answers a command, or never does.
Open(command, title, seen) ==
  /\ command \in asked /\ asked' = asked \ {command}
  /\ title \in (IF command = "manual" THEN {"sell", "other", "station"} ELSE {command})
  /\ sale' = Opened(sale, Origin(command), title, seen)
  /\ UNCHANGED <<knowledge, behavior, commands, troubles>>

GiveTitle ==
  /\ HasMenu(sale) /\ sale' = Titled(sale)
  /\ UNCHANGED <<knowledge, behavior, asked, commands, troubles>>

\* onClose.
ServerCloses ==
  /\ HasMenu(sale)
  /\ sale' = [Closed(sale) EXCEPT !.scan = IF sale.mine THEN Off ELSE @]
  /\ UNCHANGED <<knowledge, behavior, asked, commands, troubles>>

\* confirmLegacyTransfer: where the server sends no responses, the slots show
\* that the stack has moved.
Confirmed(s, p, room) ==
  LET moved == legacy /\ s.pending # NoSlot /\ s.pending \notin p.has /\ room < s.menu.room
      settled == IF moved THEN [s EXCEPT !.pending = NoSlot] ELSE s
  IN IF HasMenu(s) THEN [settled EXCEPT !.menu.room = room] ELSE s

\* onContent and onSlot of the player's inventory. A slot counts for nothing
\* while the whole is not known.
GetsContent ==
  /\ \E has \in SUBSET Slots : player' = [known |-> TRUE, has |-> has]
  /\ needsFull' = FALSE /\ lost' = FALSE
  /\ sale' = Confirmed(sale, player', sale.menu.room)
  /\ UNCHANGED <<legacy, behavior, asked, commands, troubles>>

GetsSlot ==
  /\ ~needsFull
  /\ \E slot \in Slots : \E has \in {{}, {slot}} :
       player' = [known |-> TRUE, has |-> (player.has \ {slot}) \union has]
  /\ sale' = Confirmed(sale, player', sale.menu.room)
  /\ UNCHANGED <<needsFull, legacy, lost, behavior, asked, commands, troubles>>

\* Of a menu the whole content must come before its slots count.
GetsMenu ==
  /\ HasMenu(sale)
  /\ \E room \in 0..MaxRoom : sale' = [Confirmed(sale, player, room) EXCEPT !.menu.ready = TRUE]
  /\ UNCHANGED <<knowledge, behavior, asked, commands, troubles>>

\* onResponse to the transfer under way; its source may hold what was picked up
\* meanwhile.
Responds ==
  /\ ~legacy /\ sale.pending # NoSlot
  /\ \/ sale' = [sale EXCEPT !.pending = NoSlot] /\ UNCHANGED player
     \/ /\ player' = [player EXCEPT !.has = @ \ {sale.pending}]
        /\ sale' = [sale EXCEPT !.pending = NoSlot, !.menu.room = Less(@)]
  /\ UNCHANGED <<needsFull, legacy, lost, behavior, asked, commands, troubles>>

\* A packet that cannot be decoded is dropped once the bot has spawned, with it what
\* it said of the inventory (recover, invalidateAfterDecodeFailure).
LosePacket ==
  /\ Trouble /\ spawning # "first"
  /\ needsFull' = TRUE /\ lost' = TRUE /\ player' = [known |-> FALSE, has |-> {}]
  /\ LET stopped == Stopped(sale)
     IN sale' = [stopped EXCEPT
          !.cancelled = LongWait,
          !.menu = IF @ = NoMenu THEN @ ELSE [@ EXCEPT !.ready = FALSE, !.room = 0]]
  /\ UNCHANGED <<legacy, behavior, asked, commands>>

\* onChat: the inventory is being saved or loaded.
InventoryBusy ==
  /\ Trouble
  /\ sale' = Stopped(sale)
  /\ PostponeAutomation
  /\ UNCHANGED <<knowledge, selling, paused, inWorld, spawning, manualRest, queue, asked, commands>>

\* markTeleported: the next sale is due when the bot has settled, before its
\* interval is over as well as after; and the bot counts as spawned.
MarkTeleported ==
  /\ Trouble
  /\ sale' = Stopped(sale)
  /\ inWorld' = TRUE /\ unsettled' = Settling /\ nextSell' = Settling
  /\ UNCHANGED <<knowledge, selling, paused, spawning, manualRest, queue, asked, commands>>

\* markJoining. That the inventory is to come whole stays known.
Join ==
  /\ Trouble
  /\ inWorld' = FALSE /\ unsettled' = Off
  /\ spawning' = IF spawning = "none" THEN "again" ELSE spawning
  /\ sale' = [Closed(sale) EXCEPT !.guard = 0, !.cancelled = 0, !.scan = Off]
  /\ player' = [known |-> FALSE, has |-> {}]
  /\ lifted' = TRUE
  /\ UNCHANGED <<needsFull, legacy, lost, selling, paused, manualRest, nextSell, queue, asked, window>>

\* markSpawned.
SpawnInWorld ==
  /\ spawning # "none"
  /\ spawning' = "none"
  /\ inWorld' = TRUE /\ unsettled' = Settling /\ nextSell' = Settling
  /\ UNCHANGED <<sale, knowledge, selling, paused, manualRest, queue, asked, commands, troubles>>

BedrockSellingNext ==
  \/ OnTick \/ Elapse
  \/ \E command \in {"command", "sell", "multi"} : Enqueue(command)
  \/ Configure
  \/ \E command \in asked, title \in Titles, seen \in BOOLEAN : Open(command, title, seen)
  \/ GiveTitle \/ ServerCloses \/ GetsContent \/ GetsSlot \/ GetsMenu \/ Responds
  \/ LosePacket \/ InventoryBusy \/ MarkTeleported \/ Join \/ SpawnInWorld

\* The ticks go on, and the bot that joined is spawned.
BedrockSellingSpec ==
  /\ BedrockSellingInit /\ [][BedrockSellingNext]_sellingVars
  /\ WF_sellingVars(OnTick) /\ WF_sellingVars(Elapse) /\ WF_sellingVars(SpawnInWorld)

-----------------------------------------------------------------------------
(***************************************************************************)
(* What must hold.                                                         *)
(***************************************************************************)

Rightful(menu) ==
  menu.of \in {"sale", "mistaken"} \/ (menu.of \in {"freed", "stray"} /\ menu.title = "sell")

TransferBegins == sale'.pending # NoSlot /\ sale'.pending # sale.pending

\* What is filled answers the sale's own command, whatever requests, cancelled
\* sales, readings and teleports it crosses: never the menu of a reading under
\* way, never one that answers a command of the user's in the 5 s after it, be it
\* that a reading or a join has ended its guard - then a sell menu may be - and
\* nothing else that is not a sell menu; but for one that nobody waits for any more
\* and that opens while the sale waits for its own, which it is mistaken for. And
\* nothing is moved from an inventory of which a packet was lost, which neither slots
\* nor late answers make good.
FillsOwnMenus == [][TransferBegins => Rightful(sale'.menu) /\ ~lost]_sellingVars

\* A sale comes to its end, and only then does another begin: the timeouts leave
\* neither a request without a menu, nor a menu without content, nor a transfer
\* without an answer - unless the server still owes the inventory, or selling was
\* switched off and nothing drives a menu that opens after it.
SalesEnd ==
  Busy(sale) /\ sale.request # 0 ~> ~Busy(sale) \/ sale.request = 0 \/ lost \/ ~selling

\* A sale takes its own menus, and comes to its end.
SalesGoWell == FillsOwnMenus /\ SalesEnd
=============================================================================
