--------------------------- MODULE BedrockProofs ----------------------------
(***************************************************************************)
(* Proofs about the former Bedrock engine: the join (BedrockClient), the   *)
(* sale (BedrockSelling), the crouching (BedrockCrouch) and the mouse button *)
(* (BedrockMouse), and the theorems about the composition that MCBedrock   *)
(* checks.                                                                 *)
(***************************************************************************)
EXTENDS MCBedrock, SequenceTheorems, WellFoundedInduction, TLAPS

-----------------------------------------------------------------------------
(***************************************************************************)
(* The join (BedrockClient).                                               *)
(***************************************************************************)
LEMMA ClientBounds ==
  /\ StageTimeout \in Nat /\ AuthTimeout \in Nat /\ DiscoveryTimeout \in Nat /\ CodeLife \in Nat
  /\ Supported \subseteq Nat /\ CurrentProtocol \in Supported /\ MaxCodes \in Nat /\ MaxLines \in Nat
<1>1. {StageTimeout, AuthTimeout, DiscoveryTimeout, CodeLife} \subseteq Nat
  BY ClientAssumption
<1> QED BY <1>1, ClientAssumption

Names == {"authentication", "transport", "login", "resources", "world", "spawned"}

LEMMA PhaseHasPlace ==
  ASSUME NEW name \in Names
  PROVE  Place(name) \in DOMAIN Order
<1>1. DOMAIN Order = 1..7
  BY DEF Order
<1>2. \E i \in DOMAIN Order : Order[i] = name
  <2>1. /\ Order[2] = "authentication" /\ Order[3] = "transport" /\ Order[4] = "login"
        /\ Order[5] = "resources" /\ Order[6] = "world" /\ Order[7] = "spawned"
    BY DEF Order
  <2>2. 2 \in 1..7 /\ 3 \in 1..7 /\ 4 \in 1..7 /\ 5 \in 1..7 /\ 6 \in 1..7 /\ 7 \in 1..7
    OBVIOUS
  <2> QED BY <1>1, <2>1, <2>2 DEF Names
<1> QED BY <1>2 DEF Place

Deadlines == 0..(StageTimeout + AuthTimeout + CodeLife)

LEMMA AdvanceKeepsTypes ==
  ASSUME NEW name \in Names, Advance(name), phase \in DOMAIN Order, deadline \in Deadlines
  PROVE  phase' \in DOMAIN Order /\ deadline' \in Deadlines
<1>1. CASE Place(name) > phase
  <2>1. StageTimeout \in Deadlines /\ AuthTimeout \in Deadlines
    BY ClientBounds DEF Deadlines
  <2>2. phase' = Place(name) /\ deadline' = TimeFor(Place(name))
    BY <1>1 DEF Advance
  <2> QED BY <2>1, <2>2, PhaseHasPlace DEF TimeFor
<1>2. CASE ~(Place(name) > phase)
  BY <1>2 DEF Advance
<1> QED BY <1>1, <1>2

\* The process ends only having said why, or obeying.
EndIsExplained == exiting => told # {} \/ obeyed

\* With the types: a watchdog has a client to watch, and the commands that wait
\* were read.
ClientConsistent ==
  /\ ClientTypeOK
  /\ EndIsExplained
  /\ watchdog => main = "running"
  /\ Len(early) <= lines

LEMMA ClientStarts == ASSUME ClientInit PROVE ClientConsistent
<1>1. 1 \in DOMAIN Order
  BY DEF Order
<1>2. StageTimeout \in Deadlines /\ 0 \in 0..DiscoveryTimeout /\ 0 \in 0..MaxCodes /\ 0 \in 0..MaxLines
  BY ClientBounds DEF Deadlines
<1>3. early = <<>> /\ Len(early) = 0 /\ early \in Seq({"task", "disconnect"})
  BY DEF ClientInit
<1>4. Len(early) <= MaxLines /\ Len(early) <= lines
  BY <1>3, ClientBounds DEF ClientInit
<1> QED BY <1>1, <1>2, <1>3, <1>4 DEF ClientInit, ClientConsistent, ClientTypeOK, EndIsExplained, Deadlines, Unset

\* What the events of the library, the watchdog and the exit leave alone, and
\* what they do to the report.
LEMMA EndingsExplained ==
  ASSUME ClientConsistent, UNCHANGED <<start, orders>>,
         {watchdog', spawned', exiting', exited'} \subseteq BOOLEAN,
         phase' \in DOMAIN Order, deadline' \in Deadlines,
         library' \in {"signing in", "connecting", "open", "closed"}, library # "none",
         watchdog' => watchdog,
         told' \subseteq {"fatal_error", "connection_failed", "disconnect"},
         exiting' => told' # {} \/ obeyed
  PROVE  ClientConsistent'
<1>1. UNCHANGED <<main, requested, offered, early, query, stopAsked, obeyed, codes, lines>>
  BY DEF start, orders
<1> QED BY <1>1 DEF ClientConsistent, ClientTypeOK, EndIsExplained, Deadlines

LEMMA LibraryStep ==
  ASSUME ClientConsistent,
         SessionReady \/ LoggingIn \/ (\E name \in {"resources", "world"} : Joining(name)) \/ Spawn
           \/ Gone \/ Failed \/ WatchdogFires
  PROVE  ClientConsistent'
<1> USE DEF ClientConsistent
<1>1. phase \in DOMAIN Order /\ deadline \in Deadlines
  BY DEF ClientTypeOK, Deadlines
<1>2. UNCHANGED <<start, orders>>
  BY DEF SessionReady, LoggingIn, Joining, Spawn, Gone, Failed, WatchdogFires
<1>3. CASE SessionReady
  <2>1. library = "signing in" /\ library' = "connecting" /\ UNCHANGED <<watchdog, spawned, exiting, exited, told>>
    BY <1>3 DEF SessionReady, ending
  <2>2. phase' \in DOMAIN Order /\ deadline' \in Deadlines
    BY <1>1, <1>3, AdvanceKeepsTypes DEF SessionReady, Names
  <2> QED BY <1>2, <2>1, <2>2, EndingsExplained DEF ClientTypeOK, EndIsExplained
<1>4. CASE LoggingIn
  <2>1. library = "connecting" /\ library' = "open" /\ UNCHANGED <<watchdog, spawned, exiting, exited, told>>
    BY <1>4 DEF LoggingIn, ending
  <2>2. phase' \in DOMAIN Order /\ deadline' \in Deadlines
    BY <1>1, <1>4, AdvanceKeepsTypes DEF LoggingIn, Names
  <2> QED BY <1>2, <2>1, <2>2, EndingsExplained DEF ClientTypeOK, EndIsExplained
<1>5. CASE \E name \in {"resources", "world"} : Joining(name)
  <2>1. library = "open" /\ UNCHANGED <<library, watchdog, spawned, exiting, exited, told>>
    BY <1>5 DEF Joining, ending
  <2>2. phase' \in DOMAIN Order /\ deadline' \in Deadlines
    BY <1>1, <1>5, AdvanceKeepsTypes DEF Joining, Names
  <2> QED BY <1>2, <2>1, <2>2, EndingsExplained DEF ClientTypeOK, EndIsExplained
<1>6. CASE Spawn
  <2>1. /\ library = "open" /\ UNCHANGED <<library, exiting, exited, told>>
        /\ watchdog' = FALSE /\ spawned' = TRUE
    BY <1>6 DEF Spawn, ending
  <2>2. phase' \in DOMAIN Order /\ deadline' \in Deadlines
    BY <1>1, <1>6, AdvanceKeepsTypes DEF Spawn, Names
  <2> QED BY <1>2, <2>1, <2>2, EndingsExplained DEF ClientTypeOK, EndIsExplained
<1>7. CASE Gone
  <2>1. /\ library # "none" /\ library' = "closed" /\ UNCHANGED <<phase, deadline, spawned, exited>>
        /\ \/ exiting /\ UNCHANGED <<watchdog, exiting, told>>
           \/ told' = told \union {"disconnect"} /\ exiting' = TRUE /\ watchdog' = FALSE
    BY <1>7 DEF Gone, ShutsDown, EndsTelling, ending
  <2>2. exiting' => told' # {} \/ obeyed
    BY <2>1 DEF EndIsExplained
  <2>3. told' \subseteq {"fatal_error", "connection_failed", "disconnect"}
    BY <2>1 DEF ClientTypeOK
  <2>4. {watchdog', spawned', exiting', exited'} \subseteq BOOLEAN /\ (watchdog' => watchdog)
    <3>1. {watchdog, spawned, exiting, exited} \subseteq BOOLEAN
      BY DEF ClientTypeOK
    <3>2. CASE exiting /\ UNCHANGED <<watchdog, exiting, told>>
      BY <2>1, <3>1, <3>2
    <3>3. CASE exiting' = TRUE /\ watchdog' = FALSE
      BY <2>1, <3>1, <3>3
    <3> QED BY <2>1, <3>2, <3>3
  <2> QED BY <1>1, <1>2, <2>1, <2>2, <2>3, <2>4, EndingsExplained
<1>8. CASE Failed \/ WatchdogFires
  <2>1. library # "none"
    BY <1>8 DEF Failed, WatchdogFires, ClientTypeOK
  <2>2. /\ library' = "closed" /\ UNCHANGED <<phase, deadline, spawned, exited>>
        /\ told' = told \union {"connection_failed"} /\ exiting' = TRUE /\ watchdog' = FALSE
    BY <1>8 DEF Failed, WatchdogFires, ShutsDown, EndsTelling
  <2>3. told' # {} /\ told' \subseteq {"fatal_error", "connection_failed", "disconnect"}
    BY <2>2 DEF ClientTypeOK
  <2>4. {watchdog', spawned', exiting', exited'} \subseteq BOOLEAN
    BY <2>2 DEF ClientTypeOK
  <2> QED BY <1>1, <1>2, <2>1, <2>2, <2>3, <2>4, EndingsExplained
<1> QED BY <1>3, <1>4, <1>5, <1>6, <1>7, <1>8

\* The ends that come from outside of the library.
LEMMA ProcessEndStep ==
  ASSUME ClientConsistent, Exit \/ Uncaught \/ NoConfig \/ Undiscovered
  PROVE  ClientConsistent'
<1> USE DEF ClientConsistent
<1>1. UNCHANGED <<requested, offered, early, phase, deadline, library, watchdog, spawned, stopAsked, obeyed, codes, lines>>
  BY DEF Exit, Uncaught, NoConfig, Undiscovered, start, orders
<1>2. /\ \/ UNCHANGED <<main, query>>
         \/ main \in {"config", "discovering"} /\ main' = "given up" /\ query' \in {0, query}
  BY DEF Exit, Uncaught, NoConfig, Undiscovered, start
<1>3. query' \in 0..DiscoveryTimeout
  <2>1. query \in 0..DiscoveryTimeout /\ DiscoveryTimeout \in Nat
    BY ClientBounds DEF ClientTypeOK
  <2>2. query' = query \/ query' = 0
    BY <1>2
  <2> QED BY <2>1, <2>2
<1>4. \/ exiting /\ exiting' = exiting /\ told' = told /\ exited' = TRUE
      \/ told' = told \union {"fatal_error"} /\ exiting' = TRUE /\ exited' = exited
  BY DEF Exit, Uncaught, NoConfig, Undiscovered, EndsTelling
<1>5. {exiting', exited'} \subseteq BOOLEAN /\ told' \subseteq {"fatal_error", "connection_failed", "disconnect"}
  BY <1>4 DEF ClientTypeOK
<1>6. EndIsExplained'
  BY <1>1, <1>4 DEF EndIsExplained
<1>7. ClientTypeOK'
  BY <1>1, <1>2, <1>3, <1>5 DEF ClientTypeOK
<1> QED BY <1>1, <1>2, <1>6, <1>7 DEF ClientTypeOK

\* An order to disconnect ends the process whether or not the closing is told.
LEMMA DisconnectedExplained ==
  ASSUME ClientTypeOK, Disconnected
  PROVE  /\ obeyed' = TRUE /\ library' = "closed" /\ watchdog' = FALSE /\ exiting' = TRUE /\ exited' = exited
         /\ told' \subseteq {"fatal_error", "connection_failed", "disconnect"}
BY DEF Disconnected, ClientTypeOK

LEMMA DiscoveredStep ==
  ASSUME ClientConsistent, Discovered
  PROVE  ClientConsistent'
<1> USE DEF ClientConsistent
<1>1. /\ main' = "running" /\ early' = <<>> /\ query' = 0
      /\ UNCHANGED <<requested, spawned, stopAsked, codes, lines>>
  BY DEF Discovered
<1>2. offered' \in Supported \union {Unset}
  <2>1. PICK advertised \in Advertised : offered' \in Selectable(advertised)
    BY DEF Discovered
  <2> QED BY <2>1, ClientBounds DEF Selectable, ClientTypeOK
<1>3. phase \in DOMAIN Order /\ deadline \in Deadlines
  BY DEF ClientTypeOK, Deadlines
<1>4. phase' \in DOMAIN Order /\ deadline' \in Deadlines
  BY <1>3, AdvanceKeepsTypes DEF Discovered, Names
<1>5. /\ library' \in {"signing in", "connecting", "closed"} /\ {watchdog', exiting', exited', obeyed'} \subseteq BOOLEAN
      /\ told' \subseteq {"fatal_error", "connection_failed", "disconnect"} /\ EndIsExplained'
  <2>1. CASE Disconnected
    BY <2>1, DisconnectedExplained DEF ClientTypeOK, EndIsExplained
  <2>2. CASE library' \in {"signing in", "connecting"} /\ watchdog' = TRUE /\ UNCHANGED <<ending, obeyed>>
    BY <2>2 DEF ending, ClientTypeOK, EndIsExplained
  <2> QED BY <2>1, <2>2 DEF Discovered
<1>6. /\ early' \in Seq({"task", "disconnect"}) /\ Len(early') = 0 /\ 0 \in 0..DiscoveryTimeout
      /\ lines \in 0..MaxLines /\ MaxLines \in Nat
  <2>1. early' \in Seq({"task", "disconnect"}) /\ Len(early') = 0
    BY <1>1
  <2>2. DiscoveryTimeout \in Nat /\ MaxLines \in Nat
    BY ClientBounds
  <2>3. lines \in 0..MaxLines
    BY DEF ClientTypeOK
  <2> QED BY <2>1, <2>2, <2>3
<1>7. Len(early') <= MaxLines /\ Len(early') <= lines'
  BY <1>1, <1>6
<1>8. ClientTypeOK'
  BY <1>1, <1>2, <1>4, <1>5, <1>6, <1>7 DEF ClientTypeOK, Deadlines
<1> QED BY <1>1, <1>5, <1>7, <1>8

LEMMA ReadLineStep ==
  ASSUME ClientConsistent, NEW command \in {"task", "disconnect"}, ReadLine(command)
  PROVE  ClientConsistent'
<1> USE DEF ClientConsistent
<1>1. /\ lines < MaxLines /\ lines' = lines + 1 /\ stopAsked' \in BOOLEAN
      /\ UNCHANGED <<main, requested, offered, phase, deadline, query, spawned, codes>>
  BY DEF ReadLine, ClientTypeOK
<1>2. /\ lines \in Nat /\ MaxLines \in Nat /\ early \in Seq({"task", "disconnect"})
      /\ Len(early) \in Nat /\ Len(early) <= lines
  <2>1. MaxLines \in Nat
    BY ClientBounds
  <2>2. lines \in 0..MaxLines /\ early \in Seq({"task", "disconnect"})
    BY DEF ClientTypeOK
  <2>3. Len(early) \in Nat
    BY <2>2
  <2> QED BY <2>1, <2>2, <2>3
<1>3. lines' \in 0..MaxLines
  BY <1>1, <1>2
<1>4. CASE main # "running"
  <2>1. early' = Append(early, command) /\ UNCHANGED <<library, watchdog, exiting, exited, told, obeyed>>
    BY <1>4 DEF ReadLine, ending
  <2>2. early' \in Seq({"task", "disconnect"}) /\ Len(early') = Len(early) + 1
    BY <1>2, <2>1
  <2>3. Len(early') <= lines' /\ Len(early') <= MaxLines
    BY <1>1, <1>2, <2>2
  <2>4. ClientTypeOK'
    BY <1>1, <1>3, <2>1, <2>2, <2>3 DEF ClientTypeOK
  <2> QED BY <1>1, <2>1, <2>3, <2>4 DEF EndIsExplained
<1>5. CASE main = "running"
  <2>1. early' = early
    BY <1>5 DEF ReadLine
  <2>2. Len(early') <= lines' /\ Len(early') <= MaxLines
    BY <1>1, <1>2, <2>1
  <2>3. /\ library' \in {"signing in", "connecting", "open", "closed"}
        /\ {watchdog', exiting', exited', obeyed'} \subseteq BOOLEAN
        /\ told' \subseteq {"fatal_error", "connection_failed", "disconnect"} /\ EndIsExplained'
    <3>1. CASE Disconnected
      BY <3>1, DisconnectedExplained DEF ClientTypeOK, EndIsExplained
    <3>2. CASE UNCHANGED <<library, watchdog, ending, obeyed>>
      BY <1>5, <3>2 DEF ending, ClientTypeOK, EndIsExplained
    <3> QED BY <1>5, <3>1, <3>2 DEF ReadLine
  <2>4. ClientTypeOK'
    BY <1>1, <1>3, <1>5, <2>1, <2>2, <2>3 DEF ClientTypeOK
  <2> QED BY <1>1, <1>5, <2>2, <2>3, <2>4
<1> QED BY <1>4, <1>5

\* Reading the configuration, another code, and the seconds.
LEMMA ClientClockStep ==
  ASSUME ClientConsistent, ReadConfig \/ DeviceCode \/ ClientTick
  PROVE  ClientConsistent'
<1> USE DEF ClientConsistent
<1>1. UNCHANGED <<requested, offered, early, phase, library, watchdog, spawned, exiting, exited, told,
                  stopAsked, obeyed, lines>>
  BY DEF ReadConfig, DeviceCode, ClientTick, start, ending, orders
<1>2. main' = main \/ (main = "config" /\ main' = "discovering")
  BY DEF ReadConfig, DeviceCode, ClientTick, start
<1>3. /\ DiscoveryTimeout \in Nat /\ query \in 0..DiscoveryTimeout /\ CodeLife \in Nat /\ MaxCodes \in Nat
      /\ StageTimeout \in Nat /\ AuthTimeout \in Nat
      /\ deadline \in 0..(StageTimeout + AuthTimeout + CodeLife) /\ codes \in 0..MaxCodes
  BY ClientBounds DEF ClientTypeOK
<1>4. query' \in 0..DiscoveryTimeout
  <2>1. query' = DiscoveryTimeout \/ query' = query \/ query' = IF query > 0 THEN query - 1 ELSE 0
    BY DEF ReadConfig, DeviceCode, ClientTick, start
  <2> QED BY <1>3, <2>1
<1>5. deadline' \in 0..(StageTimeout + AuthTimeout + CodeLife)
  <2>1. deadline' = CodeLife \/ deadline' = deadline \/ deadline' = IF deadline > 0 THEN deadline - 1 ELSE 0
    BY DEF ReadConfig, DeviceCode, ClientTick
  <2> QED BY <1>3, <2>1
<1>6. codes' \in 0..MaxCodes
  <2>1. codes' = codes \/ (codes < MaxCodes /\ codes' = codes + 1)
    BY DEF ReadConfig, DeviceCode, ClientTick, orders
  <2> QED BY <1>3, <2>1
<1>7. ClientTypeOK'
  BY <1>1, <1>2, <1>4, <1>5, <1>6 DEF ClientTypeOK
<1> QED BY <1>1, <1>2, <1>7 DEF EndIsExplained

LEMMA ClientStep ==
  ASSUME ClientConsistent, [ClientNext]_clientVars
  PROVE  ClientConsistent'
<1>1. CASE ClientNext
  BY <1>1, LibraryStep, ProcessEndStep, DiscoveredStep, ReadLineStep, ClientClockStep DEF ClientNext
<1>2. CASE UNCHANGED clientVars
  BY <1>2 DEF clientVars, ClientConsistent, ClientTypeOK, EndIsExplained
<1> QED BY <1>1, <1>2

-----------------------------------------------------------------------------
(***************************************************************************)
(* The sale (BedrockSelling).                                              *)
(***************************************************************************)
LEMMA SellingBounds ==
  /\ Slots \subseteq Nat /\ NoSlot \notin Slots /\ MaxRoom \in Nat /\ MaxTrouble \in Nat
  /\ MenuWait \in Nat /\ TransferWait \in Nat /\ ManualGuard \in Nat /\ LongWait \in Nat
  /\ SellInterval \in Nat /\ Settling \in Nat
<1>1. {MenuWait, TransferWait, ManualGuard, LongWait, SellInterval, Settling} \subseteq Nat
  BY BedrockSellingAssumption
<1>2. Slots \subseteq Nat \ {0} /\ {MaxRoom, MaxTrouble} \subseteq Nat
  BY BedrockSellingAssumption
<1> QED BY <1>1, <1>2 DEF NoSlot

\* A set of slots has a least one.
LEMMA LeastIsOne ==
  ASSUME NEW S \in SUBSET Nat, S # {}
  PROVE  Least(S) \in S
<1>1. PICK x \in S : \A y \in S : ~(<<y, x>> \in OpToRel(<, Nat))
  BY NatLessThanWellFounded, WFMin
<1>2. \A y \in S : ~(y < x)
  <2> SUFFICES ASSUME NEW y \in S, y < x PROVE FALSE
    OBVIOUS
  <2>1. <<y, x>> \in Nat \X Nat /\ <<y, x>>[1] < <<y, x>>[2]
    OBVIOUS
  <2>2. <<y, x>> \in OpToRel(<, Nat)
    BY <2>1 DEF OpToRel
  <2> QED BY <1>1, <2>2
<1>3. \A y \in S : x <= y
  BY <1>2
<1> QED BY <1>3 DEF Least

OpenMenus == [state : {"open"}, of : Origins, title : Titles, seen : BOOLEAN, ready : BOOLEAN,
              room : 0..MaxRoom, owned : BOOLEAN, manual : BOOLEAN, age : 0..LongWait]

Sales == [menu : Menus, request : Off..(ManualGuard + 1), targets : SUBSET (Slots \union {0}),
          pending : Slots \union {NoSlot}, waited : 0..TransferWait,
          guard : 0..ManualGuard, cancelled : 0..LongWait, scan : Off..LongWait, mine : BOOLEAN]

LEMMA OpenIsNoNoMenu ==
  /\ Menus = {NoMenu} \union OpenMenus
  /\ NoMenu \notin OpenMenus
  /\ \A m \in Menus : m # NoMenu <=> m \in OpenMenus
<1>1. \A m \in OpenMenus : m.state = "open"
  BY DEF OpenMenus
<1>2. NoMenu.state = "none"
  BY DEF NoMenu
<1> QED BY <1>1, <1>2 DEF Menus, OpenMenus

\* A menu that answers a command of the user's in time is marked by it, and what is
\* so marked is not the automation's.
Proper(m) ==
  /\ m.of = "user" => m.manual
  /\ m.of = "reading" => m.title # "sell"
  /\ m.owned => ~m.manual /\ Rightful(m)

\* Nothing is being transferred without a menu, and nothing is asked for while a
\* reading goes on or another menu is open.
SaleOK(s) ==
  /\ s \in Sales
  /\ HasMenu(s) => Proper(s.menu)
  /\ s.pending # NoSlot => HasMenu(s)
  /\ s.request # Off => s.scan = Off
  /\ s.request # Off /\ HasMenu(s) => s.menu.of \in {"sale", "mistaken"}

LEMMA ZerosOfSale ==
  /\ Off \in Off..(ManualGuard + 1) /\ 0 \in Off..(ManualGuard + 1) /\ Undecided \subseteq Slots \union {0}
  /\ NoSlot \in Slots \union {NoSlot} /\ 0 \in 0..TransferWait
  /\ 0 \in 0..ManualGuard /\ ManualGuard \in 0..ManualGuard /\ 0 \in 0..LongWait /\ LongWait \in 0..LongWait
  /\ Off \in Off..LongWait /\ LongWait \in Off..LongWait /\ 0 \in 0..MaxRoom /\ NoMenu \in Menus
BY SellingBounds DEF Off, Undecided, NoSlot, Menus

LEMMA IdleIsOK ==
  ASSUME NEW s, SaleOK(s)
  PROVE  /\ SaleOK(Idle(s)) /\ Idle(s).pending = NoSlot /\ Idle(s).guard = s.guard
         /\ Idle(s).menu = s.menu /\ Idle(s).request = Off /\ Idle(s).scan = s.scan
BY ZerosOfSale DEF SaleOK, Idle, Sales, HasMenu

LEMMA ClosedIsOK ==
  ASSUME NEW s, SaleOK(s)
  PROVE  /\ SaleOK(Closed(s)) /\ Closed(s).pending = NoSlot /\ Closed(s).guard = s.guard
         /\ Closed(s).request = Off /\ Closed(s).menu = NoMenu /\ Closed(s).scan = s.scan
<1>1. PICK i : i = Idle(s)
  OBVIOUS
<1>2. SaleOK(i) /\ i.pending = NoSlot /\ i.guard = s.guard /\ i.request = Off /\ i.scan = s.scan
  BY <1>1, IdleIsOK
<1>3. Closed(s) = [i EXCEPT !.menu = NoMenu, !.mine = FALSE]
  BY <1>1 DEF Closed
<1> QED BY <1>2, <1>3, ZerosOfSale DEF SaleOK, Sales, HasMenu

LEMMA InterruptedIsOK ==
  ASSUME NEW s, SaleOK(s), NEW closeForeign \in BOOLEAN, NEW manualSell \in BOOLEAN
  PROVE  /\ SaleOK(Interrupted(s, closeForeign, manualSell))
         /\ Interrupted(s, closeForeign, manualSell).pending = NoSlot
         /\ Interrupted(s, closeForeign, manualSell).guard = IF closeForeign THEN ManualGuard ELSE s.guard
         /\ Interrupted(s, closeForeign, manualSell).request = Off
         /\ Interrupted(s, closeForeign, manualSell).scan = Off
<1>1. PICK left : left = [s EXCEPT
        !.scan = Off,
        !.guard = IF closeForeign THEN ManualGuard ELSE @,
        !.cancelled = IF ~closeForeign THEN @
                      ELSE IF manualSell THEN 0
                      ELSE IF Busy(s) THEN LongWait ELSE @]
  OBVIOUS
<1>2. PICK g, c : g = (IF closeForeign THEN ManualGuard ELSE s.guard)
                  /\ c = (IF ~closeForeign THEN s.cancelled ELSE IF manualSell THEN 0
                          ELSE IF Busy(s) THEN LongWait ELSE s.cancelled)
  OBVIOUS
<1>3. g \in 0..ManualGuard /\ c \in 0..LongWait
  BY <1>2, ZerosOfSale DEF SaleOK, Sales
<1>4. left = [s EXCEPT !.scan = Off, !.guard = g, !.cancelled = c]
  BY <1>1, <1>2 DEF SaleOK, Sales
<1>5. SaleOK(left) /\ left.guard = g /\ left.scan = Off
  BY <1>3, <1>4, ZerosOfSale DEF SaleOK, Sales, HasMenu
<1>6. Interrupted(s, closeForeign, manualSell) \in {Closed(left), Idle(left)}
  BY <1>1 DEF Interrupted
<1> QED BY <1>2, <1>5, <1>6, IdleIsOK, ClosedIsOK

LEMMA StoppedIsOK ==
  ASSUME NEW s, SaleOK(s)
  PROVE  /\ SaleOK(Stopped(s)) /\ Stopped(s).pending = NoSlot /\ Stopped(s).guard = s.guard
         /\ Stopped(s).request = Off /\ Stopped(s).scan = Off
BY InterruptedIsOK DEF Stopped

LEMMA OwnsIsBoolean ==
  ASSUME NEW s, NEW title, NEW seen \in BOOLEAN, NEW manual \in BOOLEAN
  PROVE  /\ Owns(s, title, seen, manual) \in BOOLEAN
         /\ Owns(s, title, seen, manual) => ~manual /\ (s.request # Off \/ title = "sell")
BY DEF Owns, Recent

LEMMA OpenedIsOK ==
  ASSUME NEW s, SaleOK(s), NEW of \in Origins, NEW title \in Titles, NEW seen \in BOOLEAN,
         of = "user" => s.guard > 0, of = "reading" => title # "sell",
         of \in {"sale", "mistaken"} \/ s.request = Off
  PROVE  /\ SaleOK(Opened(s, of, title, seen)) /\ Opened(s, of, title, seen).pending = NoSlot
         /\ Opened(s, of, title, seen).guard = s.guard
         /\ Opened(s, of, title, seen).request \in {Off, s.request}
<1>1. PICK manual \in BOOLEAN : manual = (s.guard > 0)
  <2>1. s.guard \in Int /\ 0 \in Int
    BY SellingBounds DEF SaleOK, Sales
  <2>2. (s.guard > 0) \in BOOLEAN
    BY <2>1
  <2> QED BY <2>2
<1>2. PICK o : o = Owns(s, title, seen, s.guard > 0)
  OBVIOUS
<1>3. o \in BOOLEAN /\ (o => ~manual /\ (s.request # Off \/ title = "sell"))
  BY <1>1, <1>2, OwnsIsBoolean
<1>4. PICK m : m = [state |-> "open", of |-> of, title |-> title, seen |-> seen, ready |-> FALSE,
                    room |-> 0, owned |-> o, manual |-> manual, age |-> 0]
  OBVIOUS
<1>5. PICK w \in BOOLEAN : w = (s.scan # Off /\ title # "station")
  OBVIOUS
<1>6. PICK open : open = [s EXCEPT !.menu = m, !.mine = w,
                             !.targets = Undecided, !.pending = NoSlot, !.waited = 0]
  OBVIOUS
<1>7. Opened(s, of, title, seen) \in {open, Closed(open)}
  BY <1>1, <1>2, <1>4, <1>5, <1>6 DEF Opened
<1>8. m \in Menus /\ Proper(m)
  <2>1. m \in OpenMenus
    BY <1>3, <1>4, ZerosOfSale DEF OpenMenus
  <2>2. m.of = of /\ m.manual = manual /\ m.owned = o /\ m.title = title
    BY <1>4
  <2>3. o => ~manual /\ Rightful(m)
    BY <1>1, <1>3, <2>2 DEF Rightful, Origins
  <2> QED BY <1>1, <2>1, <2>2, <2>3, OpenIsNoNoMenu DEF Proper
<1>9. SaleOK(open) /\ open.pending = NoSlot /\ open.guard = s.guard /\ open.request = s.request
  <2>1. m.of = of
    BY <1>4
  <2> QED BY <1>6, <1>8, <2>1, ZerosOfSale DEF SaleOK, Sales, HasMenu
<1> QED BY <1>7, <1>9, ClosedIsOK

LEMMA TitledIsOK ==
  ASSUME NEW s, SaleOK(s), HasMenu(s)
  PROVE  /\ SaleOK(Titled(s)) /\ Titled(s).pending \in {NoSlot, s.pending} /\ Titled(s).guard = s.guard
         /\ Titled(s).request \in {Off, s.request}
<1>1. CASE s.menu.title = "sell" /\ s.cancelled > 0
  BY <1>1, ClosedIsOK DEF Titled
<1>2. CASE ~(s.menu.title = "sell" /\ s.cancelled > 0)
  <2>1. s.menu \in OpenMenus /\ Proper(s.menu)
    BY OpenIsNoNoMenu DEF SaleOK, Sales, HasMenu
  <2>2. PICK o : o = Owns(s, s.menu.title, TRUE, s.menu.manual)
    OBVIOUS
  <2>3. o \in BOOLEAN /\ (o => ~s.menu.manual /\ (s.request # Off \/ s.menu.title = "sell"))
    <3>1. s.menu.manual \in BOOLEAN
      BY <2>1 DEF OpenMenus
    <3> QED BY <2>2, <3>1, OwnsIsBoolean
  <2>4. PICK m : m = [s.menu EXCEPT !.seen = TRUE, !.owned = o]
    OBVIOUS
  <2>5. m \in OpenMenus /\ Proper(m) /\ m.of = s.menu.of
    <3>1. /\ m \in OpenMenus /\ m.of = s.menu.of /\ m.title = s.menu.title /\ m.manual = s.menu.manual
          /\ m.owned = o
      BY <2>1, <2>3, <2>4 DEF OpenMenus
    <3>2. s.menu.of \in Origins /\ (s.request # Off => s.menu.of \in {"sale", "mistaken"})
      BY <2>1 DEF OpenMenus, SaleOK
    <3>3. o => Rightful(m)
      BY <2>1, <2>3, <3>1, <3>2 DEF Rightful, Origins, Proper
    <3> QED BY <2>1, <2>3, <3>1, <3>3 DEF Proper
  <2>6. Titled(s) = [s EXCEPT !.menu = m]
    BY <1>2, <2>2, <2>4 DEF Titled, SaleOK, Sales
  <2> QED BY <2>5, <2>6, OpenIsNoNoMenu DEF SaleOK, Sales, HasMenu
<1> QED BY <1>1, <1>2

\* A transfer is begun only in an own menu, and not while the inventory is to
\* come whole.
LEMMA SoldIsOK ==
  ASSUME NEW s, SaleOK(s), NEW p \in [known : BOOLEAN, has : SUBSET Slots], NEW t \in Sold(s, p)
  PROVE  /\ SaleOK(t) /\ t.guard = s.guard /\ t.request \in {Off, s.request} /\ t.scan \in {Off, s.scan}
         /\ t.pending # NoSlot /\ t.pending # s.pending => ~needsFull /\ Rightful(t.menu)
<1>1. CASE t \in {s, Stopped(s), Closed(s)}
  BY <1>1, StoppedIsOK, ClosedIsOK
<1>2. CASE t \notin {s, Stopped(s), Closed(s)}
  <2> DEFINE begun == [s EXCEPT !.targets = IF @ = Undecided THEN p.has ELSE @]
             left == begun.targets \intersect p.has
  <2>1. /\ ~needsFull /\ HasMenu(s) /\ s.menu.owned /\ left # {}
        /\ t \in Transfers(begun, Least(left))
    BY <1>2 DEF Sold
  <2>2. /\ SaleOK(begun) /\ begun.menu = s.menu /\ begun.guard = s.guard /\ begun.request = s.request
        /\ begun.scan = s.scan /\ p.has \subseteq Slots
    BY DEF SaleOK, Sales, HasMenu
  <2>3. left \subseteq Nat /\ left \subseteq Slots
    BY <2>2, SellingBounds
  <2>4. Least(left) \in Slots
    <3> HIDE DEF left
    <3> QED BY <2>1, <2>3, LeastIsOne
  <2>5. CASE t = Stopped(begun)
    <3> HIDE DEF begun
    <3> QED BY <2>2, <2>5, StoppedIsOK
  <2>6. CASE t # Stopped(begun)
    <3>1. PICK b, slot, rest : b = begun /\ slot = Least(left) /\ rest = {i \in begun.targets : i > slot}
      OBVIOUS
    <3>2. t = [b EXCEPT !.targets = rest, !.pending = slot, !.waited = 0]
      <4> HIDE DEF begun, left
      <4> QED BY <2>1, <2>2, <2>6, <3>1 DEF Transfers, SaleOK, Sales
    <3>3. /\ SaleOK(b) /\ b.menu = s.menu /\ b.guard = s.guard /\ b.request = s.request
          /\ b.scan = s.scan /\ slot \in Slots /\ rest \subseteq b.targets
      BY <2>2, <2>4, <3>1
    <3>4. SaleOK(t) /\ t.menu = s.menu /\ t.guard = s.guard /\ t.request = s.request /\ t.scan = s.scan
      BY <2>1, <3>2, <3>3, ZerosOfSale DEF SaleOK, Sales, HasMenu
    <3>5. s.menu \in OpenMenus /\ Proper(s.menu)
      BY <2>1, OpenIsNoNoMenu DEF SaleOK, Sales, HasMenu
    <3> QED BY <2>1, <3>4, <3>5 DEF Proper, OpenMenus
  <2> QED BY <2>5, <2>6
<1> QED BY <1>1, <1>2

LEMMA ScannedIsOK ==
  ASSUME NEW s, SaleOK(s)
  PROVE  /\ SaleOK(Scanned(s)) /\ Scanned(s).pending \in {NoSlot, s.pending} /\ Scanned(s).guard = s.guard
         /\ Scanned(s).request \in {Off, s.request}
<1>1. PICK c : c = Closed(s)
  OBVIOUS
<1>2. SaleOK(c) /\ c.pending = NoSlot /\ c.guard = s.guard /\ c.request = Off
  BY <1>1, ClosedIsOK
<1>3. Scanned(s) \in {[c EXCEPT !.scan = Off], s, [s EXCEPT !.scan = Off]}
  BY <1>1 DEF Scanned
<1> QED BY <1>2, <1>3, ZerosOfSale DEF SaleOK, Sales, HasMenu

LEMMA ConfirmedIsOK ==
  ASSUME NEW s, SaleOK(s), NEW p, NEW room, HasMenu(s) => room \in 0..MaxRoom
  PROVE  /\ SaleOK(Confirmed(s, p, room)) /\ Confirmed(s, p, room).pending \in {NoSlot, s.pending}
         /\ Confirmed(s, p, room).guard = s.guard /\ Confirmed(s, p, room).request = s.request
         /\ HasMenu(s) => HasMenu(Confirmed(s, p, room))
<1>1. CASE ~HasMenu(s)
  BY <1>1 DEF Confirmed
<1>2. CASE HasMenu(s)
  <2>1. PICK settled : settled \in {s, [s EXCEPT !.pending = NoSlot]}
                       /\ Confirmed(s, p, room) = [settled EXCEPT !.menu.room = room]
    BY <1>2 DEF Confirmed
  <2>2. /\ settled \in Sales /\ settled.menu = s.menu /\ settled.guard = s.guard
        /\ settled.request = s.request /\ settled.scan = s.scan
        /\ settled.pending \in {NoSlot, s.pending}
    BY <2>1, ZerosOfSale DEF SaleOK, Sales
  <2>3. s.menu \in OpenMenus /\ Proper(s.menu)
    BY <1>2, OpenIsNoNoMenu DEF SaleOK, Sales, HasMenu
  <2>4. PICK m : m = [s.menu EXCEPT !.room = room]
    OBVIOUS
  <2>5. m \in OpenMenus /\ Proper(m) /\ m.of = s.menu.of
    BY <1>2, <2>3, <2>4 DEF OpenMenus, Proper, Rightful
  <2>6. Confirmed(s, p, room) = [settled EXCEPT !.menu = m]
    BY <2>1, <2>2, <2>4 DEF Sales
  <2>7. PICK c : c = Confirmed(s, p, room)
    OBVIOUS
  <2>8. /\ c \in Sales /\ c.menu = m /\ c.guard = s.guard /\ c.request = s.request /\ c.scan = s.scan
        /\ c.pending \in {NoSlot, s.pending}
    BY <2>2, <2>5, <2>6, <2>7, OpenIsNoNoMenu DEF Sales
  <2>9. SaleOK(c) /\ HasMenu(c)
    BY <1>2, <2>5, <2>8, OpenIsNoNoMenu DEF SaleOK, HasMenu
  <2> QED BY <2>7, <2>8, <2>9
<1> QED BY <1>1, <1>2

\* As long as the menu of the user's command is in time the command is guarded,
\* unless a reading or a join has ended that, and no sale is asked for.
Guarded ==
  /\ ~lifted => window <= sale.guard
  /\ window <= manualRest
  /\ window > 0 => sale.request = Off

\* With the types: a lost packet calls for the whole inventory, and every command
\* that waits was a trouble.
SellingConsistent ==
  /\ BedrockSellingTypeOK
  /\ SaleOK(sale)
  /\ lost => needsFull
  /\ Guarded
  /\ Len(queue) <= troubles

BeginsProperly == TransferBegins => Rightful(sale'.menu) /\ ~lost

LEMMA SellingStarts == ASSUME BedrockSellingInit PROVE SellingConsistent
<1>1. sale \in Sales
  BY ZerosOfSale DEF BedrockSellingInit, Sales
<1>2. SaleOK(sale)
  BY <1>1, SellingBounds DEF SaleOK, BedrockSellingInit, HasMenu
<1>3. Off \in Off..Settling /\ 0 \in 0..ManualGuard /\ 0 \in 0..SellInterval \union 0..Settling /\ 0 \in 0..MaxTrouble /\ 0 <= MaxTrouble
  BY SellingBounds DEF Off
<1>4. <<>> \in Seq({"command", "sell", "multi"}) /\ Len(<<>>) = 0
  OBVIOUS
<1>5. player \in [known : BOOLEAN, has : SUBSET Slots]
  BY DEF BedrockSellingInit
<1>6. BedrockSellingTypeOK
  BY <1>1, <1>3, <1>4, <1>5 DEF BedrockSellingInit, BedrockSellingTypeOK, Sales
<1>7. Guarded /\ Len(queue) <= troubles
  BY <1>4 DEF BedrockSellingInit, Guarded
<1> QED BY <1>2, <1>6, <1>7 DEF SellingConsistent, BedrockSellingInit

\* The types of what is not the sale.
BesidesSale ==
  /\ player \in [known : BOOLEAN, has : SUBSET Slots]
  /\ {needsFull, legacy, selling, paused, inWorld, lifted, lost} \subseteq BOOLEAN
  /\ spawning \in {"first", "again", "none"}
  /\ unsettled \in Off..Settling /\ manualRest \in 0..ManualGuard
  /\ nextSell \in 0..SellInterval \union 0..Settling
  /\ queue \in Seq({"command", "sell", "multi"}) /\ Len(queue) <= MaxTrouble
  /\ asked \subseteq {"sell", "multi", "manual"} /\ window \in 0..ManualGuard
  /\ troubles \in 0..MaxTrouble
  /\ needsFull => ~player.known
  /\ lost => needsFull
  /\ Len(queue) <= troubles

LEMMA SellingParts ==
  /\ SellingConsistent <=> BesidesSale /\ SaleOK(sale) /\ Guarded
  /\ SellingConsistent' <=> BesidesSale' /\ SaleOK(sale') /\ Guarded'
<1>1. SellingConsistent <=> BesidesSale /\ SaleOK(sale) /\ Guarded
  BY DEF SellingConsistent, BesidesSale, BedrockSellingTypeOK, SaleOK, Sales
<1>2. SellingConsistent' <=> BesidesSale' /\ SaleOK(sale') /\ Guarded'
  BY DEF SellingConsistent, BesidesSale, BedrockSellingTypeOK, SaleOK, Sales
<1> QED BY <1>1, <1>2

\* Numbers for the arithmetic of the steps.
LEMMA SellingNumbers ==
  ASSUME SellingConsistent
  PROVE  /\ sale.guard \in 0..ManualGuard /\ window \in 0..ManualGuard /\ manualRest \in 0..ManualGuard
         /\ sale.guard \in Int /\ window \in Int /\ manualRest \in Int /\ ManualGuard \in Nat
         /\ unsettled \in Off..Settling /\ nextSell \in 0..SellInterval \union 0..Settling
BY SellingBounds DEF SellingConsistent, BedrockSellingTypeOK

LEMMA LaterBounds ==
  /\ \A a \in Off..Settling : Later(a, Settling) \in Off..Settling /\ Later(a, 0) \in 0..Settling
  /\ \A a \in 0..SellInterval \union 0..Settling : Later(a, Settling) \in 0..SellInterval \union 0..Settling
<1>1. Settling \in Nat /\ SellInterval \in Nat
  BY SellingBounds
<1>2. \A a \in Off..Settling : Later(a, Settling) \in Off..Settling
  BY <1>1 DEF Later, Off
<1>3. \A a \in Off..Settling : Later(a, 0) \in 0..Settling
  BY <1>1 DEF Later, Off
<1>4. \A a \in 0..SellInterval \union 0..Settling : Later(a, Settling) \in 0..SellInterval \union 0..Settling
  BY <1>1 DEF Later
<1> QED BY <1>2, <1>3, <1>4

LEMMA PostponedBounds ==
  ASSUME BesidesSale, PostponeAutomation
  PROVE  unsettled' \in Off..Settling /\ nextSell' \in 0..SellInterval \union 0..Settling
BY LaterBounds DEF PostponeAutomation, BesidesSale

LEMMA LessBounds ==
  /\ \A n \in Off..Settling : Less(n) \in Off..Settling
  /\ \A n \in Off..LongWait : Less(n) \in Off..LongWait
  /\ \A n \in 0..LongWait : Less(n) \in 0..LongWait
  /\ \A n \in 0..ManualGuard : Less(n) \in 0..ManualGuard
  /\ \A n \in 0..MaxRoom : Less(n) \in 0..MaxRoom
  /\ \A n \in 0..SellInterval \union 0..Settling : Less(n) \in 0..SellInterval \union 0..Settling
  /\ \A m, n \in 0..ManualGuard : m <= n => Less(m) <= Less(n)
<1>1. /\ Settling \in Nat /\ SellInterval \in Nat /\ LongWait \in Nat /\ ManualGuard \in Nat /\ MaxRoom \in Nat
  BY SellingBounds
<1>2. /\ \A n \in Off..Settling : Less(n) \in Off..Settling
      /\ \A n \in Off..LongWait : Less(n) \in Off..LongWait
  BY <1>1 DEF Less, Off
<1>3. /\ \A n \in 0..LongWait : Less(n) \in 0..LongWait
      /\ \A n \in 0..ManualGuard : Less(n) \in 0..ManualGuard
      /\ \A n \in 0..MaxRoom : Less(n) \in 0..MaxRoom
  BY <1>1 DEF Less
<1>4. \A n \in 0..SellInterval \union 0..Settling : Less(n) \in 0..SellInterval \union 0..Settling
  BY <1>1 DEF Less
<1>5. \A m, n \in 0..ManualGuard : m <= n => Less(m) <= Less(n)
  BY <1>1 DEF Less
<1> QED BY <1>2, <1>3, <1>4, <1>5

LEMMA MoreBounds ==
  /\ \A n \in Off..(ManualGuard + 1) : More(n, ManualGuard + 1) \in Off..(ManualGuard + 1)
  /\ \A n \in 0..TransferWait : More(n, TransferWait) \in 0..TransferWait
  /\ \A n \in 0..LongWait : More(n, LongWait) \in 0..LongWait
<1>1. /\ ManualGuard \in Nat /\ TransferWait \in Nat /\ LongWait \in Nat
  BY SellingBounds
<1>2. \A n \in Off..(ManualGuard + 1) : More(n, ManualGuard + 1) \in Off..(ManualGuard + 1)
  BY <1>1 DEF More, Off
<1>3. \A n \in 0..TransferWait : More(n, TransferWait) \in 0..TransferWait
  BY <1>1 DEF More, Off
<1>4. \A n \in 0..LongWait : More(n, LongWait) \in 0..LongWait
  BY <1>1 DEF More, Off
<1> QED BY <1>2, <1>3, <1>4

-----------------------------------------------------------------------------
\* The tick: a command of the user's, the scan, the sale.
LEMMA RunManualStep ==
  ASSUME SellingConsistent, RunManual, UNCHANGED <<knowledge, troubles>>
  PROVE  SellingConsistent' /\ BeginsProperly
<1>1. /\ inWorld /\ queue # <<>> /\ queue' = Tail(queue) /\ PostponeAutomation
      /\ UNCHANGED <<selling, paused, inWorld, spawning, player, needsFull, legacy, lost, troubles>>
  BY DEF RunManual, knowledge
<1>2. BesidesSale /\ SaleOK(sale) /\ Guarded
  BY SellingParts
<1>3. /\ SaleOK(sale') /\ sale'.pending = NoSlot /\ sale'.request = Off
      /\ window' \in 0..ManualGuard /\ lifted' \in BOOLEAN /\ Guarded'
      /\ manualRest' \in 0..ManualGuard /\ asked' \subseteq {"sell", "multi", "manual"}
  <2>1. CASE Head(queue) = "multi"
    <3>1. PICK i : i = Interrupted(sale, TRUE, FALSE)
      OBVIOUS
    <3>2. SaleOK(i) /\ i.pending = NoSlot /\ i.request = Off
      BY <1>2, <3>1, InterruptedIsOK
    <3>3. /\ sale' = [i EXCEPT !.guard = 0, !.scan = LongWait]
          /\ asked' = asked \union {"multi"} /\ lifted' = TRUE
          /\ window' = window /\ manualRest' = manualRest
      BY <2>1, <3>1 DEF RunManual
    <3>4. SaleOK(sale') /\ sale'.pending = NoSlot /\ sale'.request = Off
      BY <3>2, <3>3, ZerosOfSale DEF SaleOK, Sales, HasMenu
    <3>5. Guarded'
      BY <1>2, <3>3, <3>4 DEF Guarded
    <3> QED BY <1>2, <3>3, <3>4, <3>5 DEF BesidesSale
  <2>2. CASE Head(queue) # "multi"
    <3>1. PICK m \in BOOLEAN : m = (Head(queue) = "sell")
      OBVIOUS
    <3>2. /\ sale' = Interrupted(sale, TRUE, m) /\ asked' = asked \union {"manual"}
          /\ manualRest' = ManualGuard /\ window' = ManualGuard /\ lifted' = FALSE
      BY <2>2, <3>1 DEF RunManual
    <3>3. /\ SaleOK(sale') /\ sale'.pending = NoSlot /\ sale'.guard = ManualGuard
          /\ sale'.request = Off
      BY <1>2, <3>2, InterruptedIsOK
    <3>4. ManualGuard <= ManualGuard
      BY SellingBounds
    <3>5. Guarded'
      BY <3>2, <3>3, <3>4 DEF Guarded
    <3> QED BY <1>2, <3>2, <3>3, <3>5, ZerosOfSale DEF BesidesSale
  <2> QED BY <2>1, <2>2
<1>4. unsettled' \in Off..Settling /\ nextSell' \in 0..SellInterval \union 0..Settling
  BY <1>1, <1>2, PostponedBounds
<1>5. /\ queue' \in Seq({"command", "sell", "multi"}) /\ Len(queue') <= MaxTrouble /\ Len(queue') <= troubles'
  <2>1. queue \in Seq({"command", "sell", "multi"}) /\ Len(queue) <= MaxTrouble /\ Len(queue) <= troubles
        /\ troubles \in Nat /\ MaxTrouble \in Nat
    BY <1>2, SellingBounds DEF BesidesSale
  <2>2. queue' \in Seq({"command", "sell", "multi"}) /\ Len(queue') = Len(queue) - 1 /\ Len(queue) \in Nat
    BY <1>1, <2>1
  <2> QED BY <1>1, <2>1, <2>2
<1>6. BesidesSale'
  BY <1>1, <1>2, <1>3, <1>4, <1>5 DEF BesidesSale
<1> QED BY <1>3, <1>6, SellingParts DEF BeginsProperly, TransferBegins

LEMMA SellStep ==
  ASSUME SellingConsistent, Sell, UNCHANGED <<knowledge, troubles>>
  PROVE  SellingConsistent' /\ BeginsProperly
<1>1. UNCHANGED <<selling, paused, inWorld, spawning, unsettled, manualRest, queue, window, lifted, player, needsFull, legacy, lost, troubles>>
  BY DEF Sell, knowledge, commands
<1>0. sale.scan = Off /\ manualRest = 0
  BY DEF Sell, Automates
<1>2. BesidesSale /\ SaleOK(sale) /\ Guarded
  BY SellingParts
<1>3. /\ nextSell' \in 0..SellInterval \union 0..Settling /\ asked' \subseteq {"sell", "multi", "manual"}
      /\ SaleOK(sale') /\ sale'.guard = sale.guard /\ (window > 0 => sale'.request = Off)
      /\ sale'.pending # NoSlot /\ sale'.pending # sale.pending => ~needsFull /\ Rightful(sale'.menu)
  <2>1. CASE sale' = Stopped(sale) /\ UNCHANGED <<nextSell, asked>>
    BY <1>2, <2>1, StoppedIsOK DEF BesidesSale
  <2>2. CASE UNCHANGED <<sale, nextSell, asked>>
    BY <1>2, <2>2 DEF BesidesSale, Guarded
  <2>3. ASSUME NEW s \in Sold(sale, player),
               IF Busy(s) \/ Blocked(s) \/ nextSell > 0 THEN sale' = s /\ UNCHANGED <<nextSell, asked>>
               ELSE /\ sale' = [s EXCEPT !.cancelled = 0, !.request = 0, !.targets = Undecided]
                    /\ nextSell' = SellInterval
                    /\ asked' = asked \union {"sell"}
        PROVE  /\ nextSell' \in 0..SellInterval \union 0..Settling /\ asked' \subseteq {"sell", "multi", "manual"}
               /\ SaleOK(sale') /\ sale'.guard = sale.guard /\ (window > 0 => sale'.request = Off)
               /\ sale'.pending # NoSlot /\ sale'.pending # sale.pending => ~needsFull /\ Rightful(sale'.menu)
    <3>1. /\ SaleOK(s) /\ s.guard = sale.guard /\ s.request \in {Off, sale.request}
          /\ s.scan = Off
          /\ s.pending # NoSlot /\ s.pending # sale.pending => ~needsFull /\ Rightful(s.menu)
      <4>1. player \in [known : BOOLEAN, has : SUBSET Slots]
        BY <1>2 DEF BesidesSale
      <4> QED BY <1>0, <1>2, <2>3, <4>1, SoldIsOK
    <3>2. CASE sale' = s /\ UNCHANGED <<nextSell, asked>>
      BY <1>2, <3>1, <3>2 DEF BesidesSale, Guarded
    <3>3. CASE /\ ~Busy(s) /\ ~Blocked(s)
               /\ sale' = [s EXCEPT !.cancelled = 0, !.request = 0, !.targets = Undecided]
               /\ nextSell' = SellInterval /\ asked' = asked \union {"sell"}
      <4>0. ~HasMenu(s) /\ s.pending = NoSlot
        BY <3>1, <3>3 DEF Busy, Blocked, SaleOK
      <4>1. /\ sale' \in Sales /\ sale'.guard = s.guard /\ sale'.pending = s.pending /\ sale'.menu = s.menu
            /\ sale'.scan = s.scan
        BY <3>1, <3>3, ZerosOfSale DEF SaleOK, Sales
      <4>3. SaleOK(sale')
        BY <1>0, <3>1, <4>0, <4>1 DEF SaleOK, HasMenu
      <4>4. ~(window > 0)
        BY <1>0, <1>2, SellingNumbers DEF Guarded
      <4>2. SellInterval \in 0..SellInterval
        BY SellingBounds
      <4> QED BY <1>2, <3>1, <3>3, <4>0, <4>1, <4>2, <4>3, <4>4 DEF BesidesSale
    <3> QED BY <2>3, <3>2, <3>3
  <2> QED BY <2>1, <2>2, <2>3 DEF Sell
<1>4. BesidesSale' /\ Guarded'
  BY <1>1, <1>2, <1>3 DEF BesidesSale, Guarded
<1>5. BeginsProperly
  BY <1>2, <1>3 DEF BeginsProperly, TransferBegins, BesidesSale
<1> QED BY <1>3, <1>4, <1>5, SellingParts

\* A step that stops or keeps the sale and the window begins no transfer.
LEMMA CalmStep ==
  ASSUME SellingConsistent, BesidesSale', SaleOK(sale'), sale'.pending \in {NoSlot, sale.pending},
         sale'.guard = sale.guard, sale'.request \in {Off, sale.request},
         UNCHANGED <<window, lifted, manualRest>>
  PROVE  SellingConsistent' /\ BeginsProperly
<1>1. Guarded'
  BY SellingParts DEF Guarded
<1> QED BY <1>1, SellingParts DEF BeginsProperly, TransferBegins

LEMMA OnTickStep ==
  ASSUME SellingConsistent, OnTick
  PROVE  SellingConsistent' /\ BeginsProperly
<1>1. UNCHANGED <<knowledge, troubles>>
  BY DEF OnTick
<1>2. BesidesSale /\ SaleOK(sale) /\ Guarded
  BY SellingParts
<1>3. CASE ReadMultipliers
  <2>1. sale' = Scanned(sale) /\ UNCHANGED <<behavior, asked, window, lifted>>
    BY <1>3 DEF ReadMultipliers, commands
  <2>2. /\ SaleOK(sale') /\ sale'.pending \in {NoSlot, sale.pending} /\ sale'.guard = sale.guard
        /\ sale'.request \in {Off, sale.request}
    BY <1>2, <2>1, ScannedIsOK
  <2>3. BesidesSale'
    BY <1>1, <1>2, <2>1 DEF BesidesSale, knowledge, behavior, commands
  <2> QED BY <2>1, <2>2, <2>3, CalmStep DEF behavior
<1>4. CASE Waits
  <2>1. UNCHANGED <<sale, behavior, asked, window, lifted>>
    BY <1>4 DEF Waits, commands
  <2>2. BesidesSale'
    BY <1>1, <1>2, <2>1 DEF BesidesSale, knowledge, behavior, commands
  <2> QED BY <1>2, <2>1, <2>2, CalmStep DEF behavior
<1> QED BY <1>1, <1>3, <1>4, RunManualStep, SellStep DEF OnTick

LEMMA SellingTimeStep ==
  ASSUME SellingConsistent, Elapse
  PROVE  SellingConsistent' /\ BeginsProperly
<1>1. BesidesSale /\ SaleOK(sale) /\ Guarded
  BY SellingParts
<1>2. /\ unsettled' = Less(unsettled) /\ manualRest' = Less(manualRest)
      /\ nextSell' = Less(nextSell) /\ window' = Less(window)
      /\ UNCHANGED <<player, needsFull, legacy, lost, selling, paused, inWorld, spawning, queue, asked, lifted,
                     troubles>>
  BY DEF Elapse, knowledge
<1>3. PICK m, r, w, g, c, n :
        /\ m = Aged(sale.menu) /\ r = More(sale.request, ManualGuard + 1)
        /\ w = (IF sale.pending = NoSlot THEN 0 ELSE More(sale.waited, TransferWait))
        /\ g = Less(sale.guard) /\ c = Less(sale.cancelled) /\ n = Less(sale.scan)
  OBVIOUS
<1>4. sale' = [sale EXCEPT !.request = r, !.waited = w, !.guard = g, !.cancelled = c, !.scan = n, !.menu = m]
  BY <1>1, <1>3 DEF Elapse, SaleOK, Sales
<1>5. /\ r \in Off..(ManualGuard + 1) /\ w \in 0..TransferWait /\ g \in 0..ManualGuard
      /\ c \in 0..LongWait /\ n \in Off..LongWait
  BY <1>1, <1>3, MoreBounds, LessBounds, ZerosOfSale DEF SaleOK, Sales
<1>6. m \in Menus /\ (m # NoMenu <=> HasMenu(sale)) /\ (HasMenu(sale) => Proper(m) /\ m.of = sale.menu.of)
  <2>1. CASE sale.menu = NoMenu
    BY <1>3, <2>1, ZerosOfSale DEF HasMenu, Aged
  <2>2. CASE sale.menu # NoMenu
    <3>1. sale.menu \in OpenMenus /\ Proper(sale.menu)
      BY <1>1, <2>2, OpenIsNoNoMenu DEF SaleOK, Sales, HasMenu
    <3>2. PICK a : a = More(sale.menu.age, LongWait)
      OBVIOUS
    <3>3. a \in 0..LongWait
      BY <3>1, <3>2, MoreBounds DEF OpenMenus
    <3>4. m = [sale.menu EXCEPT !.age = a]
      BY <1>3, <2>2, <3>1, <3>2 DEF OpenMenus, Aged
    <3>5. m \in OpenMenus /\ Proper(m) /\ m.of = sale.menu.of
      BY <3>1, <3>3, <3>4 DEF OpenMenus, Proper, Rightful
    <3> QED BY <2>2, <3>5, OpenIsNoNoMenu DEF HasMenu
  <2> QED BY <2>1, <2>2
<1>11. /\ sale'.pending = sale.pending /\ sale'.guard = g /\ sale'.request = r /\ sale'.scan = n
       /\ sale'.menu = m /\ sale' \in Sales
  BY <1>1, <1>4, <1>5, <1>6 DEF SaleOK, Sales
<1>12. (sale.request = Off => r = Off) /\ (sale.scan = Off => n = Off)
  BY <1>3 DEF More, Less, Off
<1>7. SaleOK(sale')
  BY <1>1, <1>6, <1>11, <1>12 DEF SaleOK, HasMenu
<1>8. /\ unsettled' \in Off..Settling /\ manualRest' \in 0..ManualGuard
      /\ nextSell' \in 0..SellInterval \union 0..Settling /\ window' \in 0..ManualGuard
  BY <1>1, <1>2, LessBounds DEF BesidesSale
<1>9. Guarded'
  <2>1. window \in 0..ManualGuard /\ manualRest \in 0..ManualGuard /\ sale.guard \in 0..ManualGuard
    BY SellingNumbers
  <2>2. /\ ~lifted' => window' <= g
        /\ window' <= manualRest'
    BY <1>1, <1>2, <1>3, <2>1, LessBounds DEF Guarded
  <2>3. window' > 0 => window > 0
    BY <1>2, <2>1, SellingBounds DEF Less
  <2> QED BY <1>1, <1>11, <1>12, <2>2, <2>3 DEF Guarded
<1>10. BesidesSale'
  BY <1>1, <1>2, <1>8 DEF BesidesSale
<1> QED BY <1>7, <1>9, <1>10, <1>11, SellingParts DEF BeginsProperly, TransferBegins

-----------------------------------------------------------------------------
\* The user, the supervisor and the server.
LEMMA TroubleCounts ==
  ASSUME BesidesSale, Trouble
  PROVE  /\ troubles' \in 0..MaxTrouble /\ troubles' = troubles + 1 /\ troubles < MaxTrouble
         /\ troubles \in Nat /\ Len(queue) \in Nat /\ Len(queue) <= troubles'
<1>1. troubles \in 0..MaxTrouble /\ MaxTrouble \in Nat /\ queue \in Seq({"command", "sell", "multi"}) /\ Len(queue) <= troubles
  BY SellingBounds DEF BesidesSale
<1>2. Len(queue) \in Nat
  BY <1>1
<1>3. troubles' = troubles + 1 /\ troubles < MaxTrouble
  BY DEF Trouble
<1> QED BY <1>1, <1>2, <1>3

LEMMA EnqueueStep ==
  ASSUME SellingConsistent, NEW command \in {"command", "sell", "multi"}, Enqueue(command)
  PROVE  SellingConsistent' /\ BeginsProperly
<1>1. /\ Trouble /\ queue' = Append(queue, command)
      /\ UNCHANGED <<sale, player, needsFull, legacy, lost, selling, paused, inWorld, spawning, unsettled, manualRest,
                     nextSell, asked, window, lifted>>
  BY DEF Enqueue, knowledge, commands
<1>2. BesidesSale /\ SaleOK(sale) /\ Guarded
  BY SellingParts
<1>3. /\ troubles' \in 0..MaxTrouble /\ troubles' = troubles + 1 /\ troubles < MaxTrouble
      /\ troubles \in Nat /\ Len(queue) \in Nat /\ Len(queue) <= troubles
  BY <1>1, <1>2, TroubleCounts DEF BesidesSale
<1>4. queue' \in Seq({"command", "sell", "multi"}) /\ Len(queue') = Len(queue) + 1
  BY <1>1, <1>2 DEF BesidesSale
<1>5. Len(queue') <= troubles' /\ Len(queue') <= MaxTrouble
  BY <1>3, <1>4, SellingBounds
<1>6. BesidesSale'
  BY <1>1, <1>2, <1>3, <1>4, <1>5 DEF BesidesSale
<1> QED BY <1>1, <1>2, <1>6, SellingParts DEF BeginsProperly, TransferBegins, Guarded

LEMMA ConfigureStep ==
  ASSUME SellingConsistent, Configure
  PROVE  SellingConsistent' /\ BeginsProperly
<1>1. BesidesSale /\ SaleOK(sale) /\ Guarded
  BY SellingParts
<1>2. /\ Trouble
      /\ UNCHANGED <<player, needsFull, legacy, lost, inWorld, spawning, unsettled, manualRest, queue, asked, window, lifted>>
  BY DEF Configure, knowledge, commands
<1>3. /\ {selling', paused'} \subseteq BOOLEAN /\ sale' \in {sale, Stopped(sale)}
      /\ nextSell' \in {nextSell, Later(unsettled, 0)}
  <2>1. {selling, paused} \subseteq BOOLEAN
    BY <1>1 DEF BesidesSale
  <2>2. selling' \in {selling, ~selling} /\ paused' \in {paused, ~paused}
    BY DEF Configure
  <2>3. sale' \in {sale, Stopped(sale)} /\ nextSell' \in {nextSell, Later(unsettled, 0)}
    BY DEF Configure
  <2> QED BY <2>1, <2>2, <2>3
<1>4. nextSell' \in 0..SellInterval \union 0..Settling
  BY <1>1, <1>3, LaterBounds DEF BesidesSale
<1>5. SaleOK(sale') /\ sale'.pending \in {NoSlot, sale.pending} /\ sale'.guard = sale.guard
      /\ sale'.request \in {Off, sale.request}
  BY <1>1, <1>3, StoppedIsOK
<1>6. troubles' \in 0..MaxTrouble /\ Len(queue) <= troubles'
  BY <1>1, <1>2, TroubleCounts
<1>7. BesidesSale'
  BY <1>1, <1>2, <1>3, <1>4, <1>6 DEF BesidesSale
<1> QED BY <1>2, <1>5, <1>7, CalmStep

LEMMA OpenStep ==
  ASSUME SellingConsistent, NEW command, NEW title \in Titles, NEW seen \in BOOLEAN, Open(command, title, seen)
  PROVE  SellingConsistent' /\ BeginsProperly
<1>1. BesidesSale /\ SaleOK(sale)
  BY SellingParts
<1>2. UNCHANGED <<player, needsFull, legacy, lost, selling, paused, inWorld, spawning, unsettled, manualRest, nextSell,
                  queue, window, lifted, troubles>> /\ asked' = asked \ {command}
  BY DEF Open, knowledge, behavior, commands
<1>3. PICK of : of = Origin(command)
  OBVIOUS
<1>4. /\ command \in {"sell", "multi", "manual"} /\ sale' = Opened(sale, of, title, seen)
      /\ title \in (IF command = "manual" THEN {"sell", "other", "station"} ELSE {command})
  BY <1>1, <1>3 DEF Open, BesidesSale
<1>5. /\ of \in Origins /\ (of = "user" => sale.guard > 0) /\ (of = "reading" => title # "sell")
      /\ of \in {"sale", "mistaken"} \/ sale.request = Off
  <2>1. Guarded /\ sale.guard \in Int /\ window \in Int
    BY SellingParts, SellingNumbers
  <2>2. CASE command = "manual" /\ window > 0
    BY <1>3, <2>1, <2>2 DEF Origin, Origins, Guarded
  <2>3. CASE command = "multi" /\ sale.scan # Off
    BY <1>1, <1>3, <1>4, <2>3 DEF Origin, Origins, SaleOK
  <2>4. CASE ~(command = "manual" /\ window > 0) /\ ~(command = "multi" /\ sale.scan # Off)
    BY <1>3, <2>4 DEF Origin, Origins
  <2> QED BY <2>2, <2>3, <2>4
<1>6. /\ SaleOK(sale') /\ sale'.pending = NoSlot /\ sale'.guard = sale.guard
      /\ sale'.request \in {Off, sale.request}
  BY <1>1, <1>4, <1>5, OpenedIsOK
<1>7. BesidesSale'
  BY <1>1, <1>2 DEF BesidesSale
<1> QED BY <1>2, <1>6, <1>7, CalmStep

\* What the server says of the menu alone.
LEMMA MenuStep ==
  ASSUME SellingConsistent, GiveTitle \/ ServerCloses \/ GetsMenu
  PROVE  SellingConsistent' /\ BeginsProperly
<1>1. BesidesSale /\ SaleOK(sale)
  BY SellingParts
<1>2. UNCHANGED <<player, needsFull, legacy, lost, selling, paused, inWorld, spawning, unsettled, manualRest, nextSell,
                  queue, asked, window, lifted, troubles>> /\ HasMenu(sale)
  BY DEF GiveTitle, ServerCloses, GetsMenu, knowledge, behavior, commands
<1>3. BesidesSale'
  BY <1>1, <1>2 DEF BesidesSale
<1>4. CASE GiveTitle
  BY <1>1, <1>2, <1>3, <1>4, TitledIsOK, CalmStep DEF GiveTitle
<1>5. CASE ServerCloses
  <2>1. PICK c, n : c = Closed(sale) /\ n = (IF sale.mine THEN Off ELSE c.scan)
    OBVIOUS
  <2>2. SaleOK(c) /\ c.pending = NoSlot /\ c.guard = sale.guard /\ c.request = Off
    BY <1>1, <2>1, ClosedIsOK
  <2>3. sale' = [c EXCEPT !.scan = n]
    BY <1>5, <2>1, <2>2 DEF ServerCloses, SaleOK, Sales
  <2>4. n \in Off..LongWait
    BY <2>1, <2>2, ZerosOfSale DEF SaleOK, Sales
  <2>5. SaleOK(sale') /\ sale'.pending = NoSlot /\ sale'.guard = sale.guard /\ sale'.request = Off
    BY <2>2, <2>3, <2>4 DEF SaleOK, Sales, HasMenu
  <2> QED BY <1>2, <1>3, <2>5, CalmStep
<1>6. CASE GetsMenu
  <2>1. PICK room \in 0..MaxRoom : sale' = [Confirmed(sale, player, room) EXCEPT !.menu.ready = TRUE]
    BY <1>6 DEF GetsMenu
  <2>2. PICK c : c = Confirmed(sale, player, room)
    OBVIOUS
  <2>3. /\ SaleOK(c) /\ c.pending \in {NoSlot, sale.pending} /\ c.guard = sale.guard /\ HasMenu(c)
        /\ c.request = sale.request
    BY <1>1, <1>2, <2>2, ConfirmedIsOK
  <2>4. c.menu \in OpenMenus /\ Proper(c.menu)
    BY <2>3, OpenIsNoNoMenu DEF SaleOK, Sales, HasMenu
  <2>5. PICK m : m = [c.menu EXCEPT !.ready = TRUE]
    OBVIOUS
  <2>6. m \in OpenMenus /\ Proper(m) /\ m.of = c.menu.of
    BY <2>4, <2>5 DEF OpenMenus, Proper, Rightful
  <2>7. sale' = [c EXCEPT !.menu = m]
    BY <2>1, <2>2, <2>3, <2>5 DEF SaleOK, Sales
  <2>8. /\ SaleOK(sale') /\ sale'.pending = c.pending /\ sale'.guard = sale.guard
        /\ sale'.request = sale.request
    BY <2>3, <2>6, <2>7, OpenIsNoNoMenu DEF SaleOK, Sales, HasMenu
  <2> QED BY <1>2, <1>3, <2>3, <2>8, CalmStep
<1> QED BY <1>4, <1>5, <1>6

\* What it says of the inventory.
LEMMA InventoryStep ==
  ASSUME SellingConsistent, GetsContent \/ GetsSlot
  PROVE  SellingConsistent' /\ BeginsProperly
<1>1. BesidesSale /\ SaleOK(sale)
  BY SellingParts
<1>2. /\ UNCHANGED <<legacy, selling, paused, inWorld, spawning, unsettled, manualRest, nextSell,
                     queue, asked, window, lifted, troubles>>
      /\ sale' = Confirmed(sale, player', sale.menu.room)
  BY DEF GetsContent, GetsSlot, behavior, commands
<1>3. player' \in [known : BOOLEAN, has : SUBSET Slots]
  <2>1. CASE GetsContent
    BY <2>1 DEF GetsContent
  <2>2. CASE GetsSlot
    <3>1. PICK slot \in Slots : \E has \in {{}, {slot}} :
            player' = [known |-> TRUE, has |-> (player.has \ {slot}) \union has]
      BY <2>2 DEF GetsSlot
    <3>2. player.has \subseteq Slots
      BY <1>1 DEF BesidesSale
    <3>3. PICK has \in {{}, {slot}} : player' = [known |-> TRUE, has |-> (player.has \ {slot}) \union has]
      BY <3>1
    <3>4. (player.has \ {slot}) \union has \subseteq Slots
      BY <3>2, <3>3
    <3> QED BY <3>3, <3>4
  <2> QED BY <2>1, <2>2
<1>4. /\ needsFull' = FALSE
      /\ lost' \in {FALSE, lost} /\ (lost' => needsFull')
  <2>1. CASE GetsContent
    BY <2>1 DEF GetsContent
  <2>2. CASE GetsSlot
    <3>1. ~needsFull /\ needsFull' = needsFull /\ lost' = lost
      BY <2>2 DEF GetsSlot
    <3>2. needsFull \in BOOLEAN /\ (lost => needsFull)
      BY <1>1 DEF BesidesSale
    <3> QED BY <3>1, <3>2
  <2> QED BY <2>1, <2>2
<1>5. BesidesSale'
  <2>1. {needsFull', lost'} \subseteq BOOLEAN
    BY <1>1, <1>4 DEF BesidesSale
  <2> QED BY <1>1, <1>2, <1>3, <1>4, <2>1 DEF BesidesSale
<1>6. HasMenu(sale) => sale.menu.room \in 0..MaxRoom
  <2>1. HasMenu(sale) => sale.menu \in OpenMenus
    BY <1>1, OpenIsNoNoMenu DEF SaleOK, Sales, HasMenu
  <2> QED BY <2>1 DEF OpenMenus
<1>7. PICK p, room : p = player' /\ room = sale.menu.room
  OBVIOUS
<1>8. SaleOK(Confirmed(sale, p, room)) /\ Confirmed(sale, p, room).pending \in {NoSlot, sale.pending}
      /\ Confirmed(sale, p, room).guard = sale.guard /\ Confirmed(sale, p, room).request = sale.request
  BY <1>1, <1>6, <1>7, ConfirmedIsOK
<1> QED BY <1>2, <1>5, <1>7, <1>8, CalmStep

LEMMA RespondsStep ==
  ASSUME SellingConsistent, Responds
  PROVE  SellingConsistent' /\ BeginsProperly
<1>1. BesidesSale /\ SaleOK(sale)
  BY SellingParts
<1>2. /\ sale.pending # NoSlot
      /\ UNCHANGED <<needsFull, legacy, lost, selling, paused, inWorld, spawning, unsettled, manualRest, nextSell,
                     queue, asked, window, lifted, troubles>>
  BY DEF Responds, behavior, commands
<1>3. sale.menu \in OpenMenus /\ Proper(sale.menu) /\ sale \in Sales
  BY <1>1, <1>2, OpenIsNoNoMenu DEF SaleOK, Sales, HasMenu
<1>4. PICK room, m : room = Less(sale.menu.room) /\ m = [sale.menu EXCEPT !.room = room]
  OBVIOUS
<1>5. m \in OpenMenus /\ Proper(m) /\ m.of = sale.menu.of
  <2>1. room \in 0..MaxRoom
    BY <1>3, <1>4, LessBounds DEF OpenMenus
  <2> QED BY <1>3, <1>4, <2>1 DEF OpenMenus, Proper, Rightful
<1>6. \/ sale' = [sale EXCEPT !.pending = NoSlot] /\ UNCHANGED player
      \/ /\ player' = [player EXCEPT !.has = @ \ {sale.pending}]
         /\ sale' = [sale EXCEPT !.pending = NoSlot, !.menu = m]
  BY <1>3, <1>4 DEF Responds, Sales
<1>7. /\ SaleOK(sale') /\ sale'.pending = NoSlot /\ sale'.guard = sale.guard
      /\ sale'.request = sale.request
  BY <1>1, <1>3, <1>5, <1>6, OpenIsNoNoMenu, ZerosOfSale DEF SaleOK, Sales, HasMenu
<1>8. player' \in [known : BOOLEAN, has : SUBSET Slots] /\ player'.known = player.known
  BY <1>1, <1>6 DEF BesidesSale
<1>9. BesidesSale'
  BY <1>1, <1>2, <1>8 DEF BesidesSale
<1> QED BY <1>2, <1>7, <1>9, CalmStep

LEMMA LosePacketStep ==
  ASSUME SellingConsistent, LosePacket
  PROVE  SellingConsistent' /\ BeginsProperly
<1>1. BesidesSale /\ SaleOK(sale)
  BY SellingParts
<1>2. /\ Trouble /\ needsFull' = TRUE /\ lost' = TRUE /\ player' = [known |-> FALSE, has |-> {}]
      /\ UNCHANGED <<legacy, selling, paused, inWorld, spawning, unsettled, manualRest, nextSell, queue, asked, window, lifted>>
  BY DEF LosePacket, behavior, commands
<1>3. PICK s, m : /\ s = Stopped(sale)
                  /\ m = IF s.menu = NoMenu THEN s.menu ELSE [s.menu EXCEPT !.ready = FALSE, !.room = 0]
  OBVIOUS
<1>4. SaleOK(s) /\ s.pending = NoSlot /\ s.guard = sale.guard /\ s.request = Off
  BY <1>1, <1>3, StoppedIsOK
<1>5. sale' = [s EXCEPT !.cancelled = LongWait, !.menu = m]
  BY <1>3, <1>4 DEF LosePacket, SaleOK, Sales
<1>6. m \in Menus /\ (m # NoMenu => Proper(m))
  <2>1. CASE s.menu = NoMenu
    BY <1>3, <2>1, ZerosOfSale
  <2>2. CASE s.menu # NoMenu
    <3>1. s.menu \in OpenMenus /\ Proper(s.menu)
      BY <1>4, <2>2, OpenIsNoNoMenu DEF SaleOK, Sales, HasMenu
    <3>2. m = [s.menu EXCEPT !.ready = FALSE, !.room = 0]
      BY <1>3, <2>2
    <3>3. m \in OpenMenus /\ Proper(m)
      BY <3>1, <3>2, ZerosOfSale DEF OpenMenus, Proper, Rightful
    <3> QED BY <3>3, OpenIsNoNoMenu
  <2> QED BY <2>1, <2>2
<1>7. SaleOK(sale') /\ sale'.pending = NoSlot /\ sale'.guard = sale.guard /\ sale'.request = Off
  BY <1>4, <1>5, <1>6, ZerosOfSale DEF SaleOK, Sales, HasMenu
<1>8. troubles' \in 0..MaxTrouble /\ Len(queue) <= troubles'
  BY <1>1, <1>2, TroubleCounts
<1>9. player' \in [known : BOOLEAN, has : SUBSET Slots] /\ ~player'.known
  BY <1>2
<1>10. BesidesSale'
  BY <1>1, <1>2, <1>8, <1>9 DEF BesidesSale
<1> QED BY <1>2, <1>7, <1>10, CalmStep

\* Interruptions, joins and spawns.
LEMMA WorldStep ==
  ASSUME SellingConsistent, InventoryBusy \/ MarkTeleported \/ Join \/ SpawnInWorld
  PROVE  SellingConsistent' /\ BeginsProperly
<1>1. BesidesSale /\ SaleOK(sale) /\ Guarded
  BY SellingParts
<1>2. /\ Off \in Off..Settling /\ Settling \in Off..Settling /\ Settling \in 0..SellInterval \union 0..Settling
      /\ 0 \in 0..ManualGuard
  BY SellingBounds DEF Off
<1>3. CASE InventoryBusy
  <2>1. /\ Trouble /\ sale' = Stopped(sale) /\ PostponeAutomation
        /\ UNCHANGED <<player, needsFull, legacy, lost, selling, paused, inWorld, spawning, manualRest, queue, asked,
                       window, lifted>>
    BY <1>3 DEF InventoryBusy, knowledge, commands
  <2>2. troubles' \in 0..MaxTrouble /\ Len(queue) <= troubles'
    BY <1>1, <2>1, TroubleCounts
  <2>3. unsettled' \in Off..Settling /\ nextSell' \in 0..SellInterval \union 0..Settling
    BY <1>1, <2>1, PostponedBounds
  <2>4. BesidesSale'
    BY <1>1, <2>1, <2>2, <2>3 DEF BesidesSale
  <2> QED BY <1>1, <2>1, <2>4, StoppedIsOK, CalmStep
<1>6. CASE MarkTeleported
  <2>1. /\ Trouble /\ sale' = Stopped(sale)
        /\ inWorld' = TRUE /\ unsettled' = Settling /\ nextSell' = Settling
        /\ UNCHANGED <<player, needsFull, legacy, lost, selling, paused, spawning, manualRest, queue, asked,
                       window, lifted>>
    BY <1>6 DEF MarkTeleported, knowledge, commands
  <2>2. troubles' \in 0..MaxTrouble /\ Len(queue) <= troubles'
    BY <1>1, <2>1, TroubleCounts
  <2>3. BesidesSale'
    BY <1>1, <1>2, <2>1, <2>2 DEF BesidesSale
  <2> QED BY <1>1, <2>1, <2>3, StoppedIsOK, CalmStep
<1>4. CASE Join
  <2>1. /\ Trouble /\ inWorld' = FALSE /\ unsettled' = Off /\ lifted' = TRUE
        /\ spawning' \in {"again", spawning}
        /\ player' = [known |-> FALSE, has |-> {}]
        /\ UNCHANGED <<needsFull, legacy, lost, selling, paused, manualRest, nextSell, queue, asked, window>>
    BY <1>4 DEF Join
  <2>2. PICK c : c = Closed(sale)
    OBVIOUS
  <2>3. SaleOK(c) /\ c.pending = NoSlot /\ c.request = Off
    BY <1>1, <2>2, ClosedIsOK
  <2>4. sale' = [c EXCEPT !.guard = 0, !.cancelled = 0, !.scan = Off]
    BY <1>4, <2>2 DEF Join
  <2>5. SaleOK(sale') /\ sale'.pending = NoSlot /\ sale'.request = Off
    BY <2>3, <2>4, ZerosOfSale DEF SaleOK, Sales, HasMenu
  <2>6. troubles' \in 0..MaxTrouble /\ Len(queue) <= troubles'
    BY <1>1, <2>1, TroubleCounts
  <2>7. player' \in [known : BOOLEAN, has : SUBSET Slots] /\ ~player'.known
    BY <2>1
  <2>8. BesidesSale'
    BY <1>1, <1>2, <2>1, <2>6, <2>7 DEF BesidesSale
  <2>9. Guarded'
    BY <1>1, <2>1, <2>5 DEF Guarded
  <2> QED BY <2>5, <2>8, <2>9, SellingParts DEF BeginsProperly, TransferBegins
<1>5. CASE SpawnInWorld
  <2>1. /\ inWorld' = TRUE /\ unsettled' = Settling /\ nextSell' = Settling
        /\ spawning' = "none"
        /\ UNCHANGED <<sale, player, needsFull, legacy, lost, selling, paused, manualRest, queue, asked, window,
                       lifted, troubles>>
    BY <1>5 DEF SpawnInWorld, knowledge, commands
  <2>2. BesidesSale'
    BY <1>1, <1>2, <2>1 DEF BesidesSale
  <2> QED BY <1>1, <2>1, <2>2, CalmStep
<1> QED BY <1>3, <1>4, <1>5, <1>6

LEMMA SellingStep ==
  ASSUME SellingConsistent, [BedrockSellingNext]_sellingVars
  PROVE  SellingConsistent' /\ [TransferBegins => Rightful(sale'.menu) /\ ~lost]_sellingVars
<1>1. CASE BedrockSellingNext
  <2>1. SellingConsistent' /\ BeginsProperly
    BY <1>1, OnTickStep, SellingTimeStep, EnqueueStep, ConfigureStep, OpenStep, MenuStep, InventoryStep,
       RespondsStep, LosePacketStep, WorldStep DEF BedrockSellingNext
  <2> QED BY <2>1 DEF BeginsProperly
<1>2. CASE UNCHANGED sellingVars
  <2>1. BesidesSale' /\ SaleOK(sale') /\ Guarded'
    BY <1>2, SellingParts DEF sellingVars, BesidesSale, SaleOK, HasMenu, Guarded
  <2> QED BY <1>2, <2>1, SellingParts
<1> QED BY <1>1, <1>2

-----------------------------------------------------------------------------
(***************************************************************************)
(* The crouching (BedrockCrouch).                                          *)
(***************************************************************************)
LEMMA CrouchBounds ==
  /\ Stabilize \in Nat /\ Check \in Nat /\ TeleportCheck \in Nat /\ MaxMishaps \in Nat
  /\ 0 \in 0..Check /\ Check \in 0..Check /\ 0 \in 0..TeleportCheck /\ TeleportCheck \in 0..TeleportCheck
  /\ NotSpawned \in NotSpawned..Stabilize /\ Stabilize \in NotSpawned..Stabilize
  /\ 0 \in 0..MaxMishaps
<1>1. {Stabilize, Check, TeleportCheck, MaxMishaps} \subseteq Nat
  BY BedrockCrouchAssumption
<1> QED BY <1>1 DEF NotSpawned

LEMMA CrouchStarts == ASSUME CrouchInit PROVE CrouchTypeOK
BY CrouchBounds DEF CrouchInit, CrouchTypeOK

\* Another mishap is within the bound.
LEMMA MishapCounts ==
  ASSUME mishaps \in 0..MaxMishaps, Mishap \/ UNCHANGED mishaps
  PROVE  mishaps' \in 0..MaxMishaps
BY CrouchBounds DEF Mishap

\* Everything but the ticks and the time.
LEMMA OutsideCrouchStep ==
  ASSUME CrouchTypeOK,
         SetCrouch \/ Joins \/ Spawns \/ Teleports \/ TellsOfTeleport \/ ForgetsByTeleport \/ Forgets
           \/ Reports \/ ChecksCrouch
  PROVE  CrouchTypeOK'
<1>1. mishaps' \in 0..MaxMishaps
  <2>1. Mishap \/ UNCHANGED mishaps
    BY DEF SetCrouch, Joins, Spawns, Teleports, TellsOfTeleport, ForgetsByTeleport, Forgets, Reports, ChecksCrouch
  <2> QED BY <2>1, MishapCounts DEF CrouchTypeOK
<1>2. CASE SetCrouch
  BY <1>1, <1>2 DEF SetCrouch, server, clocks, presence, CrouchTypeOK
<1>3. CASE Joins
  BY <1>1, <1>3, CrouchBounds DEF Joins, CrouchTypeOK
<1>4. CASE Spawns
  BY <1>1, <1>4, CrouchBounds DEF Spawns, server, CrouchTypeOK
<1>5. CASE Teleports
  BY <1>1, <1>5, CrouchBounds DEF Teleports, Schedule, CrouchTypeOK
<1>6. CASE TellsOfTeleport
  BY <1>1, <1>6, CrouchBounds DEF TellsOfTeleport, Schedule, presence, CrouchTypeOK
<1>7. CASE ForgetsByTeleport \/ Forgets
  <2>1. /\ sneaks' = FALSE /\ report' \in {"nothing", "no"}
        /\ UNCHANGED <<crouch, held, edge, renew, serverSneaking, grace, nextCheck, checks, settling,
                       spawnedHere, spawnDue, unsure>>
    BY <1>7 DEF ForgetsByTeleport, Forgets, clocks, presence
  <2>2. {crouch', held', edge', renew', spawnedHere', spawnDue', sneaks'} \subseteq BOOLEAN
    BY <2>1 DEF CrouchTypeOK
  <2> QED BY <1>1, <2>1, <2>2 DEF CrouchTypeOK
<1>8. CASE Reports
  BY <1>1, <1>8, CrouchBounds DEF Reports, presence, CrouchTypeOK
<1>9. CASE ChecksCrouch
  BY <1>1, <1>9, CrouchBounds DEF ChecksCrouch, server, presence, CrouchTypeOK
<1> QED BY <1>2, <1>3, <1>4, <1>5, <1>6, <1>7, <1>8, <1>9

LEMMA CrouchTickStep ==
  ASSUME CrouchTypeOK, TicksInWorld
  PROVE  CrouchTypeOK'
<1> DEFINE due == 0 \in checks /\ crouch
           again == renew \/ due
           presses == settling = 0 /\ crouch /\ (~held \/ again \/ nextCheck = 0)
           renewed == presses /\ (again \/ serverSneaking = "no")
<1>1. /\ checks' = checks \ {0} /\ held' = (held \/ presses) /\ renew' = (again /\ ~presses)
      /\ nextCheck' = (IF presses THEN Check ELSE IF due THEN 0 ELSE nextCheck)
      /\ grace' = (IF renewed THEN Check ELSE grace)
      /\ Sends(held', edge \/ renewed \/ held' # held)
      /\ UNCHANGED <<crouch, serverSneaking, settling, spawnedHere, spawnDue, unsure>>
  BY DEF TicksInWorld, presence
<1>2. /\ held' \in BOOLEAN /\ renew' \in BOOLEAN /\ (held' => crouch')
      /\ nextCheck' \in 0..Check /\ grace' \in 0..Check /\ checks' \subseteq 0..TeleportCheck
  BY <1>1, CrouchBounds DEF CrouchTypeOK
<1>3. PICK went \in BOOLEAN : Sends(held', went)
  BY <1>1
<1>4. /\ edge' \in BOOLEAN /\ sneaks' \in BOOLEAN /\ report' \in {"yes", "no", "nothing"}
      /\ mishaps' \in 0..MaxMishaps
  BY <1>2, <1>3, MishapCounts DEF Sends, CrouchTypeOK
<1> QED BY <1>1, <1>2, <1>4 DEF CrouchTypeOK

LEMMA CrouchTimeStep ==
  ASSUME CrouchTypeOK, TimePasses
  PROVE  CrouchTypeOK'
<1> DEFINE less(n) == IF n > 0 THEN n - 1 ELSE n
<1>1. /\ grace' = less(grace) /\ nextCheck' = less(nextCheck)
      /\ settling' = less(settling) /\ unsure' = less(unsure)
      /\ checks' = {less(c) : c \in checks}
      /\ UNCHANGED <<crouch, held, edge, renew, serverSneaking, spawnedHere, spawnDue, sneaks, report, mishaps>>
  BY DEF TimePasses, presence
<1>2. /\ Stabilize \in Nat /\ Check \in Nat /\ TeleportCheck \in Nat
      /\ grace \in 0..Check /\ nextCheck \in 0..Check /\ unsure \in 0..TeleportCheck
      /\ settling \in NotSpawned..Stabilize /\ checks \subseteq 0..TeleportCheck
  BY CrouchBounds DEF CrouchTypeOK
<1>3. grace' \in 0..Check /\ nextCheck' \in 0..Check /\ unsure' \in 0..TeleportCheck
  BY <1>1, <1>2
<1>4. settling' \in NotSpawned..Stabilize
  BY <1>1, <1>2 DEF NotSpawned
<1>5. \A c \in 0..TeleportCheck : less(c) \in 0..TeleportCheck
  BY <1>2
<1>6. checks' \subseteq 0..TeleportCheck
  <2> HIDE DEF less
  <2> QED BY <1>1, <1>2, <1>5
<1> QED BY <1>1, <1>3, <1>4, <1>6 DEF CrouchTypeOK

LEMMA CrouchStep ==
  ASSUME CrouchTypeOK, [CrouchNext]_crouchVars
  PROVE  CrouchTypeOK'
<1>1. CASE CrouchNext
  BY <1>1, OutsideCrouchStep, CrouchTickStep, CrouchTimeStep DEF CrouchNext
<1>2. CASE UNCHANGED crouchVars
  BY <1>2 DEF crouchVars, CrouchTypeOK
<1> QED BY <1>1, <1>2

-----------------------------------------------------------------------------
(***************************************************************************)
(* The mouse button (BedrockMouse).                                        *)
(***************************************************************************)
\* What the assumption says of each constant.
LEMMA MouseBounds ==
  /\ Places \subseteq Nat /\ Nowhere \notin Places
  /\ DigTime \in Nat /\ RetryTime \in Nat /\ UseTime \in Nat /\ RequestTime \in Nat /\ MaxUpsets \in Nat
  /\ Air \notin Kinds
<1>1. Places \subseteq Nat \ {0} /\ 0 \in Int
  BY BedrockMouseAssumption
<1>2. {DigTime, RetryTime, UseTime, RequestTime} \subseteq Nat
  BY BedrockMouseAssumption
<1> QED BY <1>1, <1>2, BedrockMouseAssumption DEF Nowhere, Air

\* The three kinds of section differ.
LEMMA SectionsDiffer ==
  /\ Unseen # Empty
  /\ \A b : Full(b) # Unseen /\ Full(b) # Empty /\ Full(b).blocks = b
BY DEF Unseen, Empty, Full

\* What a section that was all air looks like with the updates made.
LEMMA SpreadIsWorld ==
  ASSUME NEW u \in Updates
  PROVE  /\ DOMAIN u \subseteq Places
         /\ Spread(u) \in Blocks
         /\ DOMAIN u = {} => Spread(u) = AllAir
<1>1. PICK S \in SUBSET Places : u \in [S -> Kinds \union {Air}]
  BY DEF Updates
<1>2. DOMAIN u = S /\ \A p \in S : u[p] \in Kinds \union {Air}
  BY <1>1
<1> QED BY <1>2 DEF Spread, Blocks, AllAir

\* One update more changes one place.
LEMMA WithUpdateSpreads ==
  ASSUME NEW u \in Updates, NEW p \in Places, NEW k \in Kinds \union {Air}
  PROVE  /\ WithUpdate(u, p, k) \in Updates
         /\ Spread(WithUpdate(u, p, k)) = [Spread(u) EXCEPT ![p] = k]
<1>1. PICK S \in SUBSET Places : u \in [S -> Kinds \union {Air}]
  BY DEF Updates
<1> DEFINE v == WithUpdate(u, p, k)
<1>2. DOMAIN u = S /\ \A q \in S : u[q] \in Kinds \union {Air}
  BY <1>1
<1>3. v = [q \in S \union {p} |-> IF q = p THEN k ELSE u[q]]
  BY <1>2 DEF WithUpdate
<1>4. v \in [S \union {p} -> Kinds \union {Air}] /\ S \union {p} \in SUBSET Places
  BY <1>2, <1>3
<1>5. v \in Updates
  BY <1>4 DEF Updates
<1>6. DOMAIN v = S \union {p} /\ v[p] = k /\ \A q \in S : q # p => v[q] = u[q]
  BY <1>3
<1>7. Spread(v) = [Spread(u) EXCEPT ![p] = k]
  <2> HIDE DEF v
  <2> QED BY <1>2, <1>6 DEF Spread
<1> QED BY <1>5, <1>7

LEMMA NoUpdatesAtAll == NoUpdates \in Updates /\ DOMAIN NoUpdates = {} /\ AllAir \in Blocks
<1>1. DOMAIN NoUpdates = {} /\ NoUpdates \in [{} -> Kinds \union {Air}]
  BY DEF NoUpdates
<1> QED BY <1>1 DEF Updates, AllAir, Blocks

\* The blocks of a section that is known, once its updates are made.
LEMMA SeenIsSeen ==
  ASSUME MouseTypeOK, SeesTheWorld, section # Unseen
  PROVE  /\ Seen \in Blocks
         /\ DOMAIN airUpdates = {} => Seen = world
         /\ section # Empty => section \in {Full(b) : b \in Blocks} /\ Seen = section.blocks /\ Seen = world
<1>1. CASE section = Empty
  BY <1>1, SpreadIsWorld, NoUpdatesAtAll DEF Seen, MouseTypeOK, SeesTheWorld
<1>2. CASE section # Empty
  <2>1. PICK b \in Blocks : section = Full(b)
    BY <1>2 DEF MouseTypeOK
  <2> QED BY <1>2, <2>1, SectionsDiffer DEF Seen, SeesTheWorld
<1> QED BY <1>1, <1>2

\* A button is held on an item only while it is the right one: with the types,
\* and with what bot and server agree on, this is kept by every step.
MouseConsistent ==
  /\ MouseTypeOK
  /\ AgreesWithServer
  /\ useRequested => mode = "right"

LEMMA MouseStarts == ASSUME MouseInit PROVE MouseConsistent
<1>1. NotAsked \in NotAsked..RequestTime /\ 0 \in 0..(DigTime + RetryTime) /\ 0 \in 0..UseTime /\ 0 \in 0..MaxUpsets
  BY MouseBounds DEF NotAsked
<1>2. mining \in [at : Places \union {Nowhere}, kind : Kinds \union {Air}, left : 0..(DigTime + RetryTime)]
  BY <1>1 DEF MouseInit, NoMining
<1>3. MouseTypeOK
  BY <1>1, <1>2, NoUpdatesAtAll DEF MouseInit, MouseTypeOK
<1> QED BY <1>3 DEF MouseInit, MouseConsistent, AgreesWithServer, SeesTheWorld, NothingLeftHeld

\* The world begins anew, and with it what the bot knows and does.
LEMMA MouseAnew ==
  ASSUME MouseConsistent, StartGame \/ Teleported
  PROVE  MouseConsistent'
<1> USE DEF MouseConsistent
<1>1. NotAsked \in NotAsked..RequestTime /\ 0 \in 0..(DigTime + RetryTime) /\ 0 \in 0..UseTime
  BY MouseBounds DEF NotAsked
<1>2. NoMining \in [at : Places \union {Nowhere}, kind : Kinds \union {Air}, left : 0..(DigTime + RetryTime)]
  BY <1>1 DEF NoMining
<1>3. upsets' \in 0..MaxUpsets
  BY MouseBounds DEF MouseTypeOK, StartGame, Teleported, Upset
<1>4. registry' \in BOOLEAN /\ mode' = mode /\ blocked' = blocked
  BY DEF StartGame, Teleported, MouseTypeOK
<1>5. /\ section' = Unseen /\ airUpdates' = NoUpdates /\ sectionAsked' = NotAsked
      /\ mining' = NoMining /\ useRequested' = FALSE /\ useRest' = 0 /\ usingItem' = FALSE
      /\ release' = FALSE /\ queued' = {} /\ unsaid' = FALSE
      /\ world' \in Blocks /\ digs' = Nowhere /\ uses' = FALSE /\ creature' = FALSE
  BY DEF StartGame, Teleported
<1>6. MouseTypeOK'
  BY <1>1, <1>2, <1>3, <1>4, <1>5, NoUpdatesAtAll DEF MouseTypeOK
<1> QED BY <1>5, <1>6 DEF AgreesWithServer, SeesTheWorld, NothingLeftHeld

LEMMA ChunkStep ==
  ASSUME MouseConsistent, LevelChunk
  PROVE  MouseConsistent'
<1> USE DEF MouseConsistent
<1>1. /\ section' = (IF world = AllAir THEN Empty ELSE Full(world))
      /\ airUpdates' = NoUpdates /\ sectionAsked' = NotAsked
      /\ UNCHANGED <<mode, registry, mining, useRequested, useRest, release, queued, unsaid,
                     digs, uses, usingItem, world, creature, blocked, upsets>>
  BY DEF LevelChunk, hands, serverSide, around
<1>2. NotAsked \in NotAsked..RequestTime
  BY MouseBounds DEF NotAsked
<1>3. section' \in {Unseen, Empty} \union {Full(b) : b \in Blocks}
  BY <1>1 DEF MouseTypeOK
<1>4. MouseTypeOK'
  BY <1>1, <1>2, <1>3, NoUpdatesAtAll DEF MouseTypeOK
<1>5. SeesTheWorld'
  <2>1. Spread(NoUpdates) = AllAir
    BY NoUpdatesAtAll, SpreadIsWorld
  <2> QED BY <1>1, <2>1, SectionsDiffer DEF SeesTheWorld
<1>6. NothingLeftHeld'
  BY <1>1 DEF AgreesWithServer, NothingLeftHeld
<1> QED BY <1>1, <1>4, <1>5, <1>6 DEF AgreesWithServer

LEMMA SubchunkStep ==
  ASSUME MouseConsistent, Subchunk
  PROVE  MouseConsistent'
<1> USE DEF MouseConsistent
<1>1. /\ section' = Full(world) /\ sectionAsked' = NotAsked /\ registry
      /\ UNCHANGED <<mode, registry, airUpdates, mining, useRequested, useRest, release, queued, unsaid,
                     digs, uses, usingItem, world, creature, blocked, upsets>>
  BY DEF Subchunk, hands, serverSide, around
<1>2. NotAsked \in NotAsked..RequestTime
  BY MouseBounds DEF NotAsked
<1>3. section' \in {Full(b) : b \in Blocks}
  BY <1>1 DEF MouseTypeOK
<1>4. MouseTypeOK'
  BY <1>1, <1>2, <1>3 DEF MouseTypeOK
<1>5. SeesTheWorld'
  BY <1>1, SectionsDiffer DEF SeesTheWorld
<1>6. NothingLeftHeld'
  BY <1>1 DEF AgreesWithServer, NothingLeftHeld
<1> QED BY <1>1, <1>4, <1>5, <1>6 DEF AgreesWithServer

\* A block of the world changes, and its update is taken in.
LEMMA ChangesStep ==
  ASSUME MouseConsistent, NEW place \in Places, NEW kind \in Kinds \union {Air}, Changes(place, kind),
         UNCHANGED <<registry, mining, useRequested, release, queued, unsaid, uses>>
  PROVE  /\ world' \in Blocks /\ digs' \in Places \union {Nowhere}
         /\ section' \in {Unseen, Empty} \union {Full(b) : b \in Blocks} /\ airUpdates' \in Updates
         /\ DOMAIN airUpdates' # {} => section' = Empty /\ ~registry'
         /\ SeesTheWorld' /\ NothingLeftHeld'
<1> USE DEF MouseConsistent
<1>1. /\ world' = [world EXCEPT ![place] = kind] /\ Update(place, kind)
      /\ digs' = IF digs = place THEN Nowhere ELSE digs
  BY DEF Changes
<1>2. world' \in Blocks
  BY <1>1 DEF MouseTypeOK, Blocks
<1>3. digs' \in Places \union {Nowhere} /\ NothingLeftHeld'
  BY <1>1 DEF MouseTypeOK, AgreesWithServer, NothingLeftHeld
<1>4. /\ section' \in {Unseen, Empty} \union {Full(b) : b \in Blocks} /\ airUpdates' \in Updates
      /\ DOMAIN airUpdates' # {} => section' = Empty /\ ~registry'
      /\ SeesTheWorld'
  <2>1. CASE section = Unseen
    BY <1>1, <2>1 DEF Update, MouseTypeOK, SeesTheWorld
  <2>2. CASE section # Unseen /\ section = Empty /\ ~registry
    <3>1. Keep(WithUpdate(airUpdates, place, kind))
      BY <1>1, <2>2 DEF Update
    <3>2. /\ WithUpdate(airUpdates, place, kind) \in Updates
          /\ Spread(WithUpdate(airUpdates, place, kind)) = [Spread(airUpdates) EXCEPT ![place] = kind]
      BY WithUpdateSpreads DEF MouseTypeOK
    <3>3. world = Spread(airUpdates)
      BY <2>2 DEF AgreesWithServer, SeesTheWorld
    <3>4. CASE section' = Unseen /\ airUpdates' = NoUpdates
      BY <3>4, NoUpdatesAtAll DEF SeesTheWorld
    <3>5. CASE airUpdates' = WithUpdate(airUpdates, place, kind) /\ UNCHANGED section
      BY <1>1, <2>2, <3>2, <3>3, <3>5 DEF SeesTheWorld
    <3> QED BY <3>1, <3>4, <3>5 DEF Keep
  <2>3. CASE section # Unseen /\ ~(section = Empty /\ ~registry)
    <3>1. DOMAIN airUpdates = {}
      BY <2>3 DEF MouseTypeOK
    <3>2. Seen = world
      BY <2>3, <3>1, SeenIsSeen DEF AgreesWithServer
    <3>3. section' = Full(world') /\ airUpdates' = airUpdates
      BY <1>1, <2>3, <3>2 DEF Update
    <3> QED BY <1>2, <3>1, <3>3, SectionsDiffer DEF SeesTheWorld, MouseTypeOK
  <2> QED BY <2>1, <2>2, <2>3
<1> QED BY <1>2, <1>3, <1>4

LEMMA BlockChangesStep ==
  ASSUME MouseConsistent, BlockChanges
  PROVE  MouseConsistent'
<1> USE DEF MouseConsistent
<1>1. UNCHANGED <<mode, registry, sectionAsked, mining, useRequested, useRest, release, queued, unsaid,
                  uses, usingItem, creature, blocked>>
  BY DEF BlockChanges, hands
<1>2. upsets' \in 0..MaxUpsets
  BY MouseBounds DEF BlockChanges, Upset, MouseTypeOK
<1>3. PICK place \in Places, kind \in Kinds \union {Air} : Changes(place, kind)
  BY DEF BlockChanges, MouseTypeOK
<1>4. /\ world' \in Blocks /\ digs' \in Places \union {Nowhere}
      /\ section' \in {Unseen, Empty} \union {Full(b) : b \in Blocks} /\ airUpdates' \in Updates
      /\ DOMAIN airUpdates' # {} => section' = Empty /\ ~registry'
      /\ SeesTheWorld' /\ NothingLeftHeld'
  BY <1>1, <1>3, ChangesStep
<1>5. MouseTypeOK'
  BY <1>1, <1>2, <1>4 DEF MouseTypeOK
<1> QED BY <1>1, <1>4, <1>5 DEF AgreesWithServer

\* What stands around and what the server tells of the item used.
LEMMA AroundStep ==
  ASSUME MouseConsistent, Surroundings \/ TellsOfUse
  PROVE  MouseConsistent'
<1> USE DEF MouseConsistent
<1>1. UNCHANGED <<mode, registry, section, airUpdates, sectionAsked, mining, useRequested, useRest,
                  release, queued, unsaid, digs, uses, world>>
  BY DEF Surroundings, TellsOfUse, view, hands, serverSide, around
<1>2. upsets' \in 0..MaxUpsets /\ {usingItem', creature', blocked'} \subseteq BOOLEAN
  <2>1. CASE Surroundings
    <3>1. upsets' \in 0..MaxUpsets /\ usingItem' = usingItem
      BY <2>1, MouseBounds DEF Surroundings, serverSide, Upset, MouseTypeOK
    <3>2. creature' \in BOOLEAN /\ blocked' \in BOOLEAN
      BY <2>1 DEF Surroundings, MouseTypeOK
    <3> QED BY <3>1, <3>2 DEF MouseTypeOK
  <2>2. CASE TellsOfUse
    BY <2>2 DEF TellsOfUse, around, MouseTypeOK
  <2> QED BY <2>1, <2>2
<1>3. MouseTypeOK'
  BY <1>1, <1>2 DEF MouseTypeOK
<1> QED BY <1>1, <1>3 DEF AgreesWithServer, SeesTheWorld, NothingLeftHeld

LEMMA SettingsStep ==
  ASSUME MouseConsistent, Configures
  PROVE  MouseConsistent'
<1> USE DEF MouseConsistent
<1> DEFINE pending == release \/ (mode = "right" /\ useRequested)
<1>1. /\ mode' \in {"off", "left", "right"} /\ upsets' \in 0..MaxUpsets
      /\ queued' = queued \union ({mining.at} \ {Nowhere})
      /\ mining' = NoMining /\ useRequested' = FALSE /\ useRest' = 0
      /\ UNCHANGED <<unsaid, digs, usingItem, world, creature, blocked>>
  BY MouseBounds DEF Configures, LeavesBlock, around, Upset, MouseTypeOK
<1>2. \/ release' = FALSE /\ uses' = (uses /\ ~pending)
      \/ pending /\ release' = TRUE /\ UNCHANGED uses
  BY DEF Configures
<1>3. NotAsked \in NotAsked..RequestTime /\ 0 \in 0..(DigTime + RetryTime) /\ 0 \in 0..UseTime
  BY MouseBounds DEF NotAsked
<1>4. sectionAsked' \in NotAsked..RequestTime
  BY <1>3 DEF Configures, MouseTypeOK
<1>5. /\ registry' \in BOOLEAN /\ section' \in {Unseen, Empty} \union {Full(b) : b \in Blocks}
      /\ airUpdates' \in Updates /\ (DOMAIN airUpdates' # {} => section' = Empty /\ ~registry')
      /\ SeesTheWorld'
  <2>1. CASE UNCHANGED <<registry, section, airUpdates>>
    BY <1>1, <2>1 DEF MouseTypeOK, AgreesWithServer, SeesTheWorld
  <2>2. CASE NamesBlocks
    <3>1. registry' = TRUE /\ section' = Spelt(section, airUpdates) /\ airUpdates' = NoUpdates
      BY <2>2 DEF NamesBlocks
    <3>2. airUpdates \in Updates /\ Spread(airUpdates) \in Blocks /\ Spread(NoUpdates) = AllAir
      BY NoUpdatesAtAll, SpreadIsWorld DEF MouseTypeOK
    <3>3. CASE section = Empty /\ DOMAIN airUpdates # {}
      <4>1. section' = Full(Spread(airUpdates)) /\ world = Spread(airUpdates)
        BY <3>1, <3>3, SectionsDiffer DEF Spelt, AgreesWithServer, SeesTheWorld
      <4> QED BY <1>1, <3>1, <3>2, <4>1, NoUpdatesAtAll, SectionsDiffer DEF SeesTheWorld
    <3>4. CASE ~(section = Empty /\ DOMAIN airUpdates # {})
      <4>1. section' = section
        BY <3>1, <3>4 DEF Spelt
      <4>2. section = Empty => Spread(airUpdates) = AllAir
        BY <3>2, <3>4, SpreadIsWorld
      <4> QED BY <1>1, <3>1, <3>2, <4>1, <4>2, NoUpdatesAtAll DEF MouseTypeOK, AgreesWithServer, SeesTheWorld
    <3> QED BY <3>3, <3>4
  <2> QED BY <2>1, <2>2 DEF Configures
<1>6. queued' \subseteq Places
  BY <1>1 DEF MouseTypeOK
<1>7. mining' \in [at : Places \union {Nowhere}, kind : Kinds \union {Air}, left : 0..(DigTime + RetryTime)]
  BY <1>1, <1>3 DEF NoMining
<1>8. {release', uses'} \subseteq BOOLEAN
  BY <1>2 DEF MouseTypeOK
<1>9. MouseTypeOK'
  BY <1>1, <1>3, <1>4, <1>5, <1>6, <1>7, <1>8 DEF MouseTypeOK
<1>10. NothingLeftHeld'
  <2>1. digs' # Nowhere => digs' \in queued' \/ unsaid'
    BY <1>1 DEF AgreesWithServer, NothingLeftHeld
  <2>2. uses' => release'
    BY <1>2 DEF AgreesWithServer, NothingLeftHeld
  <2> QED BY <2>1, <2>2 DEF NothingLeftHeld
<1> QED BY <1>1, <1>5, <1>9, <1>10 DEF AgreesWithServer

\* Time only counts down.
LEMMA MouseTimeStep ==
  ASSUME MouseConsistent, MouseElapse
  PROVE  MouseConsistent'
<1> USE DEF MouseConsistent
<1>1. /\ mining' = [mining EXCEPT !.left = IF @ > 0 THEN @ - 1 ELSE @]
      /\ useRest' = (IF useRest > 0 THEN useRest - 1 ELSE useRest)
      /\ sectionAsked' = (IF sectionAsked \in 0..RequestTime - 1 THEN sectionAsked + 1 ELSE sectionAsked)
      /\ UNCHANGED <<mode, registry, section, airUpdates, useRequested, release, queued, unsaid,
                     digs, uses, usingItem, world, creature, blocked, upsets>>
  BY DEF MouseElapse, serverSide, around
<1>2. /\ DigTime \in Nat /\ RetryTime \in Nat /\ UseTime \in Nat /\ RequestTime \in Nat
      /\ mining.left \in 0..(DigTime + RetryTime) /\ useRest \in 0..UseTime /\ sectionAsked \in NotAsked..RequestTime
  BY MouseBounds DEF MouseTypeOK
<1>3. (IF mining.left > 0 THEN mining.left - 1 ELSE mining.left) \in 0..(DigTime + RetryTime)
  BY <1>2
<1>4. useRest' \in 0..UseTime
  BY <1>1, <1>2
<1>5. sectionAsked' \in NotAsked..RequestTime
  BY <1>1, <1>2 DEF NotAsked
<1>6. /\ mining' \in [at : Places \union {Nowhere}, kind : Kinds \union {Air}, left : 0..(DigTime + RetryTime)]
      /\ mining'.at = mining.at
  BY <1>1, <1>3 DEF MouseTypeOK
<1>7. MouseTypeOK'
  BY <1>1, <1>4, <1>5, <1>6 DEF MouseTypeOK
<1> QED BY <1>1, <1>6, <1>7 DEF AgreesWithServer, SeesTheWorld, NothingLeftHeld

\* What a packet that gets through leaves of the digging.
LEMMA PacketDigs ==
  ASSUME NEW went \in BOOLEAN, NEW aborts, NEW begun, Packet(went, aborts, begun)
  PROVE  /\ ~went => queued' = queued /\ digs' = digs
         /\ went => queued' = {}
         /\ went /\ begun # Nowhere => digs' = begun
         /\ went /\ begun = Nowhere => digs' = Nowhere \/ (digs' = digs /\ digs \notin queued \union aborts)
BY DEF Packet

\* The part of a tick that digs, uses or just sends leaves the types and what
\* bot and server agree on.
Hands ==
  /\ queued' \subseteq Places /\ digs' \in Places \union {Nowhere}
  /\ mining' \in [at : Places \union {Nowhere}, kind : Kinds \union {Air}, left : 0..(DigTime + RetryTime)]
  /\ useRest' \in 0..UseTime /\ {useRequested', unsaid', uses'} \subseteq BOOLEAN
  /\ digs' # Nowhere => mining'.at = digs' \/ digs' \in queued' \/ unsaid'
  /\ uses' => useRequested' \/ release'
  /\ useRequested' => mode = "right"

LEMMA JustSendsHands ==
  ASSUME MouseConsistent, NEW went \in BOOLEAN, NEW using \in BOOLEAN, using => useRequested \/ release',
         JustSends(went, using)
  PROVE  Hands
<1> USE DEF MouseConsistent
<1>1. /\ uses' = using /\ UNCHANGED <<mining, useRequested, useRest, unsaid>> /\ Packet(went, {}, Nowhere)
  BY DEF JustSends
<1>2. /\ ~went => queued' = queued /\ digs' = digs
      /\ went => queued' = {}
      /\ went => digs' = Nowhere \/ (digs' = digs /\ digs \notin queued)
  BY <1>1, PacketDigs
<1>3. queued' \subseteq Places /\ digs' \in Places \union {Nowhere}
  BY <1>2 DEF MouseTypeOK
<1>4. digs' # Nowhere => mining'.at = digs' \/ digs' \in queued' \/ unsaid'
  BY <1>1, <1>2 DEF AgreesWithServer, NothingLeftHeld
<1> QED BY <1>1, <1>3, <1>4 DEF Hands, MouseTypeOK

LEMMA CreatureHands ==
  ASSUME MouseConsistent, NEW went \in BOOLEAN, NEW using \in BOOLEAN, using => useRequested \/ release',
         MeetsCreature(went, using)
  PROVE  Hands
<1> USE DEF MouseConsistent
<1>1. /\ uses' = using /\ UNCHANGED <<useRequested, useRest, unsaid>>
      /\ Packet(went, {mining.at} \ {Nowhere}, Nowhere)
      /\ mining' = IF went THEN NoMining ELSE mining
  BY DEF MeetsCreature
<1>2. /\ ~went => queued' = queued /\ digs' = digs
      /\ went => queued' = {}
      /\ went => digs' = Nowhere \/ (digs' = digs /\ digs \notin queued \union ({mining.at} \ {Nowhere}))
  BY <1>1, PacketDigs
<1>3. queued' \subseteq Places /\ digs' \in Places \union {Nowhere}
  BY <1>2 DEF MouseTypeOK
<1>4. digs' # Nowhere => mining'.at = digs' \/ digs' \in queued' \/ unsaid'
  BY <1>1, <1>2 DEF AgreesWithServer, NothingLeftHeld
<1>5. 0 \in 0..(DigTime + RetryTime)
  BY MouseBounds
<1>6. mining' \in [at : Places \union {Nowhere}, kind : Kinds \union {Air}, left : 0..(DigTime + RetryTime)]
  BY <1>1, <1>5 DEF MouseTypeOK, NoMining
<1> QED BY <1>1, <1>3, <1>4, <1>6 DEF Hands, MouseTypeOK

LEMMA UsesItemHands ==
  ASSUME MouseConsistent, NEW went \in BOOLEAN, NEW using \in BOOLEAN, using => useRequested \/ release',
         UsesItem(went, using), mode = "right"
  PROVE  Hands
<1> USE DEF MouseConsistent
<1>1. /\ uses' = (using \/ went) /\ UNCHANGED <<mining, unsaid>> /\ Packet(went, {}, Nowhere)
      /\ \/ went /\ useRequested' = TRUE /\ useRest' = UseTime
         \/ ~went /\ UNCHANGED <<useRequested, useRest>>
  BY DEF UsesItem
<1>2. /\ ~went => queued' = queued /\ digs' = digs
      /\ went => queued' = {}
      /\ went => digs' = Nowhere \/ (digs' = digs /\ digs \notin queued)
  BY <1>1, PacketDigs
<1>3. queued' \subseteq Places /\ digs' \in Places \union {Nowhere}
  BY <1>2 DEF MouseTypeOK
<1>4. digs' # Nowhere => mining'.at = digs' \/ digs' \in queued' \/ unsaid'
  BY <1>1, <1>2 DEF AgreesWithServer, NothingLeftHeld
<1>5. useRest' \in 0..UseTime
  BY <1>1, MouseBounds DEF MouseTypeOK
<1>6. {useRequested', unsaid', uses'} \subseteq BOOLEAN
  BY <1>1 DEF MouseTypeOK
<1>7. uses' => useRequested' \/ release'
  BY <1>1
<1> QED BY <1>1, <1>3, <1>4, <1>5, <1>6, <1>7 DEF Hands, MouseTypeOK

\* Another block than the one that is dug is given up first, and what is dug then
\* is what the server is told of, unless the packet is lost.
LEMMA DigsHands ==
  ASSUME MouseConsistent, section # Unseen, NEW went \in BOOLEAN, NEW using \in BOOLEAN,
         using => useRequested \/ release', Digs(went, using)
  PROVE  Hands
<1> USE DEF MouseConsistent
<1> DEFINE other == /\ mining.at # Nowhere
                    /\ ~\E p \in Target : mining.at = p /\ mining.kind = Seen[p]
           going == IF other THEN NoMining ELSE mining
           aborts == IF other THEN {mining.at} ELSE {}
           begun == {[at |-> p, kind |-> Seen[p], left |-> DigTime] : p \in Target}
           Minings == [at : Places \union {Nowhere}, kind : Kinds \union {Air}, left : 0..(DigTime + RetryTime)]
<1>1. /\ uses' = using /\ UNCHANGED <<useRequested, useRest>>
      /\ unsaid' = IF went /\ mining' # going /\ going = NoMining THEN FALSE ELSE unsaid \/ (other /\ ~went)
  BY DEF Digs
<1>2. \/ /\ going = NoMining
         /\ \E new \in begun : mining' = (IF went THEN new ELSE NoMining) /\ Packet(went, aborts, new.at)
      \/ /\ mining' = IF went /\ going # NoMining /\ going.left = 0 THEN [going EXCEPT !.left = RetryTime] ELSE going
         /\ Packet(went, aborts, Nowhere)
  BY DEF Digs
<1>3. /\ DigTime \in 0..(DigTime + RetryTime) /\ RetryTime \in 0..(DigTime + RetryTime)
      /\ 0 \in 0..(DigTime + RetryTime)
  BY MouseBounds
<1>4. NoMining \in Minings /\ mining \in Minings /\ going \in Minings /\ NoMining.at = Nowhere
  BY <1>3 DEF NoMining, MouseTypeOK
<1>5. /\ digs # Nowhere => mining.at = digs \/ digs \in queued \/ unsaid
      /\ other => going = NoMining /\ aborts = {mining.at}
      /\ ~other => going = mining /\ aborts = {}
      /\ queued \subseteq Places /\ digs \in Places \union {Nowhere} /\ unsaid \in BOOLEAN
  BY DEF AgreesWithServer, NothingLeftHeld, MouseTypeOK
<1>6. unsaid' \in BOOLEAN
  BY <1>1, <1>5
<1>7. ASSUME going = NoMining,
             \E new \in begun : mining' = (IF went THEN new ELSE NoMining) /\ Packet(went, aborts, new.at)
      PROVE  /\ queued' \subseteq Places /\ digs' \in Places \union {Nowhere} /\ mining' \in Minings
             /\ digs' # Nowhere => mining'.at = digs' \/ digs' \in queued' \/ unsaid'
  <2>1. PICK p \in Target : /\ mining' = IF went THEN [at |-> p, kind |-> Seen[p], left |-> DigTime] ELSE NoMining
                            /\ Packet(went, aborts, p)
    BY <1>7
  <2>2. p \in Places /\ Seen[p] \in Kinds \union {Air}
    BY <2>1, SeenIsSeen DEF Target, Ahead, Blocks, AgreesWithServer
  <2>3. mining' \in Minings
    BY <1>3, <1>4, <2>1, <2>2
  <2>4. p # Nowhere
    BY <2>2, MouseBounds
  <2>5. /\ ~went => queued' = queued /\ digs' = digs
        /\ went => queued' = {} /\ digs' = p
    <3> HIDE DEF aborts
    <3> QED BY <2>1, <2>4, PacketDigs
  <2>6. CASE went
    BY <2>1, <2>2, <2>3, <2>5, <2>6
  <2>7. CASE ~went
    <3>1. mining' = NoMining /\ (unsaid' <=> unsaid \/ other)
      BY <1>1, <2>1, <2>7
    <3>2. ~other => mining.at = Nowhere
      BY <1>4, <1>5, <1>7
    <3> QED BY <1>5, <2>3, <2>5, <2>7, <3>1, <3>2
  <2> QED BY <2>6, <2>7
<1>8. ASSUME mining' = (IF went /\ going # NoMining /\ going.left = 0 THEN [going EXCEPT !.left = RetryTime] ELSE going),
             Packet(went, aborts, Nowhere)
      PROVE  /\ queued' \subseteq Places /\ digs' \in Places \union {Nowhere} /\ mining' \in Minings
             /\ digs' # Nowhere => mining'.at = digs' \/ digs' \in queued' \/ unsaid'
  <2>1. mining' \in Minings /\ mining'.at = going.at
    <3> HIDE DEF going
    <3> QED BY <1>3, <1>4, <1>8
  <2>2. /\ ~went => queued' = queued /\ digs' = digs
        /\ went => queued' = {}
        /\ went => digs' = Nowhere \/ (digs' = digs /\ digs \notin queued \union aborts)
    <3> HIDE DEF aborts
    <3> QED BY <1>8, PacketDigs
  <2>3. going = NoMining => mining' = going
    BY <1>8
  <2>4. unsaid' <=> unsaid \/ (other /\ ~went)
    <3> HIDE DEF going, other
    <3> QED BY <1>1, <1>5, <2>3
  <2>5. queued' \subseteq Places /\ digs' \in Places \union {Nowhere}
    <3> HIDE DEF aborts
    <3> QED BY <1>5, <2>2
  <2>6. CASE other
    <3> HIDE DEF other, going, aborts
    <3> QED BY <1>5, <2>1, <2>2, <2>4, <2>5, <2>6
  <2>7. CASE ~other
    <3> HIDE DEF other, going, aborts
    <3> QED BY <1>5, <2>1, <2>2, <2>4, <2>5, <2>7
  <2> QED BY <2>6, <2>7
<1>9. /\ queued' \subseteq Places /\ digs' \in Places \union {Nowhere} /\ mining' \in Minings
      /\ digs' # Nowhere => mining'.at = digs' \/ digs' \in queued' \/ unsaid'
  BY <1>2, <1>7, <1>8
<1> QED BY <1>1, <1>6, <1>9 DEF Hands, MouseTypeOK

LEMMA MouseTickStep ==
  ASSUME MouseConsistent, MouseTick
  PROVE  MouseConsistent'
<1> USE DEF MouseConsistent
<1>1. PICK flushed \in BOOLEAN, went \in BOOLEAN :
        /\ flushed \/ release
        /\ upsets' = upsets + (IF flushed THEN 0 ELSE 1) + (IF went THEN 0 ELSE 1)
        /\ upsets' <= MaxUpsets
        /\ release' = ~flushed
        /\ Acts(went, uses /\ ~(release /\ flushed))
  BY DEF MouseTick
<1>2. UNCHANGED <<mode, registry, section, airUpdates, usingItem, world, creature, blocked>>
  BY DEF MouseTick, around
<1>3. PICK using : using = (uses /\ ~(release /\ flushed))
  OBVIOUS
<1>4. using \in BOOLEAN /\ (using => useRequested \/ release')
  BY <1>1, <1>3 DEF AgreesWithServer, NothingLeftHeld
<1>5. Acts(went, using)
  BY <1>1, <1>3
<1>6. Hands
  <2>1. CASE JustSends(went, using)
    BY <1>4, <2>1, JustSendsHands
  <2>2. CASE MeetsCreature(went, using)
    BY <1>4, <2>2, CreatureHands
  <2>3. CASE Digs(went, using) /\ section # Unseen
    BY <1>4, <2>3, DigsHands
  <2>4. CASE UsesItem(went, using) /\ mode # "off" /\ mode # "left"
    BY <1>4, <2>4, UsesItemHands DEF MouseTypeOK
  <2> QED BY <1>5, <2>1, <2>2, <2>3, <2>4 DEF Acts, Inactive
<1>7. upsets \in Nat /\ MaxUpsets \in Nat
  BY MouseBounds DEF MouseTypeOK
<1>8. upsets' \in 0..MaxUpsets
  BY <1>1, <1>7
<1>9. sectionAsked' \in NotAsked..RequestTime
  <2>1. sectionAsked' = 0 \/ sectionAsked' = sectionAsked
    BY DEF MouseTick, Requests
  <2>2. 0 \in NotAsked..RequestTime
    BY MouseBounds DEF NotAsked
  <2> QED BY <2>1, <2>2 DEF MouseTypeOK
<1>10. release' \in BOOLEAN
  BY <1>1
<1>11. MouseTypeOK'
  BY <1>2, <1>6, <1>8, <1>9, <1>10 DEF MouseTypeOK, Hands
<1>12. SeesTheWorld' /\ NothingLeftHeld'
  BY <1>2, <1>6 DEF Hands, AgreesWithServer, SeesTheWorld, NothingLeftHeld
<1> QED BY <1>2, <1>6, <1>11, <1>12 DEF Hands, AgreesWithServer

LEMMA MouseStep ==
  ASSUME MouseConsistent, [MouseNext]_mouseVars
  PROVE  MouseConsistent'
<1>1. CASE MouseNext
  BY <1>1, MouseAnew, ChunkStep, SubchunkStep, BlockChangesStep, AroundStep, SettingsStep, MouseTickStep, MouseTimeStep
     DEF MouseNext
<1>2. CASE UNCHANGED mouseVars
  BY <1>2 DEF mouseVars, MouseConsistent, MouseTypeOK, AgreesWithServer, SeesTheWorld, NothingLeftHeld
<1> QED BY <1>1, <1>2

-----------------------------------------------------------------------------
(***************************************************************************)
(* The parts together.                                                     *)
(***************************************************************************)

\* Every step of the composition is a step of each of its parts, or leaves it
\* alone.
LEMMA BedrockStep ==
  ASSUME [BedrockNext]_bedrockVars
  PROVE  /\ [ClientNext]_clientVars /\ [BedrockSellingNext]_sellingVars
         /\ [CrouchNext]_crouchVars /\ [MouseNext]_mouseVars
BY DEF BedrockNext, bedrockVars

BedrockConsistent == ClientConsistent /\ SellingConsistent /\ CrouchTypeOK /\ MouseConsistent

\* The inductive invariants of the four parts hold together, whatever the
\* server sends, in which order, and whichever packets are lost.
THEOREM BedrockAlwaysConsistent == BedrockSpec => []BedrockConsistent
<1>1. BedrockInit => BedrockConsistent
  BY ClientStarts, SellingStarts, CrouchStarts, MouseStarts DEF BedrockInit, BedrockConsistent
<1>2. BedrockConsistent /\ [BedrockNext]_bedrockVars => BedrockConsistent'
  BY BedrockStep, ClientStep, SellingStep, CrouchStep, MouseStep DEF BedrockConsistent
<1> QED BY <1>1, <1>2, PTL DEF BedrockSpec

\* The variables of the four parts have their types, whatever the constants.
THEOREM BedrockTypeCorrect == BedrockSpec => []BedrockTypeOK
<1>1. BedrockConsistent => BedrockTypeOK
  BY DEF BedrockConsistent, BedrockTypeOK, ClientConsistent, SellingConsistent, MouseConsistent
<1> QED BY <1>1, BedrockAlwaysConsistent, PTL

\* The section the bot knows is the server's, in whatever order chunks, answers,
\* updates and the names of the blocks come, and the server's player holds no
\* button that the bot has let go of.
THEOREM AlwaysAgreesWithServer == BedrockSpec => []AgreesWithServer
<1>1. BedrockConsistent => AgreesWithServer
  BY DEF BedrockConsistent, MouseConsistent
<1> QED BY <1>1, BedrockAlwaysConsistent, PTL

\* A transfer begins only in the menu that answers the sale's own command, or in one
\* that nobody waits for any more and that opens while the sale waits for its own;
\* in any other only if that is a sell menu, and never in the menu of a reading under
\* way, or in one that answers a command of the user's within the 5 s after it, unless
\* a reading or a join has ended its guard. And none begins from an inventory of which
\* a packet was lost (the safety part of SalesGoWell).
THEOREM AlwaysFillsOwnMenus == BedrockSpec => FillsOwnMenus
<1>1. BedrockConsistent /\ [BedrockNext]_bedrockVars
        => [TransferBegins => Rightful(sale'.menu) /\ ~lost]_sellingVars
  BY BedrockStep, SellingStep DEF BedrockConsistent
<1> QED BY <1>1, BedrockAlwaysConsistent, PTL DEF BedrockSpec, FillsOwnMenus

\* The process ends only after it has told why, or because it was ordered to
\* (the safety part of JoinEnds).
THEOREM EndAlwaysExplained == BedrockSpec => [](exiting => told # {} \/ obeyed)
<1>1. BedrockConsistent => (exiting => told # {} \/ obeyed)
  BY DEF BedrockConsistent, ClientConsistent, EndIsExplained
<1> QED BY <1>1, BedrockAlwaysConsistent, PTL

=============================================================================
