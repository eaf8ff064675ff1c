---------------------------- MODULE NativeSelling ----------------------------
(***************************************************************************)
(* Selling by the plugin of the shared bot service: the game thread of one *)
(* bot (NativeAutoSell.java, SellLease, SellRecovery, SellTransfers), the  *)
(* controller that renews its lease and holds it back while a command of   *)
(* the user runs (soulfire/session.ts, runCommand of behaviors.ts), and    *)
(* the Minecraft server, which opens menus late, or not at all.            *)
(*                                                                         *)
(* Time is discrete, and every variable that measures it counts down, or   *)
(* up to the age from which nothing changes any more. The server is        *)
(* external: it answers commands in order, and may ignore one or close a   *)
(* menu. The bot always has something to sell. A controller that died is   *)
(* one that does nothing any more.                                         *)
(* A menu is named for what it answers; to the plugin a sale menu of       *)
(* its own and one of the user look the same.                              *)
(***************************************************************************)
EXTENDS Integers, Sequences

CONSTANTS
  LeaseMax,     \* how long a renewed lease lasts at most (90 s)
  ManualWindow, \* how long a command of the user holds selling back (5 s)
  ReplyWait,    \* after this time a request without menu is given up (3 s)
  Recognise,    \* until this age a sale menu may be the answer (15 s)
  Stall,        \* a transfer unconfirmed for this time ends the sale (5 s)
  Rest,         \* the pause after a rejection
  Interval,     \* the time between two sales
  Slots,        \* stacks to visit in one sale
  MaxAsked      \* bound: commands the server has not answered

ASSUME NativeSellingAssumption ==
  /\ {LeaseMax, ManualWindow, ReplyWait, Recognise, Stall, Rest, Interval, Slots, MaxAsked} \subseteq Nat \ {0}
  /\ ReplyWait < Recognise

VARIABLES
  renewal,   \* how long the renewal under way would last, or None
  lease,     \* time left of the lease
  unheard,   \* history: time since the controller sent a renewal
  allowed,   \* native-auto-sell, and sell-home-pending or a scheduled pause
  manual,    \* time left of sell-manual-until
  command,   \* the stage of the user's command
  asked,     \* commands the server has not answered, oldest first
  menu,      \* the menu that is open: what it answers, whether its contents
             \* have arrived; history: whether a sale menu was waited for then
  waiting,   \* State.waiting: a sale was asked for and has not ended
  age,       \* time since State.requested
  selling,   \* State.sellingMenu: the open menu, another one, or none
  left,      \* stacks not yet visited
  moving,    \* transfers not confirmed
  stalled,   \* age of the oldest of them
  rest,      \* time left of SellRecovery's pause
  nextIn     \* time until State.next

sellVars == <<renewal, lease, unheard, allowed, manual, command, asked, menu, waiting, age,
              selling, left, moving, stalled, rest, nextIn>>

control == <<renewal, lease, unheard>>
settings == <<allowed, manual>>
sale == <<left, moving, stalled>>

None == -1
SaleMenus == {"native", "manual"}
NoMenu == [of |-> "none", ready |-> FALSE, awaited |-> FALSE]
OpenMenus == [of : SaleMenus \union {"foreign"}, ready : BOOLEAN, awaited : BOOLEAN]
Less(t) == IF t > 0 THEN t - 1 ELSE t
Older(t, limit) == IF t < limit THEN t + 1 ELSE t
Later(a, b) == IF a < b THEN b ELSE a

SellTypeOK ==
  /\ waiting \in BOOLEAN
  /\ renewal \in None..LeaseMax
  /\ lease \in 0..LeaseMax /\ unheard \in 0..LeaseMax
  /\ allowed \in {"yes", "barred", "off"} /\ manual \in 0..ManualWindow
  /\ command \in {"none", "close", "send"}
  /\ asked \in Seq(SaleMenus \union {"foreign"}) /\ Len(asked) <= MaxAsked
  /\ menu \in {NoMenu} \union OpenMenus
  /\ age \in 0..Recognise /\ selling \in {"none", "current", "other"}
  /\ left \in 0..Slots /\ moving \in 0..Slots /\ stalled \in 0..Stall
  /\ rest \in 0..Rest /\ nextIn \in 0..Later(Rest, Interval)
  /\ selling = "current" => menu.of \in SaleMenus

SellInit ==
  /\ renewal = None /\ lease = 0 /\ unheard = LeaseMax
  /\ allowed = "yes" /\ manual = 0
  /\ command = "none" /\ asked = <<>>
  /\ menu = NoMenu /\ waiting = FALSE /\ age = Recognise /\ selling = "none"
  /\ left = 0 /\ moving = 0 /\ stalled = 0 /\ rest = 0 /\ nextIn = 0

-----------------------------------------------------------------------------
(***************************************************************************)
(* The controller and its settings.                                        *)
(***************************************************************************)

game == <<asked, menu, waiting, age, selling, left, moving, stalled, rest, nextIn>>

\* renewSellLease names the time until which the lease is to last.
SendRenewal ==
  /\ allowed # "off" /\ renewal = None
  /\ renewal' = LeaseMax
  /\ unheard' = 0
  /\ UNCHANGED <<lease, settings, command, game>>

\* Faulty: the lease lasts from when it arrives.
RenewOnArrival ==
  /\ renewal # None
  /\ lease' = LeaseMax
  /\ renewal' = None
  /\ UNCHANGED <<unheard, settings, command, game>>

\* SellLease.renew: what is past removes the lease.
Renew ==
  /\ renewal # None
  /\ lease' = renewal
  /\ renewal' = None
  /\ UNCHANGED <<unheard, settings, command, game>>

LoseRenewal ==
  /\ renewal # None
  /\ renewal' = None
  /\ UNCHANGED <<lease, unheard, settings, command, game>>

\* A setting is changed: another configuration forgets the sale asked for.
Configure ==
  /\ allowed' = IF allowed = "off" THEN "yes" ELSE "off"
  /\ waiting' = FALSE /\ nextIn' = 0
  /\ UNCHANGED <<control, manual, command, asked, menu, age, selling, sale, rest>>

\* A pause begins or ends, or the way home.
Bar ==
  /\ allowed # "off"
  /\ allowed' = IF allowed = "yes" THEN "barred" ELSE "yes"
  /\ UNCHANGED <<control, manual, command, game>>

\* runCommand: selling is held back, an open menu is closed, and the command
\* is sent. The answer to some commands is a menu.
Suspend ==
  /\ command = "none"
  /\ manual' = IF allowed # "off" THEN ManualWindow ELSE manual
  /\ command' = "close"
  /\ UNCHANGED <<control, allowed, game>>

CloseForCommand ==
  /\ command = "close"
  /\ command' = "send"
  /\ menu' = NoMenu
  /\ selling' = IF selling = "current" THEN "other" ELSE selling
  /\ UNCHANGED <<control, settings, asked, waiting, age, sale, rest, nextIn>>

SendCommand ==
  /\ command = "send" /\ Len(asked) < MaxAsked
  /\ command' = "none"
  /\ \E answer \in {"manual", "foreign"} : asked' = Append(asked, answer)
  /\ UNCHANGED <<control, settings, menu, waiting, age, selling, sale, rest, nextIn>>

-----------------------------------------------------------------------------
(***************************************************************************)
(* The Minecraft server and the packets it sends.                          *)
(***************************************************************************)

\* opened: a sale menu that may be the answer belongs to the sale if one is
\* waited for; otherwise it is closed, unless a command holds selling back.
OpenMenu ==
  /\ asked # <<>>
  /\ asked' = Tail(asked)
  /\ LET kind == Head(asked)
         recognised == kind \in SaleMenus /\ age < Recognise
         awaited == kind = "manual" /\ waiting
     IN /\ menu' = IF recognised /\ ~waiting /\ manual = 0 THEN NoMenu
                   ELSE [of |-> kind, ready |-> FALSE, awaited |-> awaited]
        /\ selling' = IF recognised /\ waiting THEN "current"
                      ELSE IF selling = "current" THEN "other" ELSE selling
        /\ IF recognised /\ waiting
           THEN left' = Slots /\ moving' = 0 /\ stalled' = 0 ELSE UNCHANGED sale
  /\ UNCHANGED <<control, settings, command, waiting, age, rest, nextIn>>

IgnoreCommand ==
  /\ asked # <<>>
  /\ asked' = Tail(asked)
  /\ UNCHANGED <<control, settings, command, menu, waiting, age, selling, sale, rest,
                 nextIn>>

Answers == OpenMenu \/ IgnoreCommand

\* The server or the user's client closes what is open.
CloseMenu ==
  /\ menu # NoMenu
  /\ menu' = NoMenu
  /\ selling' = IF selling = "current" THEN "other" ELSE selling
  /\ UNCHANGED <<control, settings, command, asked, waiting, age, sale, rest, nextIn>>

\* inventoryAck with a menu's contents.
Content ==
  /\ menu.of \in SaleMenus /\ ~menu.ready
  /\ menu' = [menu EXCEPT !.ready = TRUE]
  /\ UNCHANGED <<control, settings, command, asked, waiting, age, selling, sale, rest,
                 nextIn>>

\* A slot or a payout confirms a transfer; the next one is the oldest then.
Confirm ==
  /\ moving > 0
  /\ moving' = moving - 1 /\ stalled' = 0
  /\ UNCHANGED <<control, settings, command, asked, menu, waiting, age, selling, left,
                 rest, nextIn>>

\* The server refuses: the inventory is being saved or loaded.
Reject ==
  /\ rest' = Rest
  /\ UNCHANGED <<control, settings, command, asked, menu, waiting, age, selling, sale,
                 nextIn>>

-----------------------------------------------------------------------------
(***************************************************************************)
(* The game thread.                                                        *)
(***************************************************************************)

\* cancel: the menu being sold in is closed; a request is kept for a while.
Cancel ==
  /\ menu' = IF selling = "current" THEN NoMenu ELSE menu
  /\ waiting' = (waiting /\ age < ReplyWait /\ selling = "none")
  /\ selling' = "none"
  /\ left' = 0 /\ moving' = 0 /\ stalled' = 0

\* A bot that has moved sells nothing for a while.
Teleported ==
  /\ Cancel
  /\ nextIn' = Later(nextIn, Interval)
  /\ UNCHANGED <<control, settings, command, asked, age, rest>>

HeldBack == allowed # "yes" \/ lease = 0 \/ manual > 0 \/ rest > 0

TickHeldBack ==
  /\ HeldBack
  /\ Cancel
  /\ nextIn' = Later(nextIn, rest)
  /\ UNCHANGED <<control, settings, command, asked, age, rest>>

\* The open menu is a sale menu that is waited for or being sold in.
IsOwn == menu.of \in SaleMenus /\ (waiting \/ selling = "current")

\* The sale has lasted too long, or a transfer was not confirmed in time.
TickGivesUp ==
  /\ ~HeldBack /\ IsOwn
  /\ age >= Recognise \/ (selling = "current" /\ menu.ready /\ moving > 0 /\ stalled >= Stall)
  /\ rest' = Rest
  /\ Cancel
  /\ UNCHANGED <<control, settings, command, asked, age, nextIn>>

\* The menu becomes the one being sold in.
TickTakes ==
  /\ ~HeldBack /\ IsOwn /\ age < Recognise /\ selling # "current"
  /\ selling' = "current" /\ left' = Slots /\ moving' = 0 /\ stalled' = 0
  /\ UNCHANGED <<control, settings, command, asked, menu, waiting, age, rest, nextIn>>

Selling == ~HeldBack /\ IsOwn /\ age < Recognise /\ selling = "current" /\ menu.ready

\* Some stacks are moved, as far as the window of unconfirmed ones allows.
TickMoves ==
  /\ Selling /\ ~(moving > 0 /\ stalled >= Stall) /\ left > 0
  /\ \E n \in 1..left : \E filled \in 0..n :
       /\ left' = left - n
       /\ moving' = moving + filled
       /\ stalled' = IF moving = 0 THEN 0 ELSE stalled
  /\ UNCHANGED <<control, settings, command, asked, menu, waiting, age, selling, rest,
                 nextIn>>

\* All stacks visited and confirmed: the menu is closed.
TickCloses ==
  /\ Selling /\ left = 0 /\ moving = 0
  /\ menu' = NoMenu /\ selling' = "none" /\ waiting' = FALSE
  /\ UNCHANGED <<control, settings, command, asked, age, sale, rest, nextIn>>

\* No menu came in time.
GivesUpWaiting == waiting /\ age >= ReplyWait

TickGivesUpWaiting ==
  /\ ~HeldBack /\ menu = NoMenu /\ GivesUpWaiting
  /\ waiting' = FALSE /\ selling' = "none"
  /\ rest' = Rest /\ nextIn' = Later(nextIn, Rest)
  /\ UNCHANGED <<control, settings, command, asked, menu, age, sale>>

\* Without an open menu there is none being sold in.
TickForgets ==
  /\ ~HeldBack /\ menu = NoMenu /\ selling # "none" /\ waiting /\ age < ReplyWait
  /\ selling' = "none"
  /\ UNCHANGED <<control, settings, command, asked, menu, waiting, age, sale, rest,
                 nextIn>>

\* The next sale is asked for. It is not typed through an open menu.
TickAsks ==
  /\ ~HeldBack /\ menu = NoMenu /\ ~waiting /\ nextIn = 0 /\ Len(asked) < MaxAsked
  /\ waiting' = TRUE /\ age' = 0 /\ nextIn' = Interval /\ selling' = "none"
  /\ asked' = Append(asked, "native")
  /\ UNCHANGED <<control, settings, command, menu, sale, rest>>

GameTick ==
  \/ TickHeldBack \/ TickGivesUp \/ TickTakes \/ TickMoves \/ TickCloses
  \/ TickGivesUpWaiting \/ TickForgets \/ TickAsks

SellingElapses ==
  /\ renewal' = Less(renewal)
  /\ lease' = Less(lease) /\ unheard' = Older(unheard, LeaseMax)
  /\ manual' = Less(manual) /\ rest' = Less(rest) /\ nextIn' = Less(nextIn)
  /\ age' = Older(age, Recognise)
  /\ stalled' = IF moving > 0 THEN Older(stalled, Stall) ELSE stalled
  /\ UNCHANGED <<allowed, command, asked, menu, waiting, selling, left,
                 moving>>

SellNext ==
  \/ SendRenewal \/ Renew \/ LoseRenewal
  \/ Configure \/ Bar \/ Suspend \/ CloseForCommand \/ SendCommand
  \/ OpenMenu \/ IgnoreCommand \/ CloseMenu \/ Content \/ Confirm \/ Reject
  \/ Teleported
  \/ TickHeldBack \/ TickGivesUp \/ TickTakes \/ TickMoves \/ TickCloses
  \/ TickGivesUpWaiting \/ TickForgets \/ TickAsks
  \/ SellingElapses

-----------------------------------------------------------------------------
(***************************************************************************)
(* What must hold.                                                         *)
(***************************************************************************)

\* Once a controller has not renewed the lease for its whole length, because it
\* died or cannot reach the service, no sale is asked for and no stack moved,
\* however late its last renewal arrived.
SellsOnlyForController ==
  [][ (waiting' /\ ~waiting) \/ moving' > moving => unheard < LeaseMax ]_sellVars

\* The plugin moves nothing out of an open menu that answers a command of the user,
\* a sale menu or another, and does not close it, however late it opened and
\* whatever pauses, teleports and sales of its own come while it is open; unless it
\* is a sale menu that opened while one was waited for, which the plugin takes for
\* its own. One that opens late is either closed at once, in the opening, or left.
LeavesManualMenus ==
  [][ menu.of \in {"manual", "foreign"} /\ ~menu.awaited =>
        /\ moving' <= moving
        /\ GameTick => menu' = menu ]_sellVars

\* The plugin can sell: it may, and no menu of another's is open, nor one of
\* its own that it took for the user's.
CanSell ==
  /\ allowed = "yes" /\ lease > 0 /\ manual = 0
  /\ menu.of = "native" => waiting \/ selling = "current"
  /\ menu.of \notin {"manual", "foreign"}

\* While the plugin can sell it asks for sales again and again, though menus do
\* not come, close early or never confirm a transfer: once the server no longer
\* moves the bot and rejects nothing more.
GoesOnSelling ==
  <>[]CanSell /\ <>[][~Reject /\ ~Teleported]_sellVars => []<>(waiting /\ age = 0)

\* The plugin sells by right, for a controller that lives and from its own menus,
\* and sells again and again while it can.
SellsByRight == SellsOnlyForController /\ LeavesManualMenus /\ GoesOnSelling
=============================================================================
