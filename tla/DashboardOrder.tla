---------------------------- MODULE DashboardOrder ----------------------------
(***************************************************************************)
(* The order of the cards on the dashboard (pages/DashboardPage.tsx): an   *)
(* admin sees the accounts by uploader, and may move an account among its  *)
(* siblings and a category among the categories. Both orders are lists of  *)
(* ids in the preferences that need not know every account or uploader:    *)
(* accounts, users and uploads come and go with each reading of the list.  *)
(* A client of the API can replace the order of the accounts at once.      *)
(*                                                                         *)
(* Cards and uploaders are numbers in the order the list has them without  *)
(* preferences; accounts without an uploader belong to the last category.  *)
(* The preferences are as the server has them: a page that is behind with  *)
(* them, or whose move is refused, is the module Profile.                  *)
(***************************************************************************)
EXTENDS Naturals, FiniteSets, Sequences, SequencesExt, Functions

CONSTANTS
  UploaderOf,  \* the uploader of each card
  LastCategory,\* "unassigned"
  MaxMoves,    \* bound: moves
  MaxArrivals, \* bound: readings of the list
  MaxOrders    \* bound: orders sent by clients of the API

ASSUME DashboardOrderAssumption ==
  /\ MaxMoves \in Nat
  /\ MaxArrivals \in Nat
  /\ MaxOrders \in Nat
  /\ \A c \in DOMAIN UploaderOf : UploaderOf[c] \in 1..LastCategory

Cards == DOMAIN UploaderOf

VARIABLES
  accounts,      \* the cards of the list shown
  uploaders,     \* the website users read with it
  accountOrder,  \* preferences.accountOrder
  uploaderOrder, \* preferences.uploaderOrder
  moves,         \* moves so far
  arrivals,      \* readings of the list so far
  orders         \* orders sent so far

orderVars == <<accounts, uploaders, accountOrder, uploaderOrder, moves, arrivals, orders>>

OrderTypeOK ==
  /\ accounts \subseteq Cards
  /\ uploaders \subseteq 1..(LastCategory - 1)
  /\ accountOrder \in Seq(Cards)
  /\ uploaderOrder \in Seq(1..LastCategory)
  /\ moves \in 0..MaxMoves
  /\ arrivals \in 0..MaxArrivals
  /\ orders \in 0..MaxOrders

OrderInit ==
  /\ accounts = Cards
  /\ uploaders = 1..(LastCategory - 1)
  /\ accountOrder = <<>> /\ uploaderOrder = <<>>
  /\ moves = 0 /\ arrivals = 0 /\ orders = 0

-----------------------------------------------------------------------------
\* The members of S, those that have a rank before the others.
Ranked(S, ranks) ==
  SelectSeq(ranks, LAMBDA x : x \in S)
    \o SetToSortSeq(S \ {ranks[i] : i \in DOMAIN ranks}, LAMBDA x, y : x < y)

OrderedAccounts == Ranked(accounts, accountOrder)

\* uploaderGroups: an uploader without uploads has a category, and an account
\* whose creator was not read.
Categories == Ranked(uploaders \union {UploaderOf[c] : c \in accounts}, uploaderOrder)

InCategory(g) == SelectSeq(OrderedAccounts, LAMBDA c : UploaderOf[c] = g)

IndexOf(s, x) == CHOOSE i \in DOMAIN s : s[i] = x
Swapped(s, i, j) == [s EXCEPT ![i] = s[j], ![j] = s[i]]
Neighbours(i) == {i - 1, i + 1}

\* updatePreferences: the ranks of accounts the user may not see now are kept,
\* after those of the accounts seen.
Stored(order, seen) == order \o SelectSeq(accountOrder, LAMBDA c : c \notin seen)

\* Faulty: the card changes places with its neighbour among all accounts.
MoveAccountAmongAll(c) ==
  LET i == IndexOf(OrderedAccounts, c) IN
  \E j \in Neighbours(i) \intersect DOMAIN OrderedAccounts :
    accountOrder' = Stored(Swapped(OrderedAccounts, i, j), accounts)

\* moveAccount: the card changes places with its neighbour among its siblings.
MoveAccount(c) ==
  LET siblings == InCategory(UploaderOf[c]) IN
  \E j \in Neighbours(IndexOf(siblings, c)) \intersect DOMAIN siblings :
    accountOrder' = Stored(Swapped(OrderedAccounts, IndexOf(OrderedAccounts, c),
                                   IndexOf(OrderedAccounts, siblings[j])), accounts)

MovesAccount ==
  /\ moves < MaxMoves
  /\ moves' = moves + 1
  /\ \E c \in accounts : MoveAccount(c)
  /\ UNCHANGED <<accounts, uploaders, uploaderOrder, arrivals, orders>>

MoveCategory(g) ==
  LET i == IndexOf(Categories, g) IN
  \E j \in Neighbours(i) \intersect DOMAIN Categories :
    uploaderOrder' = Swapped(Categories, i, j)

MovesCategory ==
  /\ moves < MaxMoves
  /\ moves' = moves + 1
  /\ \E i \in DOMAIN Categories : MoveCategory(Categories[i])
  /\ UNCHANGED <<accounts, uploaders, accountOrder, arrivals, orders>>

\* load: accounts and users are read by two requests, each at its own time.
NewListShown ==
  /\ arrivals < MaxArrivals
  /\ arrivals' = arrivals + 1
  /\ accounts' \in SUBSET Cards
  /\ uploaders' \in SUBSET (1..(LastCategory - 1))
  /\ UNCHANGED <<accountOrder, uploaderOrder, moves, orders>>

\* reorderAccountsForSession: the order must name every account the user may
\* see by now, once.
ReorderAccounts(ids, visible) ==
  /\ Len(ids) = Cardinality(visible) /\ IsInjective(ids) /\ visible \subseteq ToSet(ids)
  /\ accountOrder' = Stored(ids, visible)

\* PUT /reorder, by a client that is not this page; a refused order does nothing.
OrderSent ==
  /\ orders < MaxOrders
  /\ orders' = orders + 1
  /\ \E visible \in SUBSET Cards :
       \E ids \in [1..Cardinality(visible) -> Cards] : ReorderAccounts(ids, visible)
  /\ UNCHANGED <<accounts, uploaders, uploaderOrder, moves, arrivals>>

OrderNext == MovesAccount \/ MovesCategory \/ NewListShown \/ OrderSent

-----------------------------------------------------------------------------
(***************************************************************************)
(* What must hold.                                                         *)
(***************************************************************************)
SameButNeighbours(s, t) ==
  t = s \/ \E i \in 1..(Len(s) - 1) : t = Swapped(s, i, i + 1)

AsBefore(s, t, S, T) ==
  SelectSeq(t, LAMBDA x : x \in S) = SelectSeq(s, LAMBDA x : x \in T)

\* A move changes the places of two neighbours of one category, or of two
\* categories, and nothing else that is shown, wherever the list keeps the cards
\* between them and whichever are unknown to the preferences; and when accounts
\* and uploaders come and go, those that stay are shown in the order they had.
\* An order sent by another client moves no category, and no account is ever
\* ranked twice, whichever were out of sight when the ranks were given.
OnlyNeighboursMove ==
  /\ []IsInjective(accountOrder)
  /\ [][ /\ moves' # moves =>
              /\ SameButNeighbours(Categories, Categories')
              /\ \A g \in 1..LastCategory : SameButNeighbours(InCategory(g), InCategory(g)')
              /\ Categories' = Categories \/ \A g \in 1..LastCategory : InCategory(g)' = InCategory(g)
              /\ \A g, h \in 1..LastCategory :
                   InCategory(g)' # InCategory(g) /\ InCategory(h)' # InCategory(h) => g = h
              /\ Categories' # Categories \/ \E g \in 1..LastCategory : InCategory(g)' # InCategory(g)
         /\ arrivals' # arrivals =>
              /\ AsBefore(OrderedAccounts, OrderedAccounts', accounts, accounts')
              /\ AsBefore(Categories, Categories', ToSet(Categories), ToSet(Categories'))
         /\ orders' # orders => ToSet(OrderedAccounts') = accounts /\ Categories' = Categories ]_orderVars
=============================================================================
