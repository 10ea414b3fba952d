----------------------------- MODULE OrderBook -----------------------------
(***************************************************************************)
(* What orders_db promises to whoever reads orders through the API: an     *)
(* order appears at once, with all its items and their total, priced by    *)
(* one list of prices, and never changes; every order in an answer is one  *)
(* of the book.  OrderStore implements this specification.                 *)
(***************************************************************************)
EXTENDS Naturals, SequencesExt

CONSTANTS
  Orders, Products, Prices, Readers,
  Items,          \* request.Items of each order: a sequence of lines
  MaxCents,
  NoRow

VARIABLES
  book,           \* the orders
  answer          \* what each reader was answered last

bookVars == <<book, answer>>

Priced(o, prices) ==
  [i \in DOMAIN Items[o] |-> [product |-> Items[o][i].product,
                              quantity |-> Items[o][i].quantity,
                              price |-> prices[Items[o][i].product]]]

Total(items) ==
  FoldLeft(LAMBDA sum, item : sum + item.quantity * item.price, 0, items)

Entry(o) == [order |-> o, items |-> book[o].items, total |-> book[o].total]

Entries == {Entry(o) : o \in {n \in Orders : book[n] # NoRow}}

-----------------------------------------------------------------------------

BookInit ==
  /\ book = [o \in Orders |-> NoRow]
  /\ answer = [r \in Readers |-> <<>>]

Place(o) ==
  /\ book[o] = NoRow
  /\ \E prices \in [Products -> Prices] :
       LET items == Priced(o, prices)
       IN  /\ Total(items) <= MaxCents
           /\ book' = [book EXCEPT ![o] = [items |-> items, total |-> Total(items)]]
  /\ UNCHANGED answer

(* No order is in an answer twice.                                         *)
Answer(r) ==
  /\ UNCHANGED book
  /\ answer' = [answer EXCEPT ![r] = answer'[r]]
  /\ IsInjective(answer'[r]) /\ ToSet(answer'[r]) \subseteq Entries

BookNext == (\E o \in Orders : Place(o)) \/ (\E r \in Readers : Answer(r))

BookSpec == BookInit /\ [][BookNext]_bookVars
=============================================================================
