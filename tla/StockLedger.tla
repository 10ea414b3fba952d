----------------------------- MODULE StockLedger -----------------------------
(***************************************************************************)
(* What stock_db promises to everybody who talks to the stock-service: the *)
(* rows of `products` and of `stock_reservations`, and the four changes    *)
(* that may ever become visible in them, each in one atomic step.          *)
(*                                                                         *)
(* StockService shows that the real, interleaved transactions implement    *)
(* this; OrderSaga builds the saga between the two services on top of it.  *)
(***************************************************************************)
EXTENDS Integers, FiniteSets

CONSTANTS
  Products,       \* ids of the rows of products
  Sagas,          \* saga ids, one per attempt to create an order
  InitialStocks,  \* the stock a product may be registered with
  MaxInt4         \* the largest value of a PostgreSQL INTEGER column

ASSUME LedgerAssumption ==
  /\ IsFiniteSet(Sagas)
  /\ MaxInt4 \in Nat
  /\ InitialStocks \subseteq 0..MaxInt4

VARIABLES
  present,        \* the products that have a row
  stock,          \* products.stock (0 where there is no row)
  reservation     \* reservation[p][s]: row (s, p) of stock_reservations

ledgerVars == <<present, stock, reservation>>

\* "NONE" stands for the absence of the row.
NoRow == [status |-> "NONE", quantity |-> 0]
ReservationRows ==
  [status : {"RESERVED", "RELEASED"}, quantity : 1..MaxInt4]

ReservedRow(q) == [status |-> "RESERVED", quantity |-> q]

ReleasedRowDeleted(row) == NoRow

ReleasedRow(row) == [row EXCEPT !.status = "RELEASED"]

(* Each unit held back from sale, as a pair of its saga and a counter.     *)
ReservedUnits(p) ==
  {u \in Sagas \X (1..MaxInt4) :
     /\ reservation[p][u[1]].status = "RESERVED"
     /\ u[2] <= reservation[p][u[1]].quantity}

(* Units of p the shop knows of: on the shelf, or reserved by some saga.   *)
Supply(p) == stock[p] + Cardinality(ReservedUnits(p))

-----------------------------------------------------------------------------

TakeableUnchecked(p) == 1..MaxInt4

Takeable(p) == 1..stock[p]

(* The row (s, p) is inserted and the stock goes down by the same amount.  *)
ReserveUnits(s, p, q) ==
  /\ p \in present
  /\ reservation[p][s] = NoRow
  /\ q \in Takeable(p)
  /\ stock' = [stock EXCEPT ![p] = @ - q]
  /\ reservation' = [reservation EXCEPT ![p][s] = ReservedRow(q)]
  /\ UNCHANGED present

(* The whole quantity of a row still RESERVED returns to the shelf, and    *)
(* the row becomes RELEASED.                                               *)
ReleaseUnits(s, p) ==
  LET row == reservation[p][s]
  IN  /\ row.status = "RESERVED"
      /\ stock[p] + row.quantity <= MaxInt4
      /\ stock' = [stock EXCEPT ![p] = @ + row.quantity]
      /\ reservation' = [reservation EXCEPT ![p][s] = ReleasedRow(row)]
      /\ UNCHANGED present

(* PUT /produtos/{id} overwrites the stock with an absolute value.         *)
SetStock(p, n) ==
  /\ p \in present
  /\ stock' = [stock EXCEPT ![p] = n]
  /\ UNCHANGED <<present, reservation>>

UnreferencedAlways(p) == TRUE

(* The foreign key keeps every product that was ever reserved.             *)
Unreferenced(p) == \A s \in Sagas : reservation[p][s] = NoRow

RemoveProduct(p) ==
  /\ p \in present
  /\ Unreferenced(p)
  /\ present' = present \ {p}
  /\ stock' = [stock EXCEPT ![p] = 0]
  /\ UNCHANGED reservation

LedgerInit ==
  /\ present = Products
  /\ stock \in [Products -> InitialStocks]
  /\ reservation = [p \in Products |-> [s \in Sagas |-> NoRow]]

LedgerNext ==
  \E p \in Products :
    \/ \E s \in Sagas, q \in 1..MaxInt4 : ReserveUnits(s, p, q)
    \/ \E s \in Sagas : ReleaseUnits(s, p)
    \/ \E n \in 0..MaxInt4 : SetStock(p, n)
    \/ RemoveProduct(p)

(* stock_db only ever changes by one of the four atomic steps above: what  *)
(* a ProductService transaction does between BEGIN and COMMIT is invisible *)
(* and two transactions never mix their effects.                           *)
LedgerSpec == LedgerInit /\ [][LedgerNext]_ledgerVars

-----------------------------------------------------------------------------

LedgerTypeOK ==
  /\ present \subseteq Products
  /\ stock \in [Products -> 0..MaxInt4]
  /\ reservation \in [Products -> [Sagas -> ReservationRows \cup {NoRow}]]

(* A product that any saga ever reserved keeps its row, whatever happens   *)
(* to the reservation afterwards.  order_items of the other database refer *)
(* to products without a foreign key: this is what keeps them resolvable.  *)
ReservationPinsProduct ==
  \A p \in Products : \A s \in Sagas :
    reservation[p][s] # NoRow => p \in present

(* A row of stock_reservations is written once and settled at most once:   *)
(* its quantity never changes, RELEASED is final (a command redelivered    *)
(* after the release takes no stock again) and rows never disappear.       *)
RowsAreFinal ==
  [][\A p \in Products : \A s \in Sagas :
       reservation[p][s] # NoRow =>
         \/ reservation'[p][s] = reservation[p][s]
         \/ /\ reservation[p][s].status = "RESERVED"
            /\ reservation'[p][s] =
                 [reservation[p][s] EXCEPT !.status = "RELEASED"]]_ledgerVars
=============================================================================
