-------------------------- MODULE StockLedgerProofs --------------------------
(***************************************************************************)
(* What the four atomic changes of stock_db guarantee for every set of     *)
(* products, every finite set of sagas and every column width.             *)
(***************************************************************************)
EXTENDS StockLedger, FiniteSetTheorems, TLAPS

USE LedgerAssumption

-----------------------------------------------------------------------------
(* The rows that a ledger step may leave behind are well formed.           *)

LEMMA RowTypes ==
  ASSUME LedgerTypeOK, NEW p \in Products, NEW s \in Sagas
  PROVE  /\ reservation[p][s] \in ReservationRows \cup {NoRow}
         /\ reservation[p][s].quantity \in 0..MaxInt4
         /\ reservation[p][s] # NoRow =>
              /\ reservation[p][s] \in ReservationRows
              /\ reservation[p][s].quantity \in 1..MaxInt4
         /\ reservation[p][s].status = "RESERVED" => reservation[p][s] # NoRow
BY DEF LedgerTypeOK, ReservationRows, NoRow

LEMMA LedgerTypeStep == LedgerTypeOK /\ [LedgerNext]_ledgerVars => LedgerTypeOK'
<1> SUFFICES ASSUME LedgerTypeOK, [LedgerNext]_ledgerVars
             PROVE  LedgerTypeOK'
  OBVIOUS
<1>1. CASE UNCHANGED ledgerVars
  BY <1>1 DEF LedgerTypeOK, ledgerVars
<1>2. ASSUME NEW p \in Products, NEW s \in Sagas, NEW q \in 1..MaxInt4,
             ReserveUnits(s, p, q)
      PROVE  LedgerTypeOK'
  <2>1. stock[p] - q \in 0..MaxInt4
    BY <1>2 DEF ReserveUnits, Takeable, LedgerTypeOK
  <2>2. stock' \in [Products -> 0..MaxInt4]
    BY <1>2, <2>1 DEF ReserveUnits, LedgerTypeOK
  <2>3. ReservedRow(q) \in ReservationRows
    BY DEF ReservedRow, ReservationRows
  <2>4. reservation' \in [Products -> [Sagas -> ReservationRows \cup {NoRow}]]
    BY <1>2, <2>3 DEF ReserveUnits, LedgerTypeOK
  <2> QED
    BY <1>2, <2>2, <2>4 DEF ReserveUnits, LedgerTypeOK
<1>3. ASSUME NEW p \in Products, NEW s \in Sagas, ReleaseUnits(s, p)
      PROVE  LedgerTypeOK'
  <2> DEFINE row == reservation[p][s]
  <2>1. row \in ReservationRows
    BY <1>3, RowTypes DEF ReleaseUnits
  <2>2. stock[p] + row.quantity \in 0..MaxInt4
    BY <1>3, <2>1 DEF ReleaseUnits, LedgerTypeOK, ReservationRows
  <2>3. ReleasedRow(row) \in ReservationRows
    BY <2>1 DEF ReleasedRow, ReservationRows
  <2>4. stock' \in [Products -> 0..MaxInt4]
    BY <1>3, <2>2 DEF ReleaseUnits, LedgerTypeOK
  <2>5. reservation' \in [Products -> [Sagas -> ReservationRows \cup {NoRow}]]
    BY <1>3, <2>3 DEF ReleaseUnits, LedgerTypeOK
  <2> QED
    BY <1>3, <2>4, <2>5 DEF ReleaseUnits, LedgerTypeOK
<1>4. ASSUME NEW p \in Products, NEW n \in 0..MaxInt4, SetStock(p, n)
      PROVE  LedgerTypeOK'
  BY <1>4 DEF SetStock, LedgerTypeOK
<1>5. ASSUME NEW p \in Products, RemoveProduct(p)
      PROVE  LedgerTypeOK'
  BY <1>5 DEF RemoveProduct, LedgerTypeOK
<1> QED
  BY <1>1, <1>2, <1>3, <1>4, <1>5 DEF LedgerNext

LEMMA LedgerTypeInit == LedgerInit => LedgerTypeOK
BY DEF LedgerInit, LedgerTypeOK, ReservationRows

(* The tables stay well formed: no stock is ever negative or too large for *)
(* its column, and every reservation holds a positive quantity.            *)
THEOREM LedgerTypeCorrect == LedgerSpec => []LedgerTypeOK
BY LedgerTypeInit, LedgerTypeStep, PTL DEF LedgerSpec

-----------------------------------------------------------------------------

(* Reserved products keep their row: ReleaseUnits leaves a row behind that *)
(* still refers to the product, and RemoveProduct respects the reference.  *)
LEMMA PinStep ==
  LedgerTypeOK /\ ReservationPinsProduct /\ [LedgerNext]_ledgerVars
    => ReservationPinsProduct'
<1> SUFFICES ASSUME LedgerTypeOK, ReservationPinsProduct, [LedgerNext]_ledgerVars
             PROVE  ReservationPinsProduct'
  OBVIOUS
<1>1. CASE UNCHANGED ledgerVars
  BY <1>1 DEF ReservationPinsProduct, ledgerVars
<1>2. ASSUME NEW p \in Products, NEW s \in Sagas, NEW q \in 1..MaxInt4,
             ReserveUnits(s, p, q)
      PROVE  ReservationPinsProduct'
  BY <1>2 DEF ReserveUnits, ReservationPinsProduct, LedgerTypeOK
<1>3. ASSUME NEW p \in Products, NEW s \in Sagas, ReleaseUnits(s, p)
      PROVE  ReservationPinsProduct'
  <2>1. reservation[p][s] # NoRow
    BY <1>3 DEF ReleaseUnits, NoRow
  <2> QED
    BY <1>3, <2>1 DEF ReleaseUnits, ReservationPinsProduct, LedgerTypeOK
<1>4. ASSUME NEW p \in Products, NEW n \in 0..MaxInt4, SetStock(p, n)
      PROVE  ReservationPinsProduct'
  BY <1>4 DEF SetStock, ReservationPinsProduct
<1>5. ASSUME NEW p \in Products, RemoveProduct(p)
      PROVE  ReservationPinsProduct'
  BY <1>5 DEF RemoveProduct, Unreferenced, ReservationPinsProduct
<1> QED
  BY <1>1, <1>2, <1>3, <1>4, <1>5 DEF LedgerNext

LEMMA PinInit == LedgerInit => ReservationPinsProduct
BY DEF LedgerInit, ReservationPinsProduct

(* Every ledger keeps the products that its reservations refer to.         *)
THEOREM LedgerPinsProducts == LedgerSpec => []ReservationPinsProduct
BY LedgerTypeInit, LedgerTypeStep, PinInit, PinStep, PTL DEF LedgerSpec

-----------------------------------------------------------------------------

RowKept(p, s) ==
  reservation[p][s] # NoRow =>
    \/ reservation'[p][s] = reservation[p][s]
    \/ /\ reservation[p][s].status = "RESERVED"
       /\ reservation'[p][s] = [reservation[p][s] EXCEPT !.status = "RELEASED"]

(* Each of the four steps leaves every other row alone.                    *)
LEMMA RowsKeptStep ==
  ASSUME LedgerTypeOK, [LedgerNext]_ledgerVars,
         NEW r \in Products, NEW t \in Sagas
  PROVE  RowKept(r, t)
<1>1. CASE UNCHANGED ledgerVars
  BY <1>1 DEF RowKept, ledgerVars
<1>2. ASSUME NEW p \in Products, NEW s \in Sagas, NEW q \in 1..MaxInt4,
             ReserveUnits(s, p, q)
      PROVE  RowKept(r, t)
  BY <1>2 DEF ReserveUnits, RowKept, LedgerTypeOK
<1>3. ASSUME NEW p \in Products, NEW s \in Sagas, ReleaseUnits(s, p)
      PROVE  RowKept(r, t)
  BY <1>3 DEF ReleaseUnits, ReleasedRow, RowKept, LedgerTypeOK
<1>4. ASSUME NEW p \in Products, NEW n \in 0..MaxInt4, SetStock(p, n)
      PROVE  RowKept(r, t)
  BY <1>4 DEF SetStock, RowKept
<1>5. ASSUME NEW p \in Products, RemoveProduct(p)
      PROVE  RowKept(r, t)
  BY <1>5 DEF RemoveProduct, RowKept
<1> QED
  BY <1>1, <1>2, <1>3, <1>4, <1>5 DEF LedgerNext

(* In every ledger a reservation is settled at most once and never undone. *)
THEOREM LedgerRowsAreFinal == LedgerSpec => RowsAreFinal
<1>1. LedgerTypeOK /\ [LedgerNext]_ledgerVars =>
        [\A p \in Products : \A s \in Sagas :
           reservation[p][s] # NoRow =>
             \/ reservation'[p][s] = reservation[p][s]
             \/ /\ reservation[p][s].status = "RESERVED"
                /\ reservation'[p][s] =
                     [reservation[p][s] EXCEPT !.status = "RELEASED"]]_ledgerVars
  BY RowsKeptStep DEF RowKept
<1> QED
  BY <1>1, LedgerTypeCorrect, PTL DEF LedgerSpec, RowsAreFinal

-----------------------------------------------------------------------------
(* Conservation of units.                                                  *)

LEMMA UnitsAreFinite ==
  ASSUME NEW p
  PROVE  /\ IsFiniteSet(ReservedUnits(p))
         /\ Cardinality(ReservedUnits(p)) \in Nat
<1>1. IsFiniteSet(1..MaxInt4)
  BY FS_Interval
<1>2. IsFiniteSet(Sagas \X (1..MaxInt4))
  BY <1>1, FS_Product
<1>3. ReservedUnits(p) \subseteq Sagas \X (1..MaxInt4)
  BY DEF ReservedUnits
<1> QED
  BY <1>2, <1>3, FS_Subset, FS_CardinalityType

LEMMA UnitsOfOneSaga ==
  ASSUME NEW s, NEW q \in Nat
  PROVE  /\ IsFiniteSet({s} \X (1..q))
         /\ Cardinality({s} \X (1..q)) = q
<1>1. IsFiniteSet({s}) /\ Cardinality({s}) = 1
  BY FS_Singleton
<1>2. IsFiniteSet(1..q) /\ Cardinality(1..q) = q
  BY FS_Interval
<1>3. /\ IsFiniteSet({s} \X (1..q))
      /\ Cardinality({s} \X (1..q)) = Cardinality({s}) * Cardinality(1..q)
  BY <1>1, <1>2, FS_Product, Zenon
<1>4. 1 * q = q
  OBVIOUS
<1> QED
  BY <1>1, <1>2, <1>3, <1>4

(* Moving n units of one saga in or out of the reserved ones.              *)
LEMMA UnitsAdded ==
  ASSUME NEW S, IsFiniteSet(S), NEW s, NEW n \in Nat,
         S \cap ({s} \X (1..n)) = {}
  PROVE  Cardinality(S \cup ({s} \X (1..n))) = Cardinality(S) + n
<1>1. IsFiniteSet({s} \X (1..n)) /\ Cardinality({s} \X (1..n)) = n
  BY UnitsOfOneSaga
<1>2. Cardinality(S \cup ({s} \X (1..n))) =
        Cardinality(S) + Cardinality({s} \X (1..n)) - Cardinality({})
  BY <1>1, FS_Union
<1> QED
  BY <1>1, <1>2, FS_EmptySet, FS_CardinalityType

(* The insertion of a reservation takes from the shelf what it holds back. *)
LEMMA ReserveConserves ==
  ASSUME LedgerTypeOK, NEW s \in Sagas, NEW p \in Products, NEW q \in 1..MaxInt4,
         ReserveUnits(s, p, q), NEW r \in Products
  PROVE  Supply(r)' = Supply(r)
<1>1. CASE r = p
  <2> DEFINE U == {s} \X (1..q)
  <2>1. ReservedUnits(p)' = ReservedUnits(p) \cup U
    BY DEF ReserveUnits, ReservedUnits, ReservedRow, NoRow, LedgerTypeOK
  <2>2. ReservedUnits(p) \cap U = {}
    BY DEF ReserveUnits, ReservedUnits, NoRow
  <2>3. Cardinality(ReservedUnits(p)') = Cardinality(ReservedUnits(p)) + q
    <3> HIDE DEF U
    <3>1. IsFiniteSet(ReservedUnits(p)) /\ q \in Nat
      BY UnitsAreFinite
    <3>2. Cardinality(ReservedUnits(p) \cup U) = Cardinality(ReservedUnits(p)) + q
      BY <2>2, <3>1, UnitsAdded, Zenon DEF U
    <3> QED
      BY <2>1, <3>2
  <2>4. stock'[p] = stock[p] - q /\ stock[p] \in Int
    BY DEF ReserveUnits, LedgerTypeOK
  <2> QED
    BY <1>1, <2>3, <2>4, UnitsAreFinite DEF Supply
<1>2. CASE r # p
  <2>1. ReservedUnits(r)' = ReservedUnits(r)
    BY <1>2 DEF ReserveUnits, ReservedUnits, LedgerTypeOK
  <2> QED
    BY <1>2, <2>1 DEF ReserveUnits, Supply, LedgerTypeOK
<1> QED
  BY <1>1, <1>2

(* A release puts back exactly what the row held, whatever it was asked.   *)
LEMMA ReleaseConserves ==
  ASSUME LedgerTypeOK, NEW s \in Sagas, NEW p \in Products,
         ReleaseUnits(s, p), NEW r \in Products
  PROVE  Supply(r)' = Supply(r)
<1> DEFINE n == reservation[p][s].quantity
<1>1. n \in 1..MaxInt4
  BY RowTypes DEF ReleaseUnits
<1>2. CASE r = p
  <2> DEFINE U == {s} \X (1..n)
  <2>1. ReservedUnits(p) = ReservedUnits(p)' \cup U
    BY <1>1 DEF ReleaseUnits, ReservedUnits, ReleasedRow, LedgerTypeOK
  <2>2. ReservedUnits(p)' \cap U = {}
    BY DEF ReleaseUnits, ReservedUnits, ReleasedRow, LedgerTypeOK
  <2>3. IsFiniteSet(ReservedUnits(p)') /\ Cardinality(ReservedUnits(p)') \in Nat
    BY <2>1, UnitsAreFinite, FS_Subset, FS_CardinalityType
  <2>4. Cardinality(ReservedUnits(p)) = Cardinality(ReservedUnits(p)') + n
    <3> HIDE DEF U, n
    <3>1. n \in Nat
      BY <1>1
    <3>2. Cardinality(ReservedUnits(p)' \cup U) = Cardinality(ReservedUnits(p)') + n
      BY <2>2, <2>3, <3>1, UnitsAdded, Zenon DEF U
    <3> QED
      BY <2>1, <3>2
  <2>5. stock'[p] = stock[p] + n /\ stock[p] \in Int
    BY DEF ReleaseUnits, LedgerTypeOK
  <2> QED
    BY <1>1, <1>2, <2>3, <2>4, <2>5 DEF Supply
<1>3. CASE r # p
  <2>1. ReservedUnits(r)' = ReservedUnits(r)
    BY <1>3 DEF ReleaseUnits, ReservedUnits, LedgerTypeOK
  <2> QED
    BY <1>3, <2>1 DEF ReleaseUnits, Supply, LedgerTypeOK
<1> QED
  BY <1>2, <1>3

(* Units are on the shelf or held by a row; only an absolute overwrite or  *)
(* the end of the product changes how many there are.                      *)
ConservedBut(p) ==
  \/ Supply(p)' = Supply(p)
  \/ \E n \in 0..MaxInt4 : SetStock(p, n)
  \/ RemoveProduct(p)

(* Overwriting one product leaves the units of all others alone.           *)
LEMMA ConservedStep ==
  ASSUME LedgerTypeOK, LedgerNext, NEW p \in Products
  PROVE  ConservedBut(p)
<1>1. ASSUME NEW r \in Products, NEW s \in Sagas, NEW q \in 1..MaxInt4, ReserveUnits(s, r, q)
      PROVE  Supply(p)' = Supply(p)
  BY <1>1, ReserveConserves
<1>2. ASSUME NEW r \in Products, NEW s \in Sagas, ReleaseUnits(s, r)
      PROVE  Supply(p)' = Supply(p)
  BY <1>2, ReleaseConserves
<1>3. ASSUME NEW r \in Products, r # p, (\E n \in 0..MaxInt4 : SetStock(r, n)) \/ RemoveProduct(r)
      PROVE  Supply(p)' = Supply(p)
  BY <1>3 DEF SetStock, RemoveProduct, Supply, ReservedUnits, LedgerTypeOK
<1> QED
  BY <1>1, <1>2, <1>3 DEF LedgerNext, ConservedBut

(* Whoever implements the ledger creates and loses no unit.                *)
THEOREM LedgerConservesUnits ==
  LedgerSpec => [][\A p \in Products : ConservedBut(p)]_ledgerVars
<1>1. LedgerTypeOK /\ [LedgerNext]_ledgerVars =>
        [\A p \in Products : ConservedBut(p)]_ledgerVars
  BY ConservedStep
<1> QED
  BY <1>1, LedgerTypeCorrect, PTL DEF LedgerSpec
=============================================================================
