--------------------------- MODULE OrderStoreProofs ---------------------------
(***************************************************************************)
(* What orders_db shows to its readers, for every set of calls of Create,  *)
(* every request, every change of prices, every number of readers and      *)
(* every set of faults.                                                    *)
(*                                                                         *)
(* Total is a fold, and so is the list of products to look up: the first   *)
(* section says what they compute, from FoldLemmas.  Then come the three   *)
(* parts of the invariant StoreInv: the clock and the types, the           *)
(* transactions of Create (CreateInv) and the requests of readers          *)
(* (ReadSound).  The walk through the pages adds WalkInv, about how many   *)
(* newer orders there are; the refinement of OrderBook needs nothing more. *)
(***************************************************************************)
EXTENDS OrderStore, FoldLemmas, SequenceTheorems

-----------------------------------------------------------------------------
(* The request and the total of an order.                                  *)

(* A request that has passed the checks of Create.                         *)
LEMMA LineTypes ==
  ASSUME NEW o \in Orders
  PROVE  /\ Len(Items[o]) \in Nat \ {0}
         /\ DOMAIN Items[o] = 1..Len(Items[o])
         /\ \A i \in 1..Len(Items[o]) :
              Items[o][i].product \in Products /\ Items[o][i].quantity \in Nat \ {0}
<1>1. /\ Items[o] \in Seq([product : Products, quantity : Nat \ {0}])
      /\ Items[o] # <<>>
  BY StoreAssumption
<1>2. Len(Items[o]) \in Nat \ {0}
  BY <1>1, EmptySeq
<1>3. DOMAIN Items[o] = 1..Len(Items[o])
  BY <1>1, LenProperties
<1>4. \A i \in 1..Len(Items[o]) :
        Items[o][i] \in [product : Products, quantity : Nat \ {0}]
  BY <1>1, ElementOfSeq
<1> QED
  BY <1>2, <1>3, <1>4

(* Create looks up at most as many products as the request has lines, and  *)
(* every product of a line.                                                *)
LEMMA LooksUpEveryProduct ==
  ASSUME NEW o \in Orders
  PROVE  /\ Len(ProductOrder(o)) \in 1..Len(Items[o])
         /\ \A i \in 1..Len(ProductOrder(o)) : ProductOrder(o)[i] \in Products
         /\ \A i \in 1..Len(Items[o]) : \E j \in 1..Len(ProductOrder(o)) :
              ProductOrder(o)[j] = Items[o][i].product
<1> DEFINE lines == Items[o]
           n == Len(lines)
           q == FirstMentions(lines)
<1>1. /\ n \in Nat \ {0} /\ DOMAIN lines = 1..n
      /\ \A i \in 1..n : lines[i].product \in Products
  BY LineTypes
<1>2. ProductOrder(o) = q
  BY DEF ProductOrder, FirstMentions
<1>3. /\ q \in Seq(Products) /\ Len(q) \in 1..n
      /\ ToSet(q) = {lines[i].product : i \in 1..n}
  <2> HIDE DEF lines, n
  <2> QED
    BY <1>1, FirstMentionsList
<1> HIDE DEF q
<1>4. \A e : e \in ToSet(q) <=> \E j \in 1..Len(q) : q[j] = e
  BY <1>3, ElementsOf
<1>5. \A i \in 1..Len(q) : q[i] \in Products
  BY <1>3, ElementOfSeq
<1> HIDE DEF n, lines
<1>6. \A i \in 1..n : \E j \in 1..Len(q) : q[j] = lines[i].product
  BY <1>3, <1>4
<1> QED
  BY <1>2, <1>3, <1>5, <1>6 DEF n, lines

(* The recursion behind Total.                                             *)
Totals(g, s) ==
  g = [S \in SUBSET DOMAIN s |->
         IF S = {} THEN 0
         ELSE g[S \ {Max(S)}] + s[Max(S)].quantity * s[Max(S)].price]

(* A product of naturals is one.                                           *)
LEMMA TimesNat ==
  \A a, b \in Nat : a * b \in Nat /\ a * b = b * a
  OBVIOUS

(* A row of order_items has a share of the total.                          *)
LEMMA ItemShare ==
  ASSUME NEW e \in StoredItems
  PROVE  e.quantity \in Nat /\ e.price \in Nat /\ e.quantity * e.price \in Nat
  BY TimesNat, StoreAssumption DEF StoredItems

(* The fold of Total exists.                                               *)
LEMMA TotalsExist ==
  ASSUME NEW s \in Seq(StoredItems)
  PROVE  \E g : Totals(g, s) /\ g \in [SUBSET (1..Len(s)) -> Nat]
<1> DEFINE n == Len(s)
           F == [e \in Nat \X (1..n) |-> e[1] + s[e[2]].quantity * s[e[2]].price]
<1>1. n \in Nat /\ DOMAIN s = 1..n
  OBVIOUS
<1>2. \A i \in 1..n : s[i].quantity * s[i].price \in Nat
  BY ItemShare
<1>3. F \in [Nat \X (1..n) -> Nat]
  BY <1>2
<1>4. PICK g \in [SUBSET (1..n) -> Nat] : FoldsLeft(g, n, 0, F)
  <2> HIDE DEF F, n
  <2> QED
    BY <1>1, <1>3, LeftFoldExists
<1>5. ASSUME NEW S \in SUBSET (1..n), S # {}
      PROVE  g[S] = g[S \ {Max(S)}] + s[Max(S)].quantity * s[Max(S)].price
  <2>1. Max(S) \in 1..n
    BY <1>1, <1>5, MaxInSet
  <2>2. S \ {Max(S)} \in SUBSET (1..n)
    BY Zenon
  <2>3. g[S \ {Max(S)}] \in Nat
    BY <2>2
  <2>4. g[S] = F[<<g[S \ {Max(S)}], Max(S)>>]
    BY <1>4, <1>5 DEF FoldsLeft
  <2> HIDE DEF n, Max
  <2> QED
    BY <2>1, <2>3, <2>4
<1>6. \A S \in SUBSET (1..n) : S = {} => g[S] = 0
  BY <1>4 DEF FoldsLeft
<1> HIDE DEF n
<1>7. Totals(g, s)
  <2> HIDE DEF Max, F
  <2> QED
    BY <1>1, <1>5, <1>6 DEF Totals
<1> QED
  BY <1>7 DEF n

(* The total of a sequence is the value of the recursion at all its        *)
(* positions.                                                              *)
LEMMA TotalIsFold ==
  ASSUME NEW s \in Seq(StoredItems)
  PROVE  \E g : /\ Totals(g, s)
                /\ Book!Total(s) = g[DOMAIN s]
<1> DEFINE g == CHOOSE h : Totals(h, s)
<1>1. Totals(g, s)
  BY TotalsExist
<1>2. Book!Total(s) = g[DOMAIN s]
  BY DEF Book!Total, Book!FoldLeft, Book!MapThenFoldSet, Book!Max, FoldLeft, MapThenFoldSet, Max, Totals
<1> QED
  BY <1>1, <1>2

(* The recursion goes through the prefixes of the sequence.                *)
LEMMA TotalsStep ==
  ASSUME NEW s \in Seq(StoredItems), NEW g, Totals(g, s)
  PROVE  /\ g[1..0] = 0
         /\ \A k \in Nat : k < Len(s) =>
              g[1..(k + 1)] = g[1..k] + s[k + 1].quantity * s[k + 1].price
<1> DEFINE n == Len(s)
<1>1. n \in Nat /\ DOMAIN s = 1..n
  OBVIOUS
<1> HIDE DEF n
<1>2. g[{}] = 0
  BY <1>1 DEF Totals
<1>3. 1..0 = {}
  OBVIOUS
<1>4. ASSUME NEW k \in Nat, k < n
      PROVE  g[1..(k + 1)] = g[1..k] + s[k + 1].quantity * s[k + 1].price
  <2>1. k + 1 \in 1..(k + 1) /\ \A i \in 1..(k + 1) : i \in 1..n
    BY <1>1, <1>4
  <2>2. 1..(k + 1) \in SUBSET (1..n) /\ 1..(k + 1) # {}
    BY <2>1, Zenon
  <2>3. g[1..(k + 1)] = g[(1..(k + 1)) \ {Max(1..(k + 1))}]
                        + s[Max(1..(k + 1))].quantity * s[Max(1..(k + 1))].price
    BY <1>1, <2>2, Zenon DEF Totals
  <2> HIDE DEF Max
  <2> QED
    BY <2>3, MaxOfPrefix
<1>5. g[1..0] = 0
  BY <1>2, <1>3, Zenon
<1> QED
  BY <1>4, <1>5 DEF n

(* Every item adds its price times its quantity to the total of an order.  *)
LEMMA TotalOfItems ==
  /\ Book!Total(<<>>) = 0
  /\ \A s \in Seq(StoredItems), e \in StoredItems :
       /\ Book!Total(s) \in Nat
       /\ Book!Total(Append(s, e)) = Book!Total(s) + e.quantity * e.price
<1>1. Book!Total(<<>>) = 0
  <2> DEFINE s == <<>>
  <2>1. s \in Seq(StoredItems) /\ DOMAIN s = 1..0
    OBVIOUS
  <2> HIDE DEF s
  <2>2. PICK g : Totals(g, s) /\ Book!Total(s) = g[DOMAIN s]
    BY <2>1, TotalIsFold
  <2>3. g[1..0] = 0
    BY <2>1, <2>2, TotalsStep
  <2> QED
    BY <2>1, <2>2, <2>3 DEF s
<1>2. ASSUME NEW s \in Seq(StoredItems), NEW e \in StoredItems
      PROVE  /\ Book!Total(s) \in Nat
             /\ Book!Total(Append(s, e)) = Book!Total(s) + e.quantity * e.price
  <2> DEFINE t == Append(s, e)
             n == Len(s)
  <2>1. /\ t \in Seq(StoredItems) /\ Len(t) = n + 1 /\ n \in Nat
        /\ \A i \in 1..n : t[i] = s[i]
        /\ t[n + 1] = e
        /\ DOMAIN s = 1..n /\ DOMAIN t = 1..(n + 1)
    OBVIOUS
  <2> HIDE DEF t, n
  <2>2. PICK g : Totals(g, s) /\ Book!Total(s) = g[DOMAIN s]
    BY TotalIsFold
  <2>3. PICK h : Totals(h, t) /\ Book!Total(t) = h[DOMAIN t]
    BY <2>1, TotalIsFold
  <2>4. /\ g[1..0] = 0
        /\ \A k \in Nat : k < n =>
             g[1..(k + 1)] = g[1..k] + s[k + 1].quantity * s[k + 1].price
    BY <2>2, TotalsStep DEF n
  <2>5. /\ h[1..0] = 0
        /\ \A k \in Nat : k < n + 1 =>
             h[1..(k + 1)] = h[1..k] + t[k + 1].quantity * t[k + 1].price
    BY <2>1, <2>3, TotalsStep
  <2> DEFINE T == {k \in Nat : k <= n => g[1..k] \in Nat /\ h[1..k] = g[1..k]}
  <2>6. 0 \in T
    BY <2>4, <2>5
  <2>7. ASSUME NEW k \in Nat, k \in T PROVE k + 1 \in T
    <3> SUFFICES ASSUME k < n
                 PROVE  g[1..(k + 1)] \in Nat /\ h[1..(k + 1)] = g[1..(k + 1)]
      BY <2>1
    <3>1. g[1..k] \in Nat /\ h[1..k] = g[1..k]
      BY <2>1, <2>7
    <3>2. k + 1 \in 1..n
      BY <2>1
    <3>3. t[k + 1] = s[k + 1] /\ s[k + 1] \in StoredItems
      BY <2>1, <3>2 DEF n
    <3>4. s[k + 1].quantity * s[k + 1].price \in Nat
      BY <3>3, ItemShare
    <3>5. g[1..(k + 1)] = g[1..k] + s[k + 1].quantity * s[k + 1].price
      BY <2>4
    <3>6. h[1..(k + 1)] = h[1..k] + s[k + 1].quantity * s[k + 1].price
      BY <2>1, <2>5, <3>3
    <3> DEFINE w == s[k + 1].quantity * s[k + 1].price
    <3>7. g[1..(k + 1)] = g[1..k] + w /\ h[1..(k + 1)] = g[1..k] + w /\ w \in Nat
      BY <3>1, <3>4, <3>5, <3>6
    <3> HIDE DEF w
    <3> QED
      BY <3>1, <3>7
  <2>8. \A k \in Nat : k \in T
    <3> HIDE DEF T
    <3> QED
      BY <2>6, <2>7, NatSetInduction
  <2>9. g[1..n] \in Nat /\ h[1..n] = g[1..n]
    BY <2>1, <2>8
  <2>10. h[1..(n + 1)] = h[1..n] + e.quantity * e.price
    BY <2>1, <2>5
  <2> QED
    BY <2>1, <2>2, <2>3, <2>9, <2>10 DEF t
<1> QED
  BY <1>1, <1>2

-----------------------------------------------------------------------------
(* The table of orders.                                                    *)

VisibleIn(t) == {o \in Orders : t[o] # NoRow}

RowsIn(t) == {[order |-> o, total |-> t[o].total] : o \in VisibleIn(t)}

EntriesIn(t) ==
  {[order |-> o, items |-> t[o].items, total |-> t[o].total] : o \in VisibleIn(t)}

Tables == [Orders -> StoredOrders \cup {NoRow}]

(* What the readers may be shown is what the table holds.                  *)
LEMMA EntriesAreRows ==
  ASSUME table \in Tables
  PROVE  Book!Entries = EntriesIn(table)
<1> DEFINE b == [o \in Orders |-> IF table[o] = NoRow THEN NoRow
                                  ELSE [items |-> table[o].items, total |-> table[o].total]]
<1>1. ASSUME NEW o \in Orders
      PROVE  /\ b[o] # NoRow <=> table[o] # NoRow
             /\ table[o] # NoRow => b[o].items = table[o].items /\ b[o].total = table[o].total
  <2>1. CASE table[o] = NoRow
    BY <2>1
  <2>2. CASE table[o] # NoRow
    <3>1. table[o].items \in Seq(StoredItems) /\ table[o].total \in Nat
      BY <2>2 DEF Tables, StoredOrders
    <3>2. b[o] = [items |-> table[o].items, total |-> table[o].total]
      BY <2>2
    <3>3. b[o] # NoRow
      BY <3>1, <3>2, StoreAssumption
    <3> QED
      BY <2>2, <3>2, <3>3
  <2> QED
    BY <2>1, <2>2
<1>2. Book!Entries = {[order |-> o, items |-> b[o].items, total |-> b[o].total] :
                        o \in {n \in Orders : b[n] # NoRow}}
  BY DEF Book!Entries, Book!Entry
<1>3. {n \in Orders : b[n] # NoRow} = VisibleIn(table)
  BY <1>1 DEF VisibleIn
<1> HIDE DEF b
<1>4. \A o \in VisibleIn(table) :
        b[o].items = table[o].items /\ b[o].total = table[o].total
  BY <1>1 DEF VisibleIn
<1> QED
  BY <1>2, <1>3, <1>4 DEF EntriesIn

(* A committed order stays as it is; a step commits at most one.           *)
TableMove ==
  \/ UNCHANGED table
  \/ \E o \in Orders : /\ pc[o] = "commit" /\ table[o] = NoRow
                       /\ rows[o] \in StoredOrders
                       /\ table' = [table EXCEPT ![o] = rows[o]]

(* The table only grows, and with it what readers may be shown.            *)
LEMMA TableGrows ==
  ASSUME table \in Tables, TableMove
  PROVE  /\ table' \in Tables
         /\ VisibleIn(table) \subseteq VisibleIn(table')
         /\ \A o \in VisibleIn(table) : table'[o] = table[o]
         /\ RowsIn(table) \subseteq RowsIn(table')
         /\ EntriesIn(table) \subseteq EntriesIn(table')
<1>1. /\ table' \in Tables
      /\ \A o \in VisibleIn(table) : o \in Orders /\ table'[o] = table[o]
  BY DEF TableMove, Tables, VisibleIn
<1>2. VisibleIn(table) \subseteq VisibleIn(table')
  BY <1>1 DEF VisibleIn
<1>3. RowsIn(table) \subseteq RowsIn(table') /\ EntriesIn(table) \subseteq EntriesIn(table')
  BY <1>1, <1>2 DEF RowsIn, EntriesIn
<1> QED
  BY <1>1, <1>2, <1>3

-----------------------------------------------------------------------------
(* The invariant.                                                          *)

WaitingIn(p) == {o \in Orders : p[o] \in {"lookup", "begin"}}

(* now() advances once for every transaction, and a call opens one.        *)
ClockInv == clock + Cardinality(WaitingIn(pc)) <= Cardinality(Orders)

(* Every product of the request has a price before the transaction opens,  *)
(* and an order is in the table only when its Create is over.              *)
CreateInv(o) ==
  /\ pc[o] = "lookup" =>
       /\ at[o] <= Len(ProductOrder(o))
       /\ \A i \in 1..(at[o] - 1) : products[o][ProductOrder(o)[i]] \in Prices
  /\ pc[o] \in {"begin", "item", "total", "commit"} =>
       \A i \in 1..Len(Items[o]) : products[o][Items[o][i].product] \in Prices
  /\ pc[o] \in {"lookup", "begin"} => sum[o] = 0
  /\ pc[o] = "begin" => at[o] = 1
  /\ table[o] # NoRow => pc[o] \in {"created", "failed"}
  /\ WritesSound(o)

Creates == \A o \in Orders : CreateInv(o)

(* CommitCreate is the only writer of the table, and never writes twice.   *)
LEMMA TableMoves ==
  ASSUME TypeOK, Creates, [Next]_vars
  PROVE  TableMove
<1>1. ASSUME NEW o \in Orders, CommitCreate(o) PROVE TableMove
  <2>1. pc[o] = "commit" /\ table' = [table EXCEPT ![o] = rows[o]]
    BY <1>1 DEF CommitCreate
  <2>2. rows[o] \in StoredOrders
    BY <2>1 DEF TypeOK
  <2>3. table[o] = NoRow
    BY <2>1 DEF Creates, CreateInv
  <2> QED
    BY <2>1, <2>2, <2>3 DEF TableMove
<1>2. CASE UNCHANGED table
  BY <1>2 DEF TableMove
<1>3. ASSUME NEW o \in Orders, CreateStep(o) \/ FailCreate(o) PROVE TableMove
  BY <1>1, <1>2, <1>3
     DEF CreateStep, LookUp, BeginCreate, InsertItem, UpdateTotal, FailCreate
<1>4. ASSUME NEW r \in Readers, ReadStep(r) \/ FailRead(r) PROVE TableMove
  BY <1>2, <1>4 DEF ReadStep, FindByID, FindAll, FindItems, FailRead
<1> QED
  BY <1>2, <1>3, <1>4 DEF Next, Reprice, Crash, vars

(* A step opens at most one transaction, for a call that had none.         *)
LEMMA ClockStep ==
  ASSUME TypeOK, ClockInv, [Next]_vars
  PROVE  clock' \in 0..Cardinality(Orders) /\ ClockInv'
<1>0. /\ IsFiniteSet(Orders) /\ Cardinality(Orders) \in Nat /\ clock \in Nat
      /\ pc \in [Orders -> PcValues]
  BY StoreAssumption, FS_CardinalityType DEF TypeOK
<1>1. ASSUME NEW p
      PROVE  IsFiniteSet(WaitingIn(p)) /\ Cardinality(WaitingIn(p)) \in Nat
  <2>1. WaitingIn(p) \in SUBSET Orders
    BY DEF WaitingIn
  <2> QED
    BY <1>0, <2>1, FS_Subset, FS_CardinalityType
<1>2. CASE clock' = clock /\ WaitingIn(pc') \subseteq WaitingIn(pc)
  <2>1. Cardinality(WaitingIn(pc')) <= Cardinality(WaitingIn(pc))
    BY <1>1, <1>2, FS_Subset
  <2> QED
    BY <1>0, <1>1, <1>2, <2>1 DEF ClockInv
<1>3. ASSUME NEW o \in Orders, BeginCreate(o)
      PROVE  clock' \in 0..Cardinality(Orders) /\ ClockInv'
  <2>1. /\ clock' = clock + 1 /\ pc[o] = "begin"
        /\ pc' = [pc EXCEPT ![o] = "item"]
    BY <1>3 DEF BeginCreate, GoTo
  <2>2. WaitingIn(pc') = WaitingIn(pc) \ {o} /\ o \in WaitingIn(pc)
    BY <1>0, <2>1 DEF WaitingIn
  <2>3. Cardinality(WaitingIn(pc')) = Cardinality(WaitingIn(pc)) - 1
    BY <1>1, <2>2, FS_RemoveElement
  <2> QED
    BY <1>0, <1>1, <2>1, <2>3 DEF ClockInv
<1>4. ASSUME NEW os \in SUBSET Orders, NEW l \in {"created", "failed"}, Return(os, l)
      PROVE  WaitingIn(pc') \subseteq WaitingIn(pc)
  BY <1>0, <1>4 DEF Return, WaitingIn
<1>5. ASSUME NEW o \in Orders, CreateStep(o) \/ FailCreate(o)
      PROVE  clock' \in 0..Cardinality(Orders) /\ ClockInv'
  <2>1. CASE LookUp(o)
    BY <1>0, <1>2, <2>1 DEF LookUp, GoTo, WaitingIn
  <2>2. CASE BeginCreate(o)
    BY <1>3, <2>2
  <2>3. CASE InsertItem(o)
    BY <1>0, <1>2, <2>3 DEF InsertItem, GoTo, WaitingIn
  <2>4. CASE UpdateTotal(o)
    <3>1. clock' = clock /\ (pc' = [pc EXCEPT ![o] = "commit"] \/ Return({o}, "failed"))
      BY <2>4 DEF UpdateTotal, GoTo
    <3>2. pc' = [pc EXCEPT ![o] = "commit"] => WaitingIn(pc') \subseteq WaitingIn(pc)
      BY <1>0 DEF WaitingIn
    <3> QED
      BY <1>2, <1>4, <3>1, <3>2
  <2>5. CASE CommitCreate(o)
    BY <1>2, <1>4, <2>5 DEF CommitCreate
  <2>6. CASE FailCreate(o)
    BY <1>2, <1>4, <2>6 DEF FailCreate
  <2> QED
    BY <1>5, <2>1, <2>2, <2>3, <2>4, <2>5, <2>6 DEF CreateStep
<1>6. CASE UNCHANGED <<pc, clock>>
  BY <1>2, <1>6
<1>7. ASSUME NEW r \in Readers, ReadStep(r) \/ FailRead(r) PROVE UNCHANGED <<pc, clock>>
  BY <1>7 DEF ReadStep, FindByID, FindAll, FindItems, FailRead, createVars
<1>8. CASE Crash
  <2>1. Creating \in SUBSET Orders
    BY DEF Creating
  <2> QED
    BY <1>2, <1>4, <1>8, <2>1 DEF Crash
<1> QED
  BY <1>5, <1>6, <1>7, <1>8 DEF Next, Reprice, vars, createVars

-----------------------------------------------------------------------------
(* Types.                                                                  *)

(* What the variables of Create range over.                                *)
CreateTypes ==
  /\ pc \in [Orders -> PcValues]
  /\ at \in [Orders -> Nat] /\ \A o \in Orders : at[o] \in DOMAIN Items[o]
  /\ products \in [Orders -> [Products -> Prices \cup {NoRow}]]
  /\ sum \in [Orders -> Nat]
  /\ rows \in [Orders -> StoredOrders \cup {NoRow}]
  /\ \A o \in Orders : pc[o] \in {"item", "total", "commit"} => rows[o] # NoRow

(* A call that returns forgets its variables.                              *)
LEMMA ReturnTypes ==
  ASSUME CreateTypes, NEW os \in SUBSET Orders, NEW l \in {"created", "failed"}, Return(os, l)
  PROVE  CreateTypes'
<1>1. NoPrices \in [Products -> Prices \cup {NoRow}]
  BY DEF NoPrices
<1>2. \A o \in Orders : 1 \in DOMAIN Items[o]
  BY LineTypes
<1>3. pc' \in [Orders -> PcValues] /\ at' \in [Orders -> Nat] /\ sum' \in [Orders -> Nat]
  BY DEF CreateTypes, Return, PcValues
<1>4. products' \in [Orders -> [Products -> Prices \cup {NoRow}]]
  BY <1>1 DEF CreateTypes, Return
<1>5. rows' \in [Orders -> StoredOrders \cup {NoRow}]
  BY DEF CreateTypes, Return
<1>6. \A o \in Orders : at'[o] \in DOMAIN Items[o]
  BY <1>2 DEF CreateTypes, Return
<1>7. \A o \in Orders : pc'[o] \in {"item", "total", "commit"} => rows'[o] # NoRow
  BY DEF CreateTypes, Return
<1> QED
  BY <1>3, <1>4, <1>5, <1>6, <1>7 DEF CreateTypes

(* The product that Create looks up is one of the request.                 *)
LEMMA LookUpTypes ==
  ASSUME CreateTypes, price \in [Products -> Prices], Creates, NEW o \in Orders, LookUp(o)
  PROVE  CreateTypes'
<1> DEFINE p == ProductOrder(o)[at[o]]
<1>1. /\ pc[o] = "lookup" /\ products' = [products EXCEPT ![o][p] = price[p]]
      /\ UNCHANGED <<sum, rows>>
      /\ \/ /\ at[o] < Len(ProductOrder(o)) /\ at' = [at EXCEPT ![o] = at[o] + 1] /\ UNCHANGED pc
         \/ at' = [at EXCEPT ![o] = 1] /\ pc' = [pc EXCEPT ![o] = "begin"]
  BY DEF LookUp, GoTo
<1>2. at[o] \in 1..Len(ProductOrder(o))
  <2>1. at[o] <= Len(ProductOrder(o))
    BY <1>1 DEF Creates, CreateInv
  <2>2. at[o] \in 1..Len(Items[o])
    BY LineTypes DEF CreateTypes
  <2> QED
    BY <2>1, <2>2, LooksUpEveryProduct
<1>3. p \in Products /\ price[p] \in Prices
  BY <1>2, LooksUpEveryProduct
<1> HIDE DEF p
<1>4. products' \in [Orders -> [Products -> Prices \cup {NoRow}]]
  BY <1>1, <1>3 DEF CreateTypes
<1>5. pc' \in [Orders -> PcValues] /\ at' \in [Orders -> Nat]
  <2>1. pc' \in [Orders -> PcValues]
    BY <1>1 DEF CreateTypes, PcValues
  <2>2. at[o] \in Nat /\ at[o] + 1 \in Nat
    BY DEF CreateTypes
  <2>3. at' = [at EXCEPT ![o] = at[o] + 1] \/ at' = [at EXCEPT ![o] = 1]
    BY <1>1
  <2> QED
    BY <2>1, <2>2, <2>3 DEF CreateTypes
<1>6. \A n \in Orders : at'[n] \in DOMAIN Items[n]
  <2>1. at'[o] \in DOMAIN Items[o]
    <3>1. DOMAIN Items[o] = 1..Len(Items[o]) /\ Len(Items[o]) \in Nat \ {0}
      BY LineTypes
    <3>2. Len(ProductOrder(o)) \in 1..Len(Items[o])
      BY LooksUpEveryProduct
    <3>3. at'[o] = 1 \/ (at[o] < Len(ProductOrder(o)) /\ at'[o] = at[o] + 1)
      BY <1>1 DEF CreateTypes
    <3> QED
      BY <1>2, <3>1, <3>2, <3>3
  <2>2. \A n \in Orders \ {o} : at'[n] = at[n]
    BY <1>1 DEF CreateTypes
  <2> QED
    BY <2>1, <2>2 DEF CreateTypes
<1>7. \A n \in Orders : pc'[n] \in {"item", "total", "commit"} => rows'[n] # NoRow
  BY <1>1 DEF CreateTypes
<1> QED
  BY <1>1, <1>4, <1>5, <1>6, <1>7 DEF CreateTypes

(* The INSERT of the order.                                                *)
LEMMA BeginTypes ==
  ASSUME CreateTypes, clock \in Nat, NEW o \in Orders, BeginCreate(o)
  PROVE  CreateTypes'
<1> DEFINE row == [total |-> 0, items |-> <<>>, created_at |-> clock + 1]
<1>1. /\ rows' = [rows EXCEPT ![o] = row] /\ pc' = [pc EXCEPT ![o] = "item"]
      /\ UNCHANGED <<at, products, sum>>
  BY DEF BeginCreate, GoTo
<1>2. row \in StoredOrders
  BY DEF StoredOrders
<1>3. row # NoRow
  BY <1>2, StoreAssumption
<1> HIDE DEF row
<1>4. pc' \in [Orders -> PcValues] /\ rows' \in [Orders -> StoredOrders \cup {NoRow}]
  BY <1>1, <1>2 DEF CreateTypes, PcValues
<1>5. \A n \in Orders : pc'[n] \in {"item", "total", "commit"} => rows'[n] # NoRow
  BY <1>1, <1>3 DEF CreateTypes
<1> QED
  BY <1>1, <1>4, <1>5 DEF CreateTypes

(* The line that Create inserts, at the price it has looked up.            *)
LEMMA LineInserted ==
  ASSUME CreateTypes, Creates, NEW o \in Orders, InsertItem(o)
  PROVE  \E item \in StoredItems :
           /\ item = [product |-> Items[o][at[o]].product,
                      quantity |-> Items[o][at[o]].quantity,
                      price |-> products[o][Items[o][at[o]].product]]
           /\ at[o] \in 1..Len(Items[o]) /\ rows[o] \in StoredOrders
           /\ rows' = [rows EXCEPT ![o].items = Append(rows[o].items, item)]
           /\ sum' = [sum EXCEPT ![o] = sum[o] + item.quantity * item.price]
           /\ \/ /\ at[o] < Len(Items[o]) /\ at' = [at EXCEPT ![o] = at[o] + 1]
                 /\ UNCHANGED pc
              \/ /\ ~ (at[o] < Len(Items[o])) /\ UNCHANGED at
                 /\ pc' = [pc EXCEPT ![o] = "total"]
<1> DEFINE line == Items[o][at[o]]
           p == products[o][line.product]
           item == [product |-> line.product, quantity |-> line.quantity, price |-> p]
<1>1. /\ pc[o] = "item"
      /\ rows' = [rows EXCEPT ![o].items = Append(rows[o].items, item)]
      /\ sum' = [sum EXCEPT ![o] = sum[o] + p * line.quantity]
      /\ \/ at[o] < Len(Items[o]) /\ at' = [at EXCEPT ![o] = at[o] + 1] /\ UNCHANGED pc
         \/ /\ ~ (at[o] < Len(Items[o])) /\ UNCHANGED at
            /\ pc' = [pc EXCEPT ![o] = "total"]
  BY DEF InsertItem, PriceOf, GoTo
<1>2. at[o] \in 1..Len(Items[o])
  BY LineTypes DEF CreateTypes
<1>3. line.product \in Products /\ line.quantity \in Nat \ {0}
  BY <1>2, LineTypes
<1>4. p \in Prices
  BY <1>1, <1>2 DEF Creates, CreateInv
<1>5. rows[o] \in StoredOrders
  BY <1>1 DEF CreateTypes
<1> HIDE DEF line, p
<1>6. item \in StoredItems /\ item.quantity = line.quantity /\ item.price = p
  BY <1>3, <1>4 DEF StoredItems
<1>7. p * line.quantity = item.quantity * item.price
  BY <1>3, <1>4, <1>6, TimesNat, StoreAssumption
<1> HIDE DEF item
<1>8. item = [product |-> line.product, quantity |-> line.quantity, price |-> p]
  BY DEF item
<1> QED
  BY <1>1, <1>2, <1>5, <1>6, <1>7, <1>8 DEF line, p

(* The INSERT of a line.                                                   *)
LEMMA InsertTypes ==
  ASSUME CreateTypes, Creates, NEW o \in Orders, InsertItem(o)
  PROVE  CreateTypes'
<1>1. PICK item \in StoredItems :
        /\ at[o] \in 1..Len(Items[o]) /\ rows[o] \in StoredOrders
        /\ rows' = [rows EXCEPT ![o].items = Append(rows[o].items, item)]
        /\ sum' = [sum EXCEPT ![o] = sum[o] + item.quantity * item.price]
        /\ \/ /\ at[o] < Len(Items[o]) /\ at' = [at EXCEPT ![o] = at[o] + 1]
              /\ UNCHANGED pc
           \/ /\ ~ (at[o] < Len(Items[o])) /\ UNCHANGED at
              /\ pc' = [pc EXCEPT ![o] = "total"]
  BY LineInserted
<1>0. pc[o] = "item" /\ UNCHANGED products
  BY DEF InsertItem
<1>2. sum' \in [Orders -> Nat]
  <2> DEFINE w == item.quantity * item.price
  <2>1. w \in Nat
    BY ItemShare
  <2>2. sum' = [sum EXCEPT ![o] = sum[o] + w]
    BY <1>1
  <2> HIDE DEF w
  <2> QED
    BY <2>1, <2>2 DEF CreateTypes
<1>3. pc' \in [Orders -> PcValues] /\ at' \in [Orders -> Nat]
  <2>1. pc' \in [Orders -> PcValues]
    BY <1>1 DEF CreateTypes, PcValues
  <2>2. at[o] \in Nat /\ at[o] + 1 \in Nat
    BY DEF CreateTypes
  <2>3. at' = [at EXCEPT ![o] = at[o] + 1] \/ at' = at
    BY <1>1
  <2> QED
    BY <2>1, <2>2, <2>3 DEF CreateTypes
<1>4. \A n \in Orders : at'[n] \in DOMAIN Items[n]
  BY <1>1, LineTypes DEF CreateTypes
<1> DEFINE row == [rows[o] EXCEPT !.items = Append(rows[o].items, item)]
<1>5. rows' = [rows EXCEPT ![o] = row]
  BY <1>1 DEF CreateTypes
<1>6. row \in StoredOrders
  <2>1. rows[o].items \in Seq(StoredItems)
    BY <1>1 DEF StoredOrders
  <2>2. Append(rows[o].items, item) \in Seq(StoredItems)
    BY <2>1
  <2> QED
    BY <1>1, <2>2 DEF StoredOrders
<1>7. row # NoRow
  BY <1>6, StoreAssumption
<1> HIDE DEF row
<1>8. rows' \in [Orders -> StoredOrders \cup {NoRow}]
  BY <1>5, <1>6 DEF CreateTypes
<1>9. \A n \in Orders : pc'[n] \in {"item", "total", "commit"} => rows'[n] # NoRow
  <2>1. rows'[o] = row /\ \A n \in Orders \ {o} : rows'[n] = rows[n] /\ pc'[n] = pc[n]
    BY <1>1, <1>5 DEF CreateTypes
  <2> QED
    BY <1>7, <2>1 DEF CreateTypes
<1> QED
  BY <1>0, <1>2, <1>3, <1>4, <1>8, <1>9 DEF CreateTypes

(* The UPDATE of the total, or its refusal by the column.                  *)
LEMMA TotalTypes ==
  ASSUME CreateTypes, NEW o \in Orders, UpdateTotal(o)
  PROVE  CreateTypes'
<1>1. CASE Return({o}, "failed")
  BY <1>1, ReturnTypes
<1>2. CASE /\ rows' = [rows EXCEPT ![o].total = sum[o]]
           /\ pc' = [pc EXCEPT ![o] = "commit"] /\ UNCHANGED <<at, products, sum>>
  <2> DEFINE row == [rows[o] EXCEPT !.total = sum[o]]
  <2>0. pc[o] = "total"
    BY DEF UpdateTotal
  <2>1. rows[o] \in StoredOrders /\ sum[o] \in Nat
    BY <2>0 DEF CreateTypes
  <2>2. rows' = [rows EXCEPT ![o] = row]
    BY <1>2 DEF CreateTypes
  <2>3. row \in StoredOrders
    BY <2>1 DEF StoredOrders
  <2>4. row # NoRow
    BY <2>3, StoreAssumption
  <2> HIDE DEF row
  <2>5. pc' \in [Orders -> PcValues] /\ rows' \in [Orders -> StoredOrders \cup {NoRow}]
    BY <1>2, <2>2, <2>3 DEF CreateTypes, PcValues
  <2>6. \A n \in Orders : pc'[n] \in {"item", "total", "commit"} => rows'[n] # NoRow
    BY <1>2, <2>2, <2>4 DEF CreateTypes
  <2> QED
    BY <1>2, <2>5, <2>6 DEF CreateTypes
<1> QED
  BY <1>1, <1>2 DEF UpdateTotal, GoTo

-----------------------------------------------------------------------------
(* The pages of GET /pedidos.                                              *)

(* NewestFirst lists every visible order once, the newer ones first.       *)
LEMMA NewestFirstLists ==
  ASSUME NEW list \in NewestFirst
  PROVE  LET n == Cardinality(VisibleIn(table))
         IN  /\ n \in Nat
             /\ list \in [1..n -> VisibleIn(table)]
             /\ \A i, j \in 1..n : i # j => list[i] # list[j]
             /\ \A i, j \in 1..n :
                  i < j => table[list[i]].created_at > table[list[j]].created_at
             /\ \A o \in VisibleIn(table) : \E i \in 1..n : list[i] = o
<1> DEFINE V == VisibleIn(table)
           n == Cardinality(V)
<1>0. Visible = V
  BY DEF Visible, VisibleIn
<1>1. V \in SUBSET Orders /\ IsFiniteSet(Orders)
  BY StoreAssumption DEF VisibleIn
<1>2. IsFiniteSet(V) /\ n \in Nat
  BY <1>1, FS_Subset, FS_CardinalityType
<1>3. /\ list \in [1..n -> V]
      /\ \A i, j \in 1..n : i # j => list[i] # list[j]
  BY <1>0 DEF NewestFirst, SetToSeqs
<1>4. \A i, j \in 1..n :
        i < j => table[list[i]].created_at > table[list[j]].created_at
  BY <1>3 DEF NewestFirst
<1> HIDE DEF V
<1>5. list \in Injection(1..n, V)
  BY <1>3 DEF Injection, IsInjective
<1>6. IsFiniteSet(1..n) /\ Cardinality(1..n) = n
  <2>1. 1 \in Int /\ n \in Int
    BY <1>2
  <2>2. IsFiniteSet(1..n) /\ Cardinality(1..n) = IF 1 > n THEN 0 ELSE n - 1 + 1
    BY <2>1, FS_Interval
  <2> QED
    BY <1>2, <2>2
<1>7. list \in Surjection(1..n, V)
  <2> HIDE DEF n
  <2> QED
    BY <1>2, <1>5, <1>6, FS_Injection DEF n
<1>8. \A o \in V : \E i \in 1..n : list[i] = o
  BY <1>7 DEF Surjection
<1> QED
  BY <1>2, <1>3, <1>4, <1>8 DEF V

(* The i-th order of a page is the one at offset + i.                      *)
LEMMA PageLists ==
  ASSUME NEW V, NEW n \in Nat, NEW list \in [1..n -> V], NEW from \in Nat
  PROVE  /\ Page(list, from) \in Seq(V)
         /\ Len(Page(list, from)) = IF from + Limit < n THEN Limit
                                    ELSE IF from < n THEN n - from ELSE 0
         /\ \A i \in 1..Len(Page(list, from)) :
              Page(list, from)[i] = list[from + i] /\ from + i \in 1..n
<1> DEFINE hi == IF from + Limit < n THEN from + Limit ELSE n
           page == SubSeq(list, from + 1, hi)
<1>1. Limit \in Nat \ {0}
  BY StoreAssumption
<1>2. list \in Seq(V) /\ Len(list) = n
  BY IsASeq
<1>3. Page(list, from) = page
  BY <1>2 DEF Page
<1>4. hi \in Nat /\ hi <= n
  BY <1>1
<1>5. /\ Len(page) = IF from + 1 <= hi THEN hi - from ELSE 0
      /\ \A i \in 1..Len(page) : page[i] = list[from + i]
      /\ page \in Seq(V)
  <2> HIDE DEF hi
  <2>1. page \in Seq(V)
    BY <1>2, <1>4
  <2> QED
    BY <1>2, <1>4, <2>1
<1> HIDE DEF page
<1>6. Len(page) = IF from + Limit < n THEN Limit ELSE IF from < n THEN n - from ELSE 0
  BY <1>1, <1>5
<1>7. \A i \in 1..Len(page) : from + i \in 1..n
  BY <1>1, <1>6
<1> QED
  BY <1>3, <1>5, <1>6, <1>7

-----------------------------------------------------------------------------
(* The requests of readers.                                                *)

Distinct(list) ==
  \A i, j \in 1..Len(list) : list[i].order = list[j].order => i = j

(* A handler that has the rows p still to complete and the entries a put   *)
(* together: no order is among them twice.                                 *)
ReadSound(p, a, t) ==
  /\ p \in Seq(RowsIn(t)) /\ a \in Seq(EntriesIn(t))
  /\ Distinct(p) /\ Distinct(a)
  /\ \A i \in 1..Len(a), j \in 1..Len(p) : a[i].order # p[j].order

(* Rows of the table "orders" without repetition.                          *)
LEMMA ReadStarts ==
  ASSUME NEW t, NEW p \in Seq(RowsIn(t)), Distinct(p)
  PROVE  ReadSound(p, <<>>, t)
<1>1. <<>> \in Seq(EntriesIn(t)) /\ Len(<<>>) = 0
  OBVIOUS
<1> QED
  BY <1>1 DEF ReadSound, Distinct

(* A request that is over, whatever became of it.                          *)
LEMMA ReadEnds ==
  ASSUME NEW t, NEW a \in Seq(EntriesIn(t)), Distinct(a)
  PROVE  ReadSound(<<>>, a, t)
<1>1. <<>> \in Seq(RowsIn(t)) /\ Len(<<>>) = 0
  OBVIOUS
<1> QED
  BY <1>1 DEF ReadSound, Distinct

(* Orders that are committed meanwhile do no harm to a request.            *)
LEMMA ReadGrows ==
  ASSUME NEW p, NEW a, NEW t, NEW u, ReadSound(p, a, t),
         RowsIn(t) \subseteq RowsIn(u), EntriesIn(t) \subseteq EntriesIn(u)
  PROVE  ReadSound(p, a, u)
<1>1. \A S, R : S \subseteq R => Seq(S) \subseteq Seq(R)
  BY SeqMonotonic
<1> QED
  BY <1>1 DEF ReadSound

(* The next row is completed with its items.                               *)
LEMMA ReadGoesOn ==
  ASSUME NEW p, NEW a, NEW t, ReadSound(p, a, t), p # <<>>
  PROVE  LET o == Head(p).order
             e == [order |-> o, items |-> t[o].items, total |-> Head(p).total]
         IN  /\ e \in EntriesIn(t)
             /\ ReadSound(Tail(p), Append(a, e), t)
<1> DEFINE o == Head(p).order
           e == [order |-> o, items |-> t[o].items, total |-> Head(p).total]
           q == Tail(p)
           b == Append(a, e)
<1>1. /\ p \in Seq(RowsIn(t)) /\ a \in Seq(EntriesIn(t))
      /\ Distinct(p) /\ Distinct(a)
      /\ \A i \in 1..Len(a), j \in 1..Len(p) : a[i].order # p[j].order
  BY DEF ReadSound
<1>2. /\ Head(p) \in RowsIn(t) /\ Head(p) = p[1] /\ Len(p) \in Nat \ {0}
      /\ q \in Seq(RowsIn(t)) /\ Len(q) = Len(p) - 1
      /\ \A i \in 1..Len(q) : q[i] = p[i + 1]
  BY <1>1, HeadTailProperties
<1>3. e \in EntriesIn(t) /\ e.order = o
  <2>1. PICK n \in VisibleIn(t) : Head(p) = [order |-> n, total |-> t[n].total]
    BY <1>2 DEF RowsIn
  <2> QED
    BY <2>1 DEF EntriesIn
<1>4. /\ b \in Seq(EntriesIn(t)) /\ Len(b) = Len(a) + 1 /\ Len(a) \in Nat
      /\ \A i \in 1..Len(b) : b[i] = IF i <= Len(a) THEN a[i] ELSE e
  <2> HIDE DEF e
  <2>1. a \in Seq(EntriesIn(t)) /\ e \in EntriesIn(t)
    BY <1>1, <1>3
  <2> QED
    BY <2>1
<1> HIDE DEF e, q, b
<1>5. Distinct(q)
  <2> SUFFICES ASSUME NEW i \in 1..Len(q), NEW j \in 1..Len(q), q[i].order = q[j].order
               PROVE  i = j
    BY DEF Distinct
  <2>1. i + 1 \in 1..Len(p) /\ j + 1 \in 1..Len(p) /\ p[i + 1].order = p[j + 1].order
    BY <1>2
  <2>2. i + 1 = j + 1
    BY <1>1, <2>1 DEF Distinct
  <2> QED
    BY <2>2
<1>6. \A i \in 1..Len(a) : a[i].order # o
  BY <1>1, <1>2
<1>7. Distinct(b)
  <2> SUFFICES ASSUME NEW i \in 1..Len(b), NEW j \in 1..Len(b), b[i].order = b[j].order
               PROVE  i = j
    BY DEF Distinct
  <2>1. CASE i \in 1..Len(a) /\ j \in 1..Len(a)
    BY <1>1, <1>4, <2>1 DEF Distinct
  <2>2. CASE i \in 1..Len(a) /\ j = Len(b)
    BY <1>3, <1>4, <1>6, <2>2
  <2>3. CASE i = Len(b) /\ j \in 1..Len(a)
    BY <1>3, <1>4, <1>6, <2>3
  <2>4. CASE i = Len(b) /\ j = Len(b)
    BY <2>4
  <2> QED
    BY <1>4, <2>1, <2>2, <2>3, <2>4
<1>8. ASSUME NEW i \in 1..Len(b), NEW j \in 1..Len(q)
      PROVE  b[i].order # q[j].order
  <2>1. j + 1 \in 1..Len(p) /\ q[j] = p[j + 1] /\ 1 \in 1..Len(p) /\ j + 1 # 1
    BY <1>2
  <2>2. p[j + 1].order # o
    BY <1>1, <1>2, <2>1 DEF Distinct
  <2>3. CASE i \in 1..Len(a)
    BY <1>1, <1>4, <2>1, <2>3
  <2>4. CASE i = Len(b)
    BY <1>3, <1>4, <2>1, <2>2, <2>4
  <2> QED
    BY <1>4, <2>3, <2>4
<1>9. ReadSound(q, b, t)
  BY <1>2, <1>4, <1>5, <1>7, <1>8 DEF ReadSound
<1> QED
  BY <1>3, <1>9 DEF e, q, b

(* The rows of a page.                                                     *)
LEMMA PageStarts ==
  ASSUME NEW list \in NewestFirst, NEW from \in Nat
  PROVE  LET page == Page(list, from)
         IN  ReadSound([i \in DOMAIN page |-> Row(page[i])], <<>>, table)
<1> DEFINE V == VisibleIn(table)
           n == Cardinality(V)
           page == Page(list, from)
           p == [i \in DOMAIN page |-> Row(page[i])]
<1>1. /\ n \in Nat /\ list \in [1..n -> V]
      /\ \A i, j \in 1..n : i # j => list[i] # list[j]
  BY NewestFirstLists
<1> HIDE DEF n
<1>2. /\ page \in Seq(V)
      /\ \A i \in 1..Len(page) : page[i] = list[from + i] /\ from + i \in 1..n
  BY <1>1, PageLists
<1> HIDE DEF page
<1>3. DOMAIN page = 1..Len(page) /\ Len(page) \in Nat /\ \A i \in 1..Len(page) : page[i] \in V
  BY <1>2, LenProperties, ElementOfSeq
<1>4. \A i \in 1..Len(page) : Row(page[i]) \in RowsIn(table) /\ Row(page[i]).order = page[i]
  BY <1>3 DEF Row, RowsIn
<1>5. /\ p \in Seq(RowsIn(table)) /\ Len(p) = Len(page)
      /\ \A i \in 1..Len(p) : p[i].order = page[i]
  <2>1. p \in [1..Len(page) -> RowsIn(table)]
    BY <1>3, <1>4
  <2>2. p \in Seq(RowsIn(table)) /\ Len(p) = Len(page)
    BY <1>3, <2>1, IsASeq
  <2> QED
    BY <1>3, <1>4, <2>2
<1>6. Distinct(p)
  <2> HIDE DEF p
  <2> SUFFICES ASSUME NEW i \in 1..Len(p), NEW j \in 1..Len(p), p[i].order = p[j].order
               PROVE  i = j
    BY DEF Distinct
  <2>1. list[from + i] = list[from + j] /\ from + i \in 1..n /\ from + j \in 1..n
    BY <1>2, <1>5
  <2>2. from + i = from + j
    BY <1>1, <2>1
  <2> QED
    BY <2>2
<1> HIDE DEF p
<1>7. ReadSound(p, <<>>, table)
  BY <1>5, <1>6, ReadStarts
<1> QED
  BY <1>7 DEF p, page

(* What a request for one order starts with.                               *)
LEMMA OneRowStarts ==
  ASSUME NEW o \in Visible
  PROVE  ReadSound(<<Row(o)>>, <<>>, table)
<1>1. Row(o) \in RowsIn(table)
  BY DEF Visible, Row, RowsIn, VisibleIn
<1>2. <<Row(o)>> \in Seq(RowsIn(table)) /\ Distinct(<<Row(o)>>)
  BY <1>1 DEF Distinct
<1> QED
  BY <1>2, ReadStarts

(* The requests of all readers, and how far they have come with the pages. *)
Reading ==
  /\ pending \in [Readers -> Seq(RowsIn(table))]
  /\ response \in [Readers -> Seq(EntriesIn(table))]
  /\ \A r \in Readers : ReadSound(pending[r], response[r], table)
  /\ offset \in [Readers -> Nat]
  /\ seen \in [Readers -> SUBSET Orders] /\ known \in [Readers -> SUBSET Orders]
  /\ walked \in [Readers -> BOOLEAN]

(* A statement of one reader's request.                                    *)
LEMMA OneReads ==
  ASSUME Reading, UNCHANGED table, NEW r \in Readers, NEW p, NEW a, ReadSound(p, a, table),
         pending' = [pending EXCEPT ![r] = p], response' = [response EXCEPT ![r] = a]
  PROVE  /\ pending' \in [Readers -> Seq(RowsIn(table'))]
         /\ response' \in [Readers -> Seq(EntriesIn(table'))]
         /\ \A n \in Readers : ReadSound(pending'[n], response'[n], table')
<1>1. p \in Seq(RowsIn(table)) /\ a \in Seq(EntriesIn(table)) /\ table' = table
  BY DEF ReadSound
<1>2. /\ pending' \in [Readers -> Seq(RowsIn(table))]
      /\ response' \in [Readers -> Seq(EntriesIn(table))]
  BY <1>1 DEF Reading
<1>3. ASSUME NEW n \in Readers PROVE ReadSound(pending'[n], response'[n], table)
  <2>1. CASE n = r
    BY <2>1 DEF Reading
  <2>2. CASE n # r
    BY <2>2 DEF Reading
  <2> QED
    BY <2>1, <2>2
<1> QED
  BY <1>1, <1>2, <1>3

(* A page holds visible orders.                                            *)
LEMMA PageTypes ==
  ASSUME NEW list \in NewestFirst, NEW from \in Nat
  PROVE  ToSet(Page(list, from)) \subseteq Visible
<1> DEFINE n == Cardinality(VisibleIn(table))
<1>1. n \in Nat /\ list \in [1..n -> VisibleIn(table)]
  BY NewestFirstLists
<1> HIDE DEF n
<1>2. Page(list, from) \in Seq(VisibleIn(table))
  BY <1>1, PageLists
<1>3. ToSet(Page(list, from)) \subseteq VisibleIn(table)
  BY <1>2, ElementsOf
<1> QED
  BY <1>3 DEF Visible, VisibleIn

(* No step spoils a request that is under way.                             *)
LEMMA ReadingStep ==
  ASSUME Reading, table \in Tables, TableMove, [Next]_vars
  PROVE  Reading'
<1>1. CASE UNCHANGED readVars
  <2>1. RowsIn(table) \subseteq RowsIn(table') /\ EntriesIn(table) \subseteq EntriesIn(table')
    BY TableGrows
  <2>2. UNCHANGED <<pending, response, offset, seen, known, walked>>
    BY <1>1 DEF readVars
  <2>3. \A r \in Readers : ReadSound(pending[r], response[r], table')
    BY <2>1, ReadGrows DEF Reading
  <2>4. /\ pending \in [Readers -> Seq(RowsIn(table'))]
        /\ response \in [Readers -> Seq(EntriesIn(table'))]
    BY <2>3 DEF Reading, ReadSound
  <2> QED
    BY <2>2, <2>3, <2>4 DEF Reading
<1>2. ASSUME NEW r \in Readers, NEW o \in Orders, FindByID(r, o) PROVE Reading'
  <2>1. /\ o \in Visible
        /\ pending' = [pending EXCEPT ![r] = <<Row(o)>>]
        /\ response' = [response EXCEPT ![r] = <<>>]
        /\ UNCHANGED <<table, offset, seen, known, walked>>
    BY <1>2 DEF FindByID
  <2>2. ReadSound(<<Row(o)>>, <<>>, table)
    BY <2>1, OneRowStarts
  <2>3. /\ pending' \in [Readers -> Seq(RowsIn(table'))]
        /\ response' \in [Readers -> Seq(EntriesIn(table'))]
        /\ \A n \in Readers : ReadSound(pending'[n], response'[n], table')
    BY <2>1, <2>2, OneReads
  <2> QED
    BY <2>1, <2>3 DEF Reading
<1>3. ASSUME NEW r \in Readers, FindAll(r) PROVE Reading'
  <2>1. PICK list \in NewestFirst :
          LET page == Page(list, offset[r])
          IN  /\ pending' = [pending EXCEPT ![r] = [i \in DOMAIN page |-> Row(page[i])]]
              /\ response' = [response EXCEPT ![r] = <<>>]
              /\ offset' = [offset EXCEPT ![r] = IF page = <<>> THEN 0 ELSE @ + Limit]
              /\ seen' = [seen EXCEPT ![r] =
                   IF offset[r] = 0 THEN ToSet(page) ELSE @ \cup ToSet(page)]
              /\ walked' = [walked EXCEPT ![r] = page = <<>>]
    BY <1>3 DEF FindAll
  <2> DEFINE page == Page(list, offset[r])
             p == [i \in DOMAIN page |-> Row(page[i])]
  <2>2. UNCHANGED table
    BY <1>3 DEF FindAll
  <2>3. offset[r] \in Nat /\ Limit \in Nat
    BY StoreAssumption DEF Reading
  <2>4. ReadSound(p, <<>>, table)
    BY <2>3, PageStarts
  <2>5. ToSet(page) \subseteq Orders /\ Visible \subseteq Orders
    BY <2>3, PageTypes DEF Visible
  <2>6. known' = [known EXCEPT ![r] = IF offset[r] = 0 THEN Visible ELSE known[r]]
    BY <1>3 DEF FindAll
  <2> HIDE DEF p, page
  <2>7. /\ pending' = [pending EXCEPT ![r] = p] /\ response' = [response EXCEPT ![r] = <<>>]
        /\ offset' = [offset EXCEPT ![r] = IF page = <<>> THEN 0 ELSE offset[r] + Limit]
        /\ seen' = [seen EXCEPT ![r] =
             IF offset[r] = 0 THEN ToSet(page) ELSE seen[r] \cup ToSet(page)]
        /\ walked' = [walked EXCEPT ![r] = (page = <<>>)]
    BY <2>1 DEF p, page
  <2>8. /\ pending' \in [Readers -> Seq(RowsIn(table'))]
        /\ response' \in [Readers -> Seq(EntriesIn(table'))]
        /\ \A n \in Readers : ReadSound(pending'[n], response'[n], table')
    BY <2>2, <2>4, <2>7, OneReads
  <2>9. offset' \in [Readers -> Nat]
    BY <2>3, <2>7 DEF Reading
  <2>10. seen' \in [Readers -> SUBSET Orders] /\ known' \in [Readers -> SUBSET Orders]
    BY <2>5, <2>6, <2>7 DEF Reading
  <2>11. walked' \in [Readers -> BOOLEAN]
    BY <2>7 DEF Reading
  <2> QED
    BY <2>8, <2>9, <2>10, <2>11 DEF Reading
<1>4. ASSUME NEW r \in Readers, FindItems(r) PROVE Reading'
  <2> DEFINE o == Head(pending[r]).order
             e == [order |-> o, items |-> table[o].items, total |-> Head(pending[r]).total]
  <2>1. /\ pending[r] # <<>>
        /\ pending' = [pending EXCEPT ![r] = Tail(pending[r])]
        /\ response' = [response EXCEPT ![r] = Append(response[r], e)]
        /\ UNCHANGED <<table, offset, seen, known, walked>>
    BY <1>4 DEF FindItems, Idle
  <2>2. ReadSound(Tail(pending[r]), Append(response[r], e), table)
    BY <2>1, ReadGoesOn DEF Reading
  <2> HIDE DEF e
  <2>3. /\ pending' \in [Readers -> Seq(RowsIn(table'))]
        /\ response' \in [Readers -> Seq(EntriesIn(table'))]
        /\ \A n \in Readers : ReadSound(pending'[n], response'[n], table')
    BY <2>1, <2>2, OneReads
  <2> QED
    BY <2>1, <2>3 DEF Reading
<1>5. <<>> \in Seq(RowsIn(table)) /\ Distinct(<<>>) /\ ReadSound(<<>>, <<>>, table)
  <2>1. <<>> \in Seq(RowsIn(table)) /\ Distinct(<<>>)
    BY DEF Distinct
  <2> QED
    BY <2>1, ReadStarts
<1>6. ASSUME NEW r \in Readers, FailRead(r) PROVE Reading'
  <2>1. /\ pending' = [pending EXCEPT ![r] = <<>>]
        /\ response' = [response EXCEPT ![r] = <<>>]
        /\ offset' = [offset EXCEPT ![r] = 0]
        /\ UNCHANGED <<table, seen, known, walked>>
    BY <1>6 DEF FailRead
  <2>2. /\ pending' \in [Readers -> Seq(RowsIn(table'))]
        /\ response' \in [Readers -> Seq(EntriesIn(table'))]
        /\ \A n \in Readers : ReadSound(pending'[n], response'[n], table')
    BY <1>5, <2>1, OneReads
  <2>3. offset' \in [Readers -> Nat]
    BY <2>1 DEF Reading
  <2> QED
    BY <2>1, <2>2, <2>3 DEF Reading
<1>7. CASE Crash
  <2>1. /\ pending' = [r \in Readers |-> <<>>]
        /\ response' = [r \in Readers |-> IF Idle(r) THEN response[r] ELSE <<>>]
        /\ offset' = [r \in Readers |-> IF Idle(r) THEN offset[r] ELSE 0]
        /\ UNCHANGED <<table, seen, known, walked>>
    BY <1>7 DEF Crash
  <2>2. ASSUME NEW r \in Readers
        PROVE  ReadSound(pending'[r], response'[r], table)
    <3>1. response'[r] = <<>> \/ response'[r] = response[r]
      BY <2>1
    <3>2. response[r] \in Seq(EntriesIn(table)) /\ Distinct(response[r])
      BY DEF Reading, ReadSound
    <3>3. pending'[r] = <<>>
      BY <2>1
    <3> QED
      BY <1>5, <3>1, <3>2, <3>3, ReadEnds
  <2>3. /\ pending' \in [Readers -> Seq(RowsIn(table))]
        /\ response' \in [Readers -> Seq(EntriesIn(table))]
    BY <2>1, <2>2 DEF ReadSound
  <2>4. offset' \in [Readers -> Nat]
    BY <2>1 DEF Reading
  <2> QED
    BY <2>1, <2>2, <2>3, <2>4 DEF Reading
<1>8. ASSUME NEW o \in Orders, CreateStep(o) \/ FailCreate(o) PROVE UNCHANGED readVars
  BY <1>8 DEF CreateStep, LookUp, BeginCreate, InsertItem, UpdateTotal, CommitCreate, FailCreate
<1> QED
  BY <1>1, <1>2, <1>3, <1>4, <1>6, <1>7, <1>8 DEF Next, ReadStep, Reprice, vars

-----------------------------------------------------------------------------
(* The steps of Create.                                                    *)

(* The inductive invariant.                                                *)
StoreInv == TypeOK /\ ClockInv /\ CreateTypes /\ Reading /\ Creates

(* Types are kept by every step.                                           *)
LEMMA TypeStep ==
  ASSUME StoreInv, [Next]_vars
  PROVE  TypeOK' /\ CreateTypes'
<1> USE DEF StoreInv
<1>0. TableMove /\ table \in Tables
  BY TableMoves DEF TypeOK, Tables
<1>1. clock' \in 0..Cardinality(Orders)
  BY ClockStep
<1>2. table' \in [Orders -> StoredOrders \cup {NoRow}]
  BY <1>0, TableGrows DEF Tables
<1>3. Reading'
  BY <1>0, ReadingStep
<1>4. clock \in Nat
  BY StoreAssumption, FS_CardinalityType DEF TypeOK
<1>5. ASSUME NEW o \in Orders, CreateStep(o) \/ FailCreate(o) PROVE CreateTypes'
  <2>1. CASE LookUp(o)
    BY <2>1, LookUpTypes DEF TypeOK
  <2>2. CASE BeginCreate(o)
    BY <1>4, <2>2, BeginTypes
  <2>3. CASE InsertItem(o)
    BY <2>3, InsertTypes
  <2>4. CASE UpdateTotal(o)
    BY <2>4, TotalTypes
  <2>5. CASE CommitCreate(o)
    <3>1. \E l \in {"created", "failed"} : Return({o}, l)
      BY <2>5 DEF CommitCreate
    <3> QED
      BY <3>1, ReturnTypes
  <2>6. CASE FailCreate(o)
    BY <2>6, ReturnTypes DEF FailCreate
  <2> QED
    BY <1>5, <2>1, <2>2, <2>3, <2>4, <2>5, <2>6 DEF CreateStep
<1>6. ASSUME Crash PROVE CreateTypes'
  <2>1. Creating \in SUBSET Orders
    BY DEF Creating
  <2> DEFINE os == Creating
  <2>2. Return(os, "failed") /\ os \in SUBSET Orders
    BY <1>6, <2>1 DEF Crash
  <2> HIDE DEF os
  <2> QED
    BY <2>2, ReturnTypes
<1>7. ASSUME UNCHANGED createVars PROVE CreateTypes'
  <2>1. UNCHANGED <<pc, at, products, sum, rows>>
    BY <1>7 DEF createVars
  <2> QED
    BY <2>1 DEF CreateTypes
<1>8. CreateTypes'
  BY <1>5, <1>6, <1>7
     DEF Next, ReadStep, FindByID, FindAll, FindItems, FailRead, Reprice, vars
<1>9. price' \in [Products -> Prices] /\ puts' \in 0..MaxPuts
  <2>1. CASE UNCHANGED priceVars
    BY <2>1 DEF priceVars, TypeOK
  <2>2. ASSUME NEW p \in Products, NEW n \in Prices, Reprice(p, n)
        PROVE  price' \in [Products -> Prices] /\ puts' \in 0..MaxPuts
    <3>1. price' = [price EXCEPT ![p] = n] /\ puts' = puts + 1 /\ puts < MaxPuts
      BY <2>2 DEF Reprice
    <3> QED
      BY <3>1, StoreAssumption DEF TypeOK
  <2>3. ASSUME NEW o \in Orders, CreateStep(o) \/ FailCreate(o) PROVE UNCHANGED priceVars
    BY <2>3 DEF CreateStep, LookUp, BeginCreate, InsertItem, UpdateTotal, CommitCreate, FailCreate
  <2>4. ASSUME NEW r \in Readers, ReadStep(r) \/ FailRead(r) PROVE UNCHANGED priceVars
    BY <2>4 DEF ReadStep, FindByID, FindAll, FindItems, FailRead
  <2> QED
    BY <2>1, <2>2, <2>3, <2>4 DEF Next, Crash, vars
<1>10. \A o \in Orders : pc'[o] = "created" => o \in Visible'
  <2>1. ASSUME NEW o \in Orders, pc'[o] = "created", pc[o] = "created" PROVE table'[o] # NoRow
    BY <1>0, <2>1, TableGrows DEF TypeOK, Visible, VisibleIn
  <2>2. ASSUME NEW o \in Orders, pc'[o] = "created", pc[o] # "created" PROVE table'[o] # NoRow
    <3>1. ASSUME NEW n \in Orders, CommitCreate(n) PROVE table'[o] # NoRow
      <4>1. n = o
        BY <2>2, <3>1 DEF CommitCreate, Return
      <4>2. table'[o] = rows[o] /\ rows[o] \in StoredOrders
        BY <3>1, <4>1 DEF CommitCreate, TypeOK
      <4> QED
        BY <4>2, StoreAssumption
    <3>2. ASSUME NEW n \in Orders, CreateStep(n) \/ FailCreate(n), ~ CommitCreate(n) PROVE FALSE
      BY <2>2, <3>2
         DEF CreateStep, LookUp, BeginCreate, InsertItem, UpdateTotal, FailCreate, Return, GoTo,
             TypeOK
    <3>3. ~ Crash /\ ~ UNCHANGED pc
      BY <2>2 DEF Crash, Return
    <3> QED
      BY <3>1, <3>2, <3>3
         DEF Next, ReadStep, FindByID, FindAll, FindItems, FailRead, Reprice, vars, createVars
  <2> QED
    BY <2>1, <2>2 DEF Visible
<1> QED
  BY <1>1, <1>2, <1>3, <1>8, <1>9, <1>10 DEF TypeOK, CreateTypes, Reading

(* SubSeq grows by one element at its end.                                 *)
LEMMA PrefixGrows ==
  ASSUME NEW S, NEW q \in Seq(S), NEW k \in 1..Len(q)
  PROVE  SubSeq(q, 1, k) = Append(SubSeq(q, 1, k - 1), q[k])
<1>1. Len(q) \in Nat /\ k \in Nat /\ k - 1 \in Nat
  OBVIOUS
<1>2. SubSeq(q, 1, k) \in Seq(S) /\ SubSeq(q, 1, k - 1) \in Seq(S) /\ q[k] \in S
  OBVIOUS
<1>3. Len(SubSeq(q, 1, k)) = k /\ Len(SubSeq(q, 1, k - 1)) = k - 1
  BY <1>1
<1>4. Append(SubSeq(q, 1, k - 1), q[k]) \in Seq(S) /\ Len(Append(SubSeq(q, 1, k - 1), q[k])) = k
  BY <1>1, <1>2, <1>3
<1>5. \A i \in 1..k : SubSeq(q, 1, k)[i] = Append(SubSeq(q, 1, k - 1), q[k])[i]
  BY <1>1, <1>2, <1>3
<1> DEFINE a == SubSeq(q, 1, k)  b == Append(SubSeq(q, 1, k - 1), q[k])
<1>6. a \in Seq(S) /\ b \in Seq(S) /\ Len(a) = k /\ Len(b) = k /\ \A i \in 1..k : a[i] = b[i]
  BY <1>2, <1>3, <1>4, <1>5
<1> HIDE DEF a, b
<1>7. a = b
  BY <1>6, SeqEqual
<1> QED
  BY <1>7 DEF a, b

(* The items of an order as Create will have written them.                 *)
LEMMA PricedItems ==
  ASSUME NEW o \in Orders, NEW prices,
         \A i \in 1..Len(Items[o]) : prices[Items[o][i].product] \in Prices
  PROVE  /\ Book!Priced(o, prices) \in Seq(StoredItems)
         /\ Len(Book!Priced(o, prices)) = Len(Items[o])
         /\ \A i \in 1..Len(Items[o]) :
              Book!Priced(o, prices)[i] =
                [product |-> Items[o][i].product, quantity |-> Items[o][i].quantity,
                 price |-> prices[Items[o][i].product]]
<1> DEFINE n == Len(Items[o])
           P == Book!Priced(o, prices)
<1>1. n \in Nat /\ DOMAIN Items[o] = 1..n
  BY LineTypes
<1>2. P = [i \in 1..n |-> [product |-> Items[o][i].product, quantity |-> Items[o][i].quantity,
                           price |-> prices[Items[o][i].product]]]
  BY <1>1 DEF Book!Priced
<1>3. \A i \in 1..n : Items[o][i].product \in Products /\ Items[o][i].quantity \in Nat \ {0}
  BY LineTypes
<1> HIDE DEF P
<1>4. P \in [1..n -> StoredItems]
  BY <1>2, <1>3 DEF StoredItems
<1> HIDE DEF n
<1>5. P \in Seq(StoredItems) /\ Len(P) = n
  BY <1>1, <1>4, IsASeq
<1> QED
  BY <1>2, <1>5 DEF P, n

(* Another call's step, or a reader's, leaves a call as it was.            *)
LEMMA UntouchedCreate ==
  ASSUME NEW o \in Orders, CreateInv(o),
         pc'[o] = pc[o], at'[o] = at[o], products'[o] = products[o], sum'[o] = sum[o],
         rows'[o] = rows[o], table'[o] = table[o]
  PROVE  CreateInv(o)'
  BY DEF CreateInv, WritesSound

(* Nothing is asked of a call that is over.                                *)
LEMMA OverCreate ==
  ASSUME NEW o \in Orders, pc'[o] \in {"created", "failed"}
  PROVE  CreateInv(o)'
  BY DEF CreateInv, WritesSound

(* One more product has a price; after the last one, all of them have.     *)
LEMMA LookUpStep ==
  ASSUME StoreInv, NEW o \in Orders, LookUp(o)
  PROVE  CreateInv(o)'
<1> DEFINE m == Len(ProductOrder(o))
           p == ProductOrder(o)[at[o]]
<1>1. /\ pc[o] = "lookup" /\ products' = [products EXCEPT ![o][p] = price[p]]
      /\ UNCHANGED <<sum, rows, table>>
      /\ \/ /\ at[o] < m /\ at' = [at EXCEPT ![o] = at[o] + 1] /\ UNCHANGED pc
         \/ ~ (at[o] < m) /\ at' = [at EXCEPT ![o] = 1] /\ pc' = [pc EXCEPT ![o] = "begin"]
  BY DEF LookUp, GoTo
<1>2. /\ at[o] <= m /\ sum[o] = 0 /\ table[o] = NoRow
      /\ \A i \in 1..(at[o] - 1) : products[o][ProductOrder(o)[i]] \in Prices
  BY <1>1 DEF StoreInv, Creates, CreateInv
<1>3. m \in 1..Len(Items[o]) /\ \A i \in 1..m : ProductOrder(o)[i] \in Products
  BY LooksUpEveryProduct
<1>4. at[o] \in 1..m /\ Len(Items[o]) \in Nat
  <2>1. at[o] \in 1..Len(Items[o]) /\ Len(Items[o]) \in Nat
    BY LineTypes DEF StoreInv, CreateTypes
  <2> QED
    BY <1>2, <1>3, <2>1
<1>5. p \in Products /\ price[p] \in Prices
  BY <1>3, <1>4 DEF StoreInv, TypeOK
<1>6. products'[o] = [products[o] EXCEPT ![p] = price[p]]
  BY <1>1 DEF StoreInv, CreateTypes
<1>7. \A i \in 1..at[o] : products'[o][ProductOrder(o)[i]] \in Prices
  <2> SUFFICES ASSUME NEW i \in 1..at[o]
               PROVE  products'[o][ProductOrder(o)[i]] \in Prices
    OBVIOUS
  <2>1. i \in 1..m
    BY <1>3, <1>4
  <2>2. ProductOrder(o)[i] \in Products /\ products[o] \in [Products -> Prices \cup {NoRow}]
    BY <1>3, <2>1 DEF StoreInv, CreateTypes
  <2>3. CASE ProductOrder(o)[i] = p
    BY <1>5, <1>6, <2>2, <2>3
  <2>4. CASE ProductOrder(o)[i] # p
    <3>1. i \in 1..(at[o] - 1)
      BY <1>3, <1>4, <2>4
    <3>2. products[o][ProductOrder(o)[i]] \in Prices
      BY <1>2, <3>1
    <3> QED
      BY <1>6, <2>2, <2>4, <3>2
  <2> QED
    BY <2>3, <2>4
<1>8. sum'[o] = 0 /\ table'[o] = NoRow
  BY <1>1, <1>2
<1>9. CASE at[o] < m /\ at' = [at EXCEPT ![o] = at[o] + 1] /\ UNCHANGED pc
  <2>1. at'[o] = at[o] + 1 /\ pc'[o] = "lookup"
    BY <1>1, <1>9 DEF StoreInv, CreateTypes
  <2>2. at'[o] <= m /\ at'[o] - 1 = at[o]
    BY <1>3, <1>4, <1>9, <2>1
  <2>3. \A i \in 1..(at'[o] - 1) : products'[o][ProductOrder(o)[i]] \in Prices
    BY <1>7, <2>2
  <2> QED
    BY <1>8, <2>1, <2>2, <2>3 DEF CreateInv, WritesSound
<1>10. CASE ~ (at[o] < m) /\ at' = [at EXCEPT ![o] = 1] /\ pc' = [pc EXCEPT ![o] = "begin"]
  <2>1. at'[o] = 1 /\ pc'[o] = "begin"
    BY <1>10 DEF StoreInv, CreateTypes
  <2>2. at[o] = m
    BY <1>3, <1>4, <1>10
  <2>3. ASSUME NEW i \in 1..Len(Items[o])
        PROVE  products'[o][Items[o][i].product] \in Prices
    <3>1. PICK j \in 1..m : ProductOrder(o)[j] = Items[o][i].product
      BY LooksUpEveryProduct
    <3>2. products'[o][ProductOrder(o)[j]] \in Prices
      BY <1>7, <2>2
    <3> QED
      BY <3>1, <3>2
  <2> QED
    BY <1>8, <2>1, <2>3 DEF CreateInv, WritesSound
<1> QED
  BY <1>1, <1>9, <1>10

(* Nothing is written yet, and its sum is 0.                               *)
LEMMA BeginStep ==
  ASSUME StoreInv, NEW o \in Orders, BeginCreate(o)
  PROVE  CreateInv(o)'
<1>1. /\ pc[o] = "begin" /\ pc'[o] = "item" /\ rows'[o].items = <<>>
      /\ at'[o] = at[o] /\ products'[o] = products[o] /\ sum'[o] = sum[o]
      /\ table'[o] = table[o]
  BY DEF BeginCreate, GoTo, StoreInv, CreateTypes
<1>2. /\ at[o] = 1 /\ sum[o] = 0 /\ table[o] = NoRow
      /\ \A i \in 1..Len(Items[o]) : products[o][Items[o][i].product] \in Prices
  BY <1>1 DEF StoreInv, Creates, CreateInv
<1>3. SubSeq(Book!Priced(o, products[o]), 1, at[o] - 1) = <<>>
  BY <1>2, SubSeqEmpty
<1>4. sum'[o] = Book!Total(rows'[o].items)
  BY <1>1, <1>2, TotalOfItems
<1> QED
  BY <1>1, <1>2, <1>3, <1>4 DEF CreateInv, WritesSound

(* One more line is written, and its share added to the sum.               *)
LEMMA InsertStep ==
  ASSUME StoreInv, NEW o \in Orders, InsertItem(o)
  PROVE  CreateInv(o)'
<1> DEFINE n == Len(Items[o])
           P == Book!Priced(o, products[o])
           k == at[o]
<1>1. PICK item \in StoredItems :
        /\ item = [product |-> Items[o][at[o]].product,
                   quantity |-> Items[o][at[o]].quantity,
                   price |-> products[o][Items[o][at[o]].product]]
        /\ at[o] \in 1..Len(Items[o]) /\ rows[o] \in StoredOrders
        /\ rows' = [rows EXCEPT ![o].items = Append(rows[o].items, item)]
        /\ sum' = [sum EXCEPT ![o] = sum[o] + item.quantity * item.price]
        /\ \/ /\ at[o] < Len(Items[o]) /\ at' = [at EXCEPT ![o] = at[o] + 1]
              /\ UNCHANGED pc
           \/ /\ ~ (at[o] < Len(Items[o])) /\ UNCHANGED at
              /\ pc' = [pc EXCEPT ![o] = "total"]
  BY LineInserted DEF StoreInv
<1>2. pc[o] = "item" /\ UNCHANGED <<products, table>>
  BY DEF InsertItem
<1>3. /\ table[o] = NoRow
      /\ \A i \in 1..n : products[o][Items[o][i].product] \in Prices
      /\ rows[o].items = SubSeq(P, 1, k - 1)
      /\ sum[o] = Book!Total(rows[o].items)
  BY <1>2 DEF StoreInv, Creates, CreateInv, WritesSound
<1>4. P \in Seq(StoredItems) /\ Len(P) = n /\ P[k] = item
  BY <1>1, <1>3, PricedItems
<1> HIDE DEF P, n, k
<1>5. /\ rows'[o].items = Append(rows[o].items, item)
      /\ sum'[o] = sum[o] + item.quantity * item.price
  BY <1>1 DEF StoreInv, CreateTypes, StoredOrders
<1>6. rows'[o].items = SubSeq(P, 1, k)
  <2>1. k \in 1..Len(P)
    BY <1>1, <1>4 DEF k, n
  <2> QED
    BY <1>3, <1>4, <1>5, <2>1, PrefixGrows
<1>7. sum'[o] = Book!Total(rows'[o].items)
  <2>1. rows[o].items \in Seq(StoredItems)
    BY <1>1 DEF StoredOrders
  <2> QED
    BY <1>3, <1>5, <2>1, TotalOfItems
<1>8. k \in Nat /\ n \in Nat /\ k <= n
  BY <1>1 DEF k, n
<1>9. CASE at[o] < Len(Items[o]) /\ at' = [at EXCEPT ![o] = at[o] + 1] /\ UNCHANGED pc
  <2>1. at'[o] - 1 = k /\ pc'[o] = "item"
    BY <1>2, <1>8, <1>9 DEF StoreInv, CreateTypes, k
  <2> QED
    BY <1>2, <1>3, <1>6, <1>7, <2>1 DEF CreateInv, WritesSound, P, n
<1>10. CASE /\ ~ (at[o] < Len(Items[o])) /\ UNCHANGED at
            /\ pc' = [pc EXCEPT ![o] = "total"]
  <2>1. k = Len(Items[o]) /\ pc'[o] = "total"
    BY <1>8, <1>10 DEF StoreInv, CreateTypes, k, n
  <2> QED
    BY <1>2, <1>3, <1>6, <1>7, <2>1 DEF CreateInv, WritesSound, P, n
<1> QED
  BY <1>1, <1>9, <1>10

(* The sum becomes the total of the order.                                 *)
LEMMA TotalStep ==
  ASSUME StoreInv, NEW o \in Orders, UpdateTotal(o)
  PROVE  CreateInv(o)'
<1>0. pc[o] = "total" /\ UNCHANGED table
  BY DEF UpdateTotal
<1>1. CASE Return({o}, "failed")
  <2>1. pc'[o] = "failed"
    BY <1>1 DEF Return
  <2> QED
    BY <2>1, OverCreate
<1>2. CASE /\ sum[o] <= MaxCents /\ rows' = [rows EXCEPT ![o].total = sum[o]]
           /\ pc' = [pc EXCEPT ![o] = "commit"] /\ UNCHANGED <<at, products, sum>>
  <2>1. rows[o] \in StoredOrders
    BY <1>0 DEF StoreInv, CreateTypes
  <2>2. rows'[o].items = rows[o].items /\ rows'[o].total = sum[o] /\ pc'[o] = "commit"
    BY <1>2, <2>1 DEF StoreInv, CreateTypes, StoredOrders
  <2>3. /\ table[o] = NoRow
        /\ \A i \in 1..Len(Items[o]) : products[o][Items[o][i].product] \in Prices
        /\ rows[o].items = SubSeq(Book!Priced(o, products[o]), 1, Len(Items[o]))
        /\ sum[o] = Book!Total(rows[o].items)
    BY <1>0 DEF StoreInv, Creates, CreateInv, WritesSound
  <2> QED
    BY <1>0, <1>2, <2>2, <2>3 DEF CreateInv, WritesSound
<1> QED
  BY <1>1, <1>2 DEF UpdateTotal, GoTo

(* Every call of Create keeps its invariant, whoever moves.                *)
LEMMA CreatesStep ==
  ASSUME StoreInv, [Next]_vars
  PROVE  Creates'
<1> SUFFICES ASSUME NEW o \in Orders
             PROVE  CreateInv(o)'
  BY DEF Creates
<1>0. CreateInv(o) /\ CreateTypes
  BY DEF StoreInv, Creates
<1>1. CASE UNCHANGED <<createVars, table>>
  <2>1. UNCHANGED <<pc, at, products, sum, rows, table>>
    BY <1>1 DEF createVars
  <2> QED
    BY <1>0, <2>1, UntouchedCreate
<1>2. ASSUME NEW n \in Orders, CreateStep(n) \/ FailCreate(n), n = o
      PROVE  CreateInv(o)'
  <2>1. CASE LookUp(n)
    BY <1>2, <2>1, LookUpStep
  <2>2. CASE BeginCreate(n)
    BY <1>2, <2>2, BeginStep
  <2>3. CASE InsertItem(n)
    BY <1>2, <2>3, InsertStep
  <2>4. CASE UpdateTotal(n)
    BY <1>2, <2>4, TotalStep
  <2>5. CASE CommitCreate(n)
    <3>1. pc'[o] \in {"created", "failed"}
      BY <1>2, <2>5 DEF CommitCreate, Return
    <3> QED
      BY <3>1, OverCreate
  <2>6. CASE FailCreate(n)
    <3>1. pc'[o] \in {"created", "failed"}
      BY <1>2, <2>6 DEF FailCreate, Return
    <3> QED
      BY <3>1, OverCreate
  <2> QED
    BY <1>2, <2>1, <2>2, <2>3, <2>4, <2>5, <2>6 DEF CreateStep
<1>3. ASSUME NEW n \in Orders, CreateStep(n) \/ FailCreate(n), n # o
      PROVE  CreateInv(o)'
  <2>1. ASSUME NEW l, Return({n}, l)
        PROVE  /\ pc'[o] = pc[o] /\ at'[o] = at[o] /\ products'[o] = products[o]
               /\ sum'[o] = sum[o] /\ rows'[o] = rows[o]
    BY <1>3, <2>1 DEF Return
  <2>2. /\ pc'[o] = pc[o] /\ at'[o] = at[o] /\ products'[o] = products[o]
        /\ sum'[o] = sum[o] /\ rows'[o] = rows[o]
    <3>1. CASE LookUp(n)
      BY <1>0, <1>3, <3>1 DEF LookUp, GoTo, CreateTypes
    <3>2. CASE BeginCreate(n)
      BY <1>0, <1>3, <3>2 DEF BeginCreate, GoTo, CreateTypes
    <3>3. CASE InsertItem(n)
      BY <1>0, <1>3, <3>3 DEF InsertItem, GoTo, CreateTypes
    <3>4. CASE UpdateTotal(n)
      BY <1>0, <1>3, <2>1, <3>4 DEF UpdateTotal, GoTo, CreateTypes
    <3>5. CASE CommitCreate(n)
      BY <2>1, <3>5 DEF CommitCreate
    <3>6. CASE FailCreate(n)
      BY <2>1, <3>6 DEF FailCreate
    <3> QED
      BY <1>3, <3>1, <3>2, <3>3, <3>4, <3>5, <3>6 DEF CreateStep
  <2>3. table'[o] = table[o]
    BY <1>3 DEF CreateStep, LookUp, BeginCreate, InsertItem, UpdateTotal, CommitCreate,
                FailCreate, StoreInv, TypeOK
  <2> QED
    BY <1>0, <2>2, <2>3, UntouchedCreate
<1>4. ASSUME Crash PROVE CreateInv(o)'
  <2>1. CASE o \in Creating
    <3>1. pc'[o] = "failed"
      BY <1>4, <2>1 DEF Crash, Return
    <3> QED
      BY <3>1, OverCreate
  <2>2. CASE o \notin Creating
    <3>1. pc'[o] = pc[o] /\ pc[o] \in {"created", "failed"}
      BY <1>4, <2>2 DEF Crash, Return, Creating
    <3> QED
      BY <3>1, OverCreate
  <2> QED
    BY <2>1, <2>2
<1> QED
  BY <1>1, <1>2, <1>3, <1>4
     DEF Next, ReadStep, FindByID, FindAll, FindItems, FailRead, Reprice, vars

(* The invariant holds before the first request, ...                       *)
LEMMA StoreInvInit ==
  Init => StoreInv
<1> SUFFICES ASSUME Init
             PROVE  StoreInv
  OBVIOUS
<1>0. /\ Cardinality(Orders) \in Nat
      /\ \A o \in Orders : 1 \in DOMAIN Items[o]
      /\ NoPrices \in [Products -> Prices \cup {NoRow}]
  BY StoreAssumption, FS_CardinalityType, LineTypes DEF NoPrices
<1>1. CreateTypes
  BY <1>0 DEF Init, CreateTypes, PcValues
<1>2. TypeOK
  <2>0. InitialPrices \subseteq Prices /\ MaxPuts \in Nat
    BY StoreAssumption
  <2>1. price \in [Products -> Prices] /\ puts \in 0..MaxPuts
    BY <2>0 DEF Init
  <2>2. table \in [Orders -> StoredOrders \cup {NoRow}] /\ clock \in 0..Cardinality(Orders)
    BY <1>0 DEF Init
  <2>3. \A o \in Orders : pc[o] # "created"
    BY DEF Init
  <2>4. /\ offset \in [Readers -> Nat]
        /\ seen \in [Readers -> SUBSET Orders] /\ known \in [Readers -> SUBSET Orders]
        /\ walked \in [Readers -> BOOLEAN]
    BY DEF Init
  <2> QED
    BY <1>1, <2>1, <2>2, <2>3, <2>4 DEF TypeOK, CreateTypes
<1>3. ClockInv
  <2>1. WaitingIn(pc) = Orders
    BY DEF Init, WaitingIn
  <2> QED
    BY <1>0, <2>1 DEF Init, ClockInv
<1>4. Reading
  <2>1. <<>> \in Seq(RowsIn(table)) /\ <<>> \in Seq(EntriesIn(table)) /\ Distinct(<<>>)
    BY DEF Distinct
  <2>2. ReadSound(<<>>, <<>>, table)
    BY <2>1, ReadStarts
  <2> QED
    BY <2>1, <2>2 DEF Init, Reading
<1>5. Creates
  <2> SUFFICES ASSUME NEW o \in Orders
               PROVE  CreateInv(o)
    BY DEF Creates
  <2>1. pc[o] = "lookup" /\ at[o] = 1 /\ sum[o] = 0 /\ table[o] = NoRow
    BY DEF Init
  <2>2. 1 <= Len(ProductOrder(o))
    BY LooksUpEveryProduct
  <2> QED
    BY <2>1, <2>2 DEF CreateInv, WritesSound
<1> QED
  BY <1>1, <1>2, <1>3, <1>4, <1>5 DEF StoreInv

(* ... is kept by every step, ...                                          *)
LEMMA StoreInvStep ==
  StoreInv /\ [Next]_vars => StoreInv'
<1> SUFFICES ASSUME StoreInv, [Next]_vars
             PROVE  StoreInv'
  OBVIOUS
<1>1. TableMove /\ table \in Tables
  BY TableMoves DEF StoreInv, TypeOK, Tables
<1>2. TypeOK' /\ CreateTypes'
  BY TypeStep
<1>3. ClockInv'
  BY ClockStep DEF StoreInv
<1>4. Reading'
  BY <1>1, ReadingStep DEF StoreInv
<1>5. Creates'
  BY CreatesStep
<1> QED
  BY <1>2, <1>3, <1>4, <1>5 DEF StoreInv

(* ... and so holds always.                                                *)
LEMMA StoreInvCorrect ==
  Spec => []StoreInv
  BY StoreInvInit, StoreInvStep, PTL DEF Spec

(* What the transactions have written is always the beginning of an order  *)
(* whose total is the sum of its items, and what a handler has read is     *)
(* what the table holds.                                                   *)
THEOREM StoreWritesAndReadsSoundly ==
  Spec => []Inv
<1>1. StoreInv => Inv
  <2> SUFFICES ASSUME StoreInv
               PROVE  Inv
    OBVIOUS
  <2>1. \A o \in Orders : WritesSound(o)
    BY DEF StoreInv, Creates, CreateInv
  <2>2. ASSUME NEW r \in Readers PROVE ReadsSound(r)
    <3>1. pending[r] \in Seq(RowsIn(table)) /\ response[r] \in Seq(EntriesIn(table))
      BY DEF StoreInv, Reading
    <3>2. ToSet(response[r]) \subseteq EntriesIn(table)
      BY <3>1, ElementsOf
    <3>3. ToSet(response[r]) \subseteq Book!Entries
      BY <3>2, EntriesAreRows DEF StoreInv, TypeOK, Tables
    <3>4. \A i \in DOMAIN pending[r] : pending[r][i] \in RowsIn(table)
      BY <3>1, LenProperties, ElementOfSeq
    <3>5. ASSUME NEW i \in DOMAIN pending[r]
          PROVE  LET o == pending[r][i].order IN o \in Visible /\ pending[r][i] = Row(o)
      <4>1. PICK o \in VisibleIn(table) :
              pending[r][i] = [order |-> o, total |-> table[o].total]
        BY <3>4 DEF RowsIn
      <4> QED
        BY <4>1 DEF VisibleIn, Visible, Row
    <3> QED
      BY <3>3, <3>5 DEF ReadsSound
  <2> QED
    BY <2>1, <2>2 DEF Inv, StoreInv
<1> QED
  BY <1>1, StoreInvCorrect, PTL

-----------------------------------------------------------------------------
(* The walk through the pages.                                             *)

Newer(t, o) == {n \in VisibleIn(t) : t[n].created_at > t[o].created_at}

(* A client in the middle of a walk has got every order it set out to get, *)
(* or the order is on a page still to come: there are at least as many     *)
(* newer ones as its offset.  Orders committed meanwhile, in whatever      *)
(* order they began, can only add to these.                                *)
WalkInv(r) ==
  /\ walked[r] => known[r] \subseteq seen[r]
  /\ offset[r] > 0 =>
       /\ known[r] \subseteq VisibleIn(table)
       /\ \A o \in known[r] \ seen[r] : offset[r] <= Cardinality(Newer(table, o))

Walks == \A r \in Readers : WalkInv(r)

(* There are finitely many orders.                                         *)
LEMMA NewerFinite ==
  ASSUME NEW t, NEW o
  PROVE  IsFiniteSet(Newer(t, o)) /\ Cardinality(Newer(t, o)) \in Nat
<1>1. Newer(t, o) \in SUBSET Orders
  BY DEF Newer, VisibleIn
<1> QED
  BY <1>1, StoreAssumption, FS_Subset, FS_CardinalityType

(* An order never loses the newer ones it has.                             *)
LEMMA NewerGrows ==
  ASSUME table \in Tables, TableMove, NEW o \in VisibleIn(table)
  PROVE  Cardinality(Newer(table, o)) <= Cardinality(Newer(table', o))
<1>1. Newer(table, o) \in SUBSET Newer(table', o)
  BY TableGrows DEF Newer
<1> QED
  BY <1>1, NewerFinite, FS_Subset

(* The i-th order of the list has i - 1 newer ones.                        *)
LEMMA RankInList ==
  ASSUME NEW list \in NewestFirst, table \in Tables, NEW i \in 1..Cardinality(VisibleIn(table))
  PROVE  Cardinality(Newer(table, list[i])) = i - 1
<1> DEFINE V == VisibleIn(table)
           n == Cardinality(V)
           N == Newer(table, list[i])
<1>1. /\ n \in Nat /\ list \in [1..n -> V]
      /\ \A j, k \in 1..n : j # k => list[j] # list[k]
      /\ \A j, k \in 1..n :
           j < k => table[list[j]].created_at > table[list[k]].created_at
      /\ \A o \in V : \E j \in 1..n : list[j] = o
  BY NewestFirstLists
<1>2. i \in 1..n
  OBVIOUS
<1>3. \A o \in V : table[o].created_at \in Nat
  BY DEF VisibleIn, Tables, StoredOrders
<1> HIDE DEF n
<1>4. ASSUME NEW j \in 1..(i - 1) PROVE list[j] \in N
  <2>1. j \in 1..n /\ j < i
    BY <1>1, <1>2
  <2> QED
    BY <1>1, <1>2, <2>1 DEF Newer
<1>5. ASSUME NEW o \in N PROVE \E j \in 1..(i - 1) : list[j] = o
  <2>1. o \in V /\ table[o].created_at > table[list[i]].created_at
    BY DEF Newer
  <2>2. PICK j \in 1..n : list[j] = o
    BY <1>1, <2>1
  <2>3. table[list[i]].created_at \in Nat /\ table[list[j]].created_at \in Nat
    BY <1>1, <1>2, <1>3
  <2>4. j < i
    <3>1. j = i => FALSE
      BY <2>1, <2>2, <2>3
    <3>2. i < j => FALSE
      BY <1>1, <1>2, <2>1, <2>2, <2>3
    <3> QED
      BY <1>2, <3>1, <3>2
  <2> QED
    BY <1>2, <2>2, <2>4
<1> HIDE DEF N
<1> DEFINE f == [j \in 1..(i - 1) |-> list[j]]
           D == 1..(i - 1)
<1>6. f \in Bijection(D, N)
  <2>1. f \in [D -> N]
    BY <1>4
  <2>2. \A a, b \in D : f[a] = f[b] => a = b
    BY <1>1, <1>2
  <2>3. \A o \in N : \E j \in D : f[j] = o
    BY <1>5
  <2> HIDE DEF f, D
  <2> QED
    BY <2>1, <2>2, <2>3 DEF Bijection, Injection, Surjection, IsInjective
<1>7. IsFiniteSet(D) /\ Cardinality(D) = i - 1
  <2>1. 1 \in Int /\ i - 1 \in Int /\ i - 1 >= 0
    BY <1>1, <1>2
  <2>2. IsFiniteSet(D) /\ Cardinality(D) = IF 1 > i - 1 THEN 0 ELSE (i - 1) - 1 + 1
    BY <2>1, FS_Interval
  <2> QED
    BY <2>1, <2>2
<1> HIDE DEF f, D
<1>8. Cardinality(N) = Cardinality(D)
  <2>1. ExistsBijection(D, N)
    BY <1>6 DEF ExistsBijection
  <2> QED
    BY <1>7, <2>1, FS_Bijection
<1> QED
  BY <1>7, <1>8 DEF N

(* A page brings every order of the walk that is not further back.         *)
LEMMA PageStep ==
  ASSUME StoreInv, NEW r \in Readers, WalkInv(r), FindAll(r)
  PROVE  WalkInv(r)'
<1> DEFINE from == offset[r]
           V == VisibleIn(table)
           n == Cardinality(V)
           K == IF from = 0 THEN V ELSE known[r]
           got == IF from = 0 THEN {} ELSE seen[r]
<1>1. PICK list \in NewestFirst :
        LET page == Page(list, offset[r])
        IN  /\ offset' = [offset EXCEPT ![r] = IF page = <<>> THEN 0 ELSE @ + Limit]
            /\ seen' = [seen EXCEPT ![r] =
                 IF offset[r] = 0 THEN ToSet(page) ELSE @ \cup ToSet(page)]
            /\ walked' = [walked EXCEPT ![r] = page = <<>>]
  BY DEF FindAll
<1> DEFINE page == Page(list, from)
<1>2. /\ known' = [known EXCEPT ![r] = IF offset[r] = 0 THEN Visible ELSE known[r]]
      /\ UNCHANGED table
  BY DEF FindAll
<1>3. Visible = V
  BY DEF Visible, VisibleIn
<1>4. /\ offset'[r] = IF page = <<>> THEN 0 ELSE from + Limit
      /\ seen'[r] = got \cup ToSet(page)
      /\ walked'[r] = (page = <<>>)
      /\ known'[r] = K
  BY <1>1, <1>2, <1>3 DEF StoreInv, Reading
<1>5. from \in Nat /\ Limit \in Nat \ {0} /\ table \in Tables
  BY StoreAssumption DEF StoreInv, Reading, TypeOK, Tables
<1>6. /\ K \subseteq V
      /\ \A o \in K \ got : from <= Cardinality(Newer(table, o))
  <2>1. CASE from = 0
    BY <2>1, NewerFinite
  <2>2. CASE from # 0
    BY <1>5, <2>2 DEF WalkInv
  <2> QED
    BY <2>1, <2>2
<1> HIDE DEF K, got
<1>7. /\ n \in Nat /\ list \in [1..n -> V]
      /\ \A o \in V : \E i \in 1..n : list[i] = o
  BY NewestFirstLists
<1>8. \A i \in 1..n : Cardinality(Newer(table, list[i])) = i - 1
  BY <1>5, RankInList
<1> HIDE DEF n
<1>9. /\ page \in Seq(V)
      /\ Len(page) = IF from + Limit < n THEN Limit ELSE IF from < n THEN n - from ELSE 0
      /\ \A i \in 1..Len(page) : page[i] = list[from + i] /\ from + i \in 1..n
  BY <1>5, <1>7, PageLists
<1> HIDE DEF page, from
<1>10. /\ \A o : o \in ToSet(page) <=> \E i \in 1..Len(page) : page[i] = o
       /\ page = <<>> <=> Len(page) = 0
  BY <1>9, ElementsOf, EmptySeq
<1>11. ASSUME NEW o \in K \ got, o \notin ToSet(page)
       PROVE  page # <<>> /\ from + Limit <= Cardinality(Newer(table, o))
  <2>1. PICK i \in 1..n : list[i] = o
    BY <1>6, <1>7
  <2>2. Cardinality(Newer(table, o)) = i - 1 /\ from <= i - 1
    BY <1>6, <1>8, <2>1
  <2>3. from < n /\ Len(page) # 0 /\ Len(page) \in Nat
    BY <1>5, <1>7, <1>9, <2>2
  <2>4. i - from \notin 1..Len(page)
    <3> SUFFICES ASSUME i - from \in 1..Len(page)
                 PROVE  FALSE
      OBVIOUS
    <3>1. page[i - from] = list[from + (i - from)] /\ from + (i - from) = i
      BY <1>5, <1>9
    <3> QED
      BY <1>10, <1>11, <2>1, <3>1
  <2>5. i - from > Len(page)
    BY <1>5, <2>2, <2>3, <2>4
  <2>6. Len(page) = Limit
    BY <1>5, <1>7, <1>9, <2>3, <2>5
  <2> QED
    BY <1>5, <1>10, <2>2, <2>3, <2>5, <2>6
<1>12. walked'[r] => known'[r] \subseteq seen'[r]
  BY <1>4, <1>11
<1>13. offset'[r] > 0 => /\ known'[r] \subseteq VisibleIn(table')
                         /\ \A o \in known'[r] \ seen'[r] :
                              offset'[r] <= Cardinality(Newer(table', o))
  <2>1. offset'[r] > 0 => offset'[r] = from + Limit
    BY <1>4
  <2> QED
    BY <1>2, <1>4, <1>6, <1>11, <2>1
<1> QED
  BY <1>12, <1>13 DEF WalkInv

(* A reader that goes on with its walk, or gives it up.                    *)
LEMMA WalkStays ==
  ASSUME StoreInv, TableMove, NEW r \in Readers, WalkInv(r),
         offset'[r] = offset[r] \/ offset'[r] = 0,
         known'[r] = known[r], seen'[r] = seen[r], walked'[r] = walked[r]
  PROVE  WalkInv(r)'
<1>1. table \in Tables /\ offset[r] \in Nat
  BY DEF StoreInv, TypeOK, Tables, Reading
<1>2. CASE offset'[r] = 0
  BY <1>2 DEF WalkInv
<1>3. CASE offset[r] > 0 /\ offset'[r] = offset[r]
  <2>1. /\ known[r] \subseteq VisibleIn(table)
        /\ \A o \in known[r] \ seen[r] : offset[r] <= Cardinality(Newer(table, o))
    BY <1>3 DEF WalkInv
  <2>2. known[r] \subseteq VisibleIn(table')
    BY <1>1, <2>1, TableGrows
  <2>3. ASSUME NEW o \in known[r] \ seen[r]
        PROVE  offset[r] <= Cardinality(Newer(table', o))
    <3>1. Cardinality(Newer(table, o)) <= Cardinality(Newer(table', o))
      BY <1>1, <2>1, NewerGrows
    <3> QED
      BY <1>1, <2>1, <3>1, NewerFinite
  <2> QED
    BY <1>3, <2>2, <2>3 DEF WalkInv
<1> QED
  BY <1>1, <1>2, <1>3

(* Every walk keeps its invariant, whoever moves.                          *)
LEMMA WalksStep ==
  ASSUME StoreInv, Walks, [Next]_vars
  PROVE  Walks'
<1> SUFFICES ASSUME NEW r \in Readers
             PROVE  WalkInv(r)'
  BY DEF Walks
<1>0. WalkInv(r) /\ TableMove /\ Reading
  BY TableMoves DEF Walks, StoreInv
<1>1. CASE FindAll(r)
  BY <1>0, <1>1, PageStep
<1>2. ASSUME NEW n \in Readers, ReadStep(n) \/ FailRead(n), ~ FindAll(r)
      PROVE  WalkInv(r)'
  <2>1. /\ offset'[r] = offset[r] \/ offset'[r] = 0
        /\ known'[r] = known[r] /\ seen'[r] = seen[r] /\ walked'[r] = walked[r]
    <3>1. CASE FindAll(n)
      <4>1. n # r
        BY <1>2, <3>1
      <4> QED
        BY <1>0, <3>1, <4>1 DEF FindAll, Reading
    <3>2. CASE (\E o \in Orders : FindByID(n, o)) \/ FindItems(n)
      BY <3>2 DEF FindByID, FindItems
    <3>3. CASE FailRead(n)
      BY <1>0, <3>3 DEF FailRead, Reading
    <3> QED
      BY <1>2, <3>1, <3>2, <3>3 DEF ReadStep
  <2> QED
    BY <1>0, <2>1, WalkStays
<1>3. CASE UNCHANGED readVars
  <2>1. UNCHANGED <<offset, known, seen, walked>>
    BY <1>3 DEF readVars
  <2> QED
    BY <1>0, <2>1, WalkStays
<1>4. CASE Crash
  <2>1. offset'[r] = offset[r] \/ offset'[r] = 0
    BY <1>4 DEF Crash
  <2>2. UNCHANGED <<known, seen, walked>>
    BY <1>4 DEF Crash
  <2> QED
    BY <1>0, <2>1, <2>2, WalkStays
<1>5. ASSUME NEW o \in Orders, CreateStep(o) \/ FailCreate(o) PROVE UNCHANGED readVars
  BY <1>5 DEF CreateStep, LookUp, BeginCreate, InsertItem, UpdateTotal, CommitCreate, FailCreate
<1> QED
  BY <1>1, <1>2, <1>3, <1>4, <1>5 DEF Next, Reprice, vars

(* GET /pedidos, walked through to an empty page, leaves out no order that *)
(* was there at the start, for every limit and however many orders are     *)
(* committed between two pages.                                            *)
THEOREM WalksMissNothing ==
  Spec => []PagesMissNothing
<1>1. Init => Walks
  BY DEF Init, Walks, WalkInv
<1>2. StoreInv /\ Walks /\ [Next]_vars => Walks'
  BY WalksStep
<1>3. Walks => PagesMissNothing
  BY DEF Walks, WalkInv, PagesMissNothing
<1> QED
  BY <1>1, <1>2, <1>3, StoreInvCorrect, PTL DEF Spec

-----------------------------------------------------------------------------
(* The book.                                                               *)

(* The order that a commit adds to the book.                               *)
LEMMA CommitPlaces ==
  ASSUME StoreInv, NEW o \in Orders, CommitCreate(o)
  PROVE  /\ table[o] = NoRow /\ rows[o] \in StoredOrders
         /\ \E prices \in [Products -> Prices] :
              /\ rows[o].items = Book!Priced(o, prices)
              /\ rows[o].total = Book!Total(Book!Priced(o, prices))
              /\ rows[o].total <= MaxCents
<1> DEFINE n == Len(Items[o])
           P == Book!Priced(o, products[o])
           prices == [p \in Products |-> IF products[o][p] \in Prices
                                         THEN products[o][p] ELSE price[p]]
           Q == Book!Priced(o, prices)
<1>1. pc[o] = "commit"
  BY DEF CommitCreate
<1>2. /\ table[o] = NoRow
      /\ \A i \in 1..n : products[o][Items[o][i].product] \in Prices
      /\ rows[o].items = SubSeq(P, 1, n)
      /\ sum[o] = Book!Total(rows[o].items)
      /\ rows[o].total = sum[o] /\ sum[o] <= MaxCents
  BY <1>1 DEF StoreInv, Creates, CreateInv, WritesSound
<1>3. rows[o] \in StoredOrders
  BY <1>1 DEF StoreInv, CreateTypes
<1>4. prices \in [Products -> Prices]
  BY DEF StoreInv, TypeOK
<1>5. ASSUME NEW i \in 1..n
      PROVE  prices[Items[o][i].product] = products[o][Items[o][i].product]
  <2>1. Items[o][i].product \in Products /\ products[o][Items[o][i].product] \in Prices
    BY <1>2, LineTypes
  <2> QED
    BY <2>1
<1> HIDE DEF prices
<1>6. P = Q
  <2>1. DOMAIN Items[o] = 1..n
    BY LineTypes
  <2> HIDE DEF n
  <2> QED
    BY <1>5, <2>1 DEF Book!Priced
<1>7. P \in Seq(StoredItems) /\ Len(P) = n
  BY <1>2, PricedItems
<1>8. SubSeq(P, 1, n) = P
  <2> HIDE DEF P, n
  <2> QED
    BY <1>7, SubSeqFull
<1> HIDE DEF P, Q
<1>9. /\ rows[o].items = Q /\ rows[o].total = Book!Total(Q) /\ rows[o].total <= MaxCents
  BY <1>2, <1>6, <1>8
<1> QED
  BY <1>2, <1>3, <1>4, <1>9 DEF Q

TheBook == [o \in Orders |-> IF table[o] = NoRow THEN NoRow
                             ELSE [items |-> table[o].items, total |-> table[o].total]]

TheAnswers == [r \in Readers |-> IF pending[r] = <<>> THEN response[r] ELSE <<>>]

(* The abstract state does not move.                                       *)
LEMMA BookStutters ==
  ASSUME TheBook' = TheBook, TheAnswers' = TheAnswers
  PROVE  UNCHANGED Book!bookVars
  BY DEF TheBook, TheAnswers, Book!bookVars

(* A reader is answered with entries of the book, none of them twice.      *)
LEMMA BookAnswers ==
  ASSUME StoreInv, UNCHANGED table, NEW r \in Readers, NEW p, NEW a,
         ReadSound(p, a, table),
         pending' = [pending EXCEPT ![r] = p], response' = [response EXCEPT ![r] = a]
  PROVE  Book!Answer(r)
<1> DEFINE new == IF p = <<>> THEN a ELSE <<>>
<1>1. pending \in [Readers -> Seq(RowsIn(table))] /\ response \in [Readers -> Seq(EntriesIn(table))]
  BY DEF StoreInv, Reading
<1>2. TheAnswers' = [TheAnswers EXCEPT ![r] = TheAnswers'[r]] /\ TheAnswers'[r] = new
  <2>1. \A n \in Readers : TheAnswers'[n] = IF n = r THEN new ELSE TheAnswers[n]
    BY <1>1 DEF TheAnswers
  <2>2. /\ TheAnswers = [n \in Readers |-> TheAnswers[n]]
        /\ TheAnswers' = [n \in Readers |-> TheAnswers'[n]]
    BY DEF TheAnswers
  <2> HIDE DEF new
  <2> QED
    BY <2>1, <2>2
<1>3. new \in Seq(EntriesIn(table)) /\ Distinct(new)
  BY DEF ReadSound, Distinct
<1> HIDE DEF new
<1>4. DOMAIN new = 1..Len(new)
  BY <1>3, LenProperties
<1>5. \A i, j \in DOMAIN new : new[i] = new[j] => i = j
  BY <1>3, <1>4 DEF Distinct
<1>6. {new[i] : i \in DOMAIN new} \subseteq Book!Entries
  <2>1. \A i \in DOMAIN new : new[i] \in EntriesIn(table)
    BY <1>3, <1>4, ElementOfSeq
  <2>2. Book!Entries = EntriesIn(table)
    BY EntriesAreRows DEF StoreInv, TypeOK, Tables
  <2> HIDE DEF EntriesIn
  <2> QED
    BY <2>1, <2>2
<1>7. Book!IsInjective(TheAnswers'[r]) /\ Book!ToSet(TheAnswers'[r]) \subseteq Book!Entries
  BY <1>2, <1>5, <1>6 DEF Book!IsInjective, Book!ToSet
<1>8. TheBook' = TheBook
  BY DEF TheBook
<1> QED
  BY <1>2, <1>7, <1>8 DEF Book!Answer, TheBook, TheAnswers

(* An order appears at once.                                               *)
LEMMA BookPlaces ==
  ASSUME StoreInv, NEW o \in Orders, CommitCreate(o)
  PROVE  Book!Place(o)
<1>1. /\ table[o] = NoRow /\ rows[o] \in StoredOrders
      /\ table' = [table EXCEPT ![o] = rows[o]] /\ table \in Tables
      /\ UNCHANGED <<pending, response>>
  BY CommitPlaces DEF CommitCreate, StoreInv, TypeOK, Tables, readVars
<1>2. PICK prices \in [Products -> Prices] :
        /\ rows[o].items = Book!Priced(o, prices)
        /\ rows[o].total = Book!Total(Book!Priced(o, prices))
        /\ rows[o].total <= MaxCents
  BY CommitPlaces
<1> DEFINE entry == [items |-> Book!Priced(o, prices),
                     total |-> Book!Total(Book!Priced(o, prices))]
<1>3. table'[o] = rows[o] /\ rows[o] # NoRow /\ \A n \in Orders \ {o} : table'[n] = table[n]
  BY <1>1, StoreAssumption DEF Tables
<1>4. TheBook' = [TheBook EXCEPT ![o] = entry]
  <2>1. TheBook'[o] = entry
    BY <1>2, <1>3 DEF TheBook
  <2>2. \A n \in Orders \ {o} : TheBook'[n] = TheBook[n]
    BY <1>3 DEF TheBook
  <2>3. TheBook = [n \in Orders |-> TheBook[n]] /\ TheBook' = [n \in Orders |-> TheBook'[n]]
    BY DEF TheBook
  <2> HIDE DEF entry
  <2> QED
    BY <2>1, <2>2, <2>3
<1>5. TheBook[o] = NoRow
  BY <1>1 DEF TheBook
<1>6. TheAnswers' = TheAnswers
  BY <1>1 DEF TheAnswers
<1>7. Book!Total(Book!Priced(o, prices)) <= MaxCents
  BY <1>2
<1> QED
  BY <1>4, <1>5, <1>6, <1>7 DEF Book!Place, TheBook, TheAnswers

(* Every step is one of the book, or none.                                 *)
LEMMA BookStep ==
  ASSUME StoreInv, [Next]_vars
  PROVE  [Book!BookNext]_(Book!bookVars)
<1>1. ASSUME UNCHANGED <<table, pending, response>>
      PROVE  UNCHANGED Book!bookVars
  <2>1. TheBook' = TheBook /\ TheAnswers' = TheAnswers
    BY <1>1 DEF TheBook, TheAnswers
  <2> QED
    BY <2>1, BookStutters
<1>2. ASSUME NEW o \in Orders, CreateStep(o) \/ FailCreate(o)
      PROVE  Book!Place(o) \/ UNCHANGED Book!bookVars
  <2>1. CASE CommitCreate(o)
    BY <2>1, BookPlaces
  <2>2. CASE ~ CommitCreate(o)
    <3>1. UNCHANGED <<table, pending, response>>
      BY <1>2, <2>2 DEF CreateStep, LookUp, BeginCreate, InsertItem, UpdateTotal, FailCreate,
                        readVars
    <3> QED
      BY <1>1, <3>1
  <2> QED
    BY <2>1, <2>2
<1>3. ASSUME NEW r \in Readers, ReadStep(r)
      PROVE  Book!Answer(r)
  <2>1. ASSUME NEW o \in Orders, FindByID(r, o) PROVE Book!Answer(r)
    <3>1. /\ o \in Visible /\ UNCHANGED table
          /\ pending' = [pending EXCEPT ![r] = <<Row(o)>>]
          /\ response' = [response EXCEPT ![r] = <<>>]
      BY <2>1 DEF FindByID
    <3>2. ReadSound(<<Row(o)>>, <<>>, table)
      BY <3>1, OneRowStarts
    <3> QED
      BY <3>1, <3>2, BookAnswers
  <2>2. CASE FindAll(r)
    <3>1. PICK list \in NewestFirst :
            LET page == Page(list, offset[r])
            IN  /\ pending' = [pending EXCEPT ![r] = [i \in DOMAIN page |-> Row(page[i])]]
                /\ response' = [response EXCEPT ![r] = <<>>]
      BY <2>2 DEF FindAll
    <3> DEFINE page == Page(list, offset[r])
               p == [i \in DOMAIN page |-> Row(page[i])]
    <3>2. UNCHANGED table
      BY <2>2 DEF FindAll
    <3>3. offset[r] \in Nat
      BY DEF StoreInv, Reading
    <3>4. ReadSound(p, <<>>, table)
      BY <3>3, PageStarts
    <3>5. pending' = [pending EXCEPT ![r] = p] /\ response' = [response EXCEPT ![r] = <<>>]
      BY <3>1
    <3> HIDE DEF p
    <3> QED
      BY <3>2, <3>4, <3>5, BookAnswers
  <2>3. CASE FindItems(r)
    <3> DEFINE o == Head(pending[r]).order
               e == [order |-> o, items |-> table[o].items, total |-> Head(pending[r]).total]
    <3>1. /\ pending[r] # <<>> /\ UNCHANGED table
          /\ pending' = [pending EXCEPT ![r] = Tail(pending[r])]
          /\ response' = [response EXCEPT ![r] = Append(response[r], e)]
      BY <2>3 DEF FindItems, Idle
    <3>2. ReadSound(Tail(pending[r]), Append(response[r], e), table)
      BY <3>1, ReadGoesOn DEF StoreInv, Reading
    <3> HIDE DEF e
    <3> QED
      BY <3>1, <3>2, BookAnswers
  <2> QED
    BY <1>3, <2>1, <2>2, <2>3 DEF ReadStep
<1>4. ASSUME NEW r \in Readers, FailRead(r)
      PROVE  UNCHANGED Book!bookVars
  <2>1. /\ pending[r] # <<>> /\ UNCHANGED table
        /\ pending' = [pending EXCEPT ![r] = <<>>] /\ response' = [response EXCEPT ![r] = <<>>]
    BY <1>4 DEF FailRead, Idle
  <2>2. \A n \in Readers :
          (IF pending'[n] = <<>> THEN response'[n] ELSE <<>>)
            = (IF pending[n] = <<>> THEN response[n] ELSE <<>>)
    BY <2>1 DEF StoreInv, Reading
  <2>3. TheAnswers' = TheAnswers
    BY <2>2 DEF TheAnswers
  <2>4. TheBook' = TheBook
    BY <2>1 DEF TheBook
  <2> QED
    BY <2>3, <2>4, BookStutters
<1>5. ASSUME Crash
      PROVE  UNCHANGED Book!bookVars
  <2>1. /\ UNCHANGED table
        /\ pending' = [r \in Readers |-> <<>>]
        /\ response' = [r \in Readers |-> IF pending[r] = <<>> THEN response[r] ELSE <<>>]
    BY <1>5 DEF Crash, Idle
  <2>2. TheAnswers' = TheAnswers
    BY <2>1 DEF TheAnswers
  <2>3. TheBook' = TheBook
    BY <2>1 DEF TheBook
  <2> QED
    BY <2>2, <2>3, BookStutters
<1> QED
  <2>1. CASE \E p \in Products, n \in Prices : Reprice(p, n)
    BY <1>1, <2>1 DEF Reprice, readVars
  <2>2. CASE UNCHANGED vars
    BY <1>1, <2>2 DEF vars, readVars
  <2> QED
    BY <1>2, <1>3, <1>4, <1>5, <2>1, <2>2 DEF Next, Book!BookNext

(* Orders are read whole, at one price per product, although they are      *)
(* written and read by separate statements, for any number of readers: the *)
(* store implements the book.                                              *)
THEOREM ImplementsBook ==
  Spec => RefinesOrderBook
<1>1. Init => Book!BookInit
  <2> SUFFICES ASSUME Init
               PROVE  Book!BookInit
    OBVIOUS
  <2>1. TheBook = [o \in Orders |-> NoRow] /\ TheAnswers = [r \in Readers |-> <<>>]
    BY DEF Init, TheBook, TheAnswers
  <2> QED
    BY <2>1 DEF Book!BookInit, TheBook, TheAnswers
<1>2. StoreInv /\ [Next]_vars => [Book!BookNext]_(Book!bookVars)
  BY BookStep
<1> QED
  BY <1>1, <1>2, StoreInvCorrect, PTL DEF Spec, RefinesOrderBook, Book!BookSpec
=============================================================================
