----------------------------- MODULE OrderStore -----------------------------
(***************************************************************************)
(* orders_db between its writers and its readers: the statements of the    *)
(* transaction in which OrderService.Create stores an order, beside the    *)
(* statements of GET /pedidos/{id} and GET /pedidos?limit=..&offset=..,    *)
(* which run one by one over the pool, outside any transaction.            *)
(*                                                                         *)
(* Create   lookup -> begin -> item -> ... -> total -> commit -> created   *)
(*                                                                         *)
(* The reservations that Create makes between lookup and begin are those   *)
(* of OrderSaga, the status of an order is that of OrderService.  Prices   *)
(* and totals are in hundredths, which a float64 holds exactly enough for  *)
(* NUMERIC(10,2) to round to.                                              *)
(***************************************************************************)
EXTENDS Naturals, FiniteSets, SequencesExt

CONSTANTS
  Orders,         \* the calls of Create
  Items,          \* request.Items of each call: a sequence of lines
  Products,
  InitialPrices, Prices,
  MaxPuts,        \* how often prices may change
  MaxCents,       \* the largest total of NUMERIC(10,2)
  Readers,        \* the clients that read orders
  Limit,          \* the limit they ask for
  Faults,         \* the faults that may happen, a subset of AllFaults
  NoRow

AllFaults == {"error", "lostCommitAck", "crash"}

(* The rows of order_items, and an order with them.                        *)
StoredItems == [product : Products, quantity : Nat \ {0}, price : Prices]

StoredOrders == [total : Nat, items : Seq(StoredItems), created_at : Nat]

(* Create refuses a request without items and a quantity below 1.          *)
ASSUME StoreAssumption ==
  /\ IsFiniteSet(Orders)
  /\ Items \in [Orders -> Seq([product : Products, quantity : Nat \ {0}]) \ {<<>>}]
  /\ Faults \subseteq AllFaults
  /\ Prices \subseteq Nat /\ InitialPrices \subseteq Prices
  /\ MaxCents \in Nat /\ MaxPuts \in Nat
  /\ Limit \in Nat \ {0}
  /\ NoRow \notin StoredOrders \cup [items : Seq(StoredItems), total : Nat]

VARIABLES
  price,          \* stock_db: products.price
  puts,           \* how often prices have changed
  pc,
  at,             \* the product or line that Create works on
  products,       \* the prices that Create has looked up
  sum,            \* "total" of Create
  rows,           \* what the open transaction of Create has written
  table,          \* orders_db, committed: orders with their order_items
  clock,
  pending,        \* orders read from the table "orders" alone, items to follow
  response,       \* what the handler has put together
  offset,         \* the next offset of a client that walks through the pages
  seen,           \* the orders on the pages it has got
  known,          \* the orders there were when it asked for offset 0
  walked          \* it has got an empty page: the walk is over

createVars == <<pc, at, products, sum, rows>>
readVars == <<pending, response, offset, seen, known, walked>>
priceVars == <<price, puts>>
vars == <<priceVars, createVars, table, clock, readVars>>

May(fault) == fault \in Faults

Visible == {o \in Orders : table[o] # NoRow}

(* What readers see: a response only when it is complete.                  *)
Book == INSTANCE OrderBook WITH
  book <- [o \in Orders |-> IF table[o] = NoRow THEN NoRow
                            ELSE [items |-> table[o].items, total |-> table[o].total]],
  answer <- [r \in Readers |-> IF pending[r] = <<>> THEN response[r] ELSE <<>>]

-----------------------------------------------------------------------------
(* OrderService.Create                                                     *)

GoTo(o, l) == pc' = [pc EXCEPT ![o] = l]

NoPrices == [p \in Products |-> NoRow]

(* Create returns: its variables and its transaction are gone.             *)
Return(os, l) ==
  /\ pc' = [o \in Orders |-> IF o \in os THEN l ELSE pc[o]]
  /\ at' = [o \in Orders |-> IF o \in os THEN 1 ELSE at[o]]
  /\ products' = [o \in Orders |-> IF o \in os THEN NoPrices ELSE products[o]]
  /\ sum' = [o \in Orders |-> IF o \in os THEN 0 ELSE sum[o]]
  /\ rows' = [o \in Orders |-> IF o \in os THEN NoRow ELSE rows[o]]

Creating == {o \in Orders : pc[o] \notin {"created", "failed"}}

(* productOrder: the products in the order of their first mention.         *)
ProductOrder(o) ==
  FoldLeft(LAMBDA seenBefore, line :
             IF line.product \in ToSet(seenBefore) THEN seenBefore
             ELSE Append(seenBefore, line.product),
           <<>>, Items[o])

(* One GET /produtos/{id}; a PUT may change prices between two of them.    *)
LookUp(o) ==
  LET p == ProductOrder(o)[at[o]]
  IN  /\ pc[o] = "lookup"
      /\ products' = [products EXCEPT ![o][p] = price[p]]
      /\ IF at[o] < Len(ProductOrder(o))
         THEN at' = [at EXCEPT ![o] = @ + 1] /\ UNCHANGED pc
         ELSE at' = [at EXCEPT ![o] = 1] /\ GoTo(o, "begin")
      /\ UNCHANGED <<priceVars, sum, rows, table, clock, readVars>>

(* BEGIN, which sets now(), and the INSERT of the order with total 0.  No  *)
(* two transactions begin in the same microsecond.                         *)
BeginCreate(o) ==
  /\ pc[o] = "begin"
  /\ clock' = clock + 1
  /\ rows' = [rows EXCEPT ![o] = [total |-> 0, items |-> <<>>, created_at |-> clock']]
  /\ GoTo(o, "item")
  /\ UNCHANGED <<priceVars, at, products, sum, table, readVars>>

CurrentPrice(o, p) == price[p]

PriceOf(o, p) == products[o][p]

(* The INSERT of a line, and its share of the total.                       *)
InsertItem(o) ==
  LET line == Items[o][at[o]]
      p == PriceOf(o, line.product)
      item == [product |-> line.product, quantity |-> line.quantity, price |-> p]
  IN  /\ pc[o] = "item"
      /\ rows' = [rows EXCEPT ![o].items = Append(@, item)]
      /\ sum' = [sum EXCEPT ![o] = @ + p * line.quantity]
      /\ IF at[o] < Len(Items[o])
         THEN at' = [at EXCEPT ![o] = @ + 1] /\ UNCHANGED pc
         ELSE GoTo(o, "total") /\ UNCHANGED at
      /\ UNCHANGED <<priceVars, products, table, clock, readVars>>

(* UpdateTotal; a total with more than eight digits is an error.           *)
UpdateTotal(o) ==
  /\ pc[o] = "total"
  /\ \/ /\ sum[o] <= MaxCents
        /\ rows' = [rows EXCEPT ![o].total = sum[o]]
        /\ GoTo(o, "commit")
        /\ UNCHANGED <<at, products, sum>>
     \/ sum[o] > MaxCents /\ Return({o}, "failed")
  /\ UNCHANGED <<priceVars, table, clock, readVars>>

CommitCreate(o) ==
  /\ pc[o] = "commit"
  /\ table' = [table EXCEPT ![o] = rows[o]]
  /\ Return({o}, "created") \/ (May("lostCommitAck") /\ Return({o}, "failed"))
  /\ UNCHANGED <<priceVars, clock, readVars>>

(* A lookup, a reservation or a statement fails: the transaction rolls     *)
(* back.                                                                   *)
FailCreate(o) ==
  /\ May("error") /\ o \in Creating
  /\ Return({o}, "failed")
  /\ UNCHANGED <<priceVars, table, clock, readVars>>

(* PUT /produtos/{id}                                                      *)
Reprice(p, n) ==
  /\ puts < MaxPuts
  /\ puts' = puts + 1
  /\ price' = [price EXCEPT ![p] = n]
  /\ UNCHANGED <<createVars, table, clock, readVars>>

-----------------------------------------------------------------------------
(* OrderService.FindByID and FindAll                                       *)

Idle(r) == pending[r] = <<>>

Row(o) == [order |-> o, total |-> table[o].total]

Unordered == SetToSeqs(Visible)

(* ORDER BY created_at DESC                                                *)
NewestFirst ==
  {list \in SetToSeqs(Visible) : \A i, j \in DOMAIN list :
     i < j => table[list[i]].created_at > table[list[j]].created_at}

(* LIMIT and OFFSET                                                        *)
Page(list, from) == SubSeq(list, from + 1, IF from + Limit < Len(list)
                                           THEN from + Limit ELSE Len(list))

FindByID(r, o) ==
  /\ Idle(r) /\ offset[r] = 0 /\ o \in Visible
  /\ pending' = [pending EXCEPT ![r] = <<Row(o)>>]
  /\ response' = [response EXCEPT ![r] = <<>>]
  /\ UNCHANGED <<priceVars, createVars, table, clock, offset, seen, known, walked>>

(* The next page; the walk is over with the first one that is empty.       *)
FindAll(r) ==
  /\ Idle(r)
  /\ known' = [known EXCEPT ![r] = IF offset[r] = 0 THEN Visible ELSE @]
  /\ \E list \in NewestFirst :
       LET page == Page(list, offset[r])
       IN  /\ pending' = [pending EXCEPT ![r] = [i \in DOMAIN page |-> Row(page[i])]]
           /\ response' = [response EXCEPT ![r] = <<>>]
           /\ offset' = [offset EXCEPT ![r] = IF page = <<>> THEN 0 ELSE @ + Limit]
           /\ seen' = [seen EXCEPT ![r] =
                IF offset[r] = 0 THEN ToSet(page) ELSE @ \cup ToSet(page)]
           /\ walked' = [walked EXCEPT ![r] = page = <<>>]
  /\ UNCHANGED <<priceVars, createVars, table, clock>>

(* The client and the names of the products are read too; neither is ever  *)
(* missing (OrderSaga!OrderedProductsExist).                               *)
FindItems(r) ==
  /\ ~ Idle(r)
  /\ LET row == Head(pending[r])
         items == table[row.order].items
     IN  response' = [response EXCEPT ![r] =
           Append(@, [order |-> row.order, items |-> items, total |-> row.total])]
  /\ pending' = [pending EXCEPT ![r] = Tail(@)]
  /\ UNCHANGED <<priceVars, createVars, table, clock, offset, seen, known, walked>>

(* A statement or a lookup fails: the client gives up the walk.            *)
FailRead(r) ==
  /\ May("error") /\ ~ Idle(r)
  /\ pending' = [pending EXCEPT ![r] = <<>>]
  /\ response' = [response EXCEPT ![r] = <<>>]
  /\ offset' = [offset EXCEPT ![r] = 0]
  /\ UNCHANGED <<priceVars, createVars, table, clock, seen, known, walked>>

(* The order-service dies with every request it is serving; who has got a  *)
(* response keeps it, and may ask for the next page after the restart.     *)
Crash ==
  /\ May("crash") /\ (Creating # {} \/ \E r \in Readers : ~ Idle(r))
  /\ Return(Creating, "failed")
  /\ pending' = [r \in Readers |-> <<>>]
  /\ response' = [r \in Readers |-> IF Idle(r) THEN response[r] ELSE <<>>]
  /\ offset' = [r \in Readers |-> IF Idle(r) THEN offset[r] ELSE 0]
  /\ UNCHANGED <<priceVars, table, clock, seen, known, walked>>

-----------------------------------------------------------------------------

Init ==
  /\ price \in [Products -> InitialPrices]
  /\ puts = 0
  /\ pc = [o \in Orders |-> "lookup"]
  /\ at = [o \in Orders |-> 1]
  /\ products = [o \in Orders |-> NoPrices]
  /\ sum = [o \in Orders |-> 0]
  /\ rows = [o \in Orders |-> NoRow]
  /\ table = [o \in Orders |-> NoRow]
  /\ clock = 0
  /\ pending = [r \in Readers |-> <<>>]
  /\ response = [r \in Readers |-> <<>>]
  /\ offset = [r \in Readers |-> 0]
  /\ seen = [r \in Readers |-> {}]
  /\ known = [r \in Readers |-> {}]
  /\ walked = [r \in Readers |-> FALSE]

CreateStep(o) ==
  LookUp(o) \/ BeginCreate(o) \/ InsertItem(o) \/ UpdateTotal(o) \/ CommitCreate(o)

ReadStep(r) ==
  (\E o \in Orders : FindByID(r, o)) \/ FindAll(r) \/ FindItems(r)

Next ==
  \/ \E o \in Orders : CreateStep(o) \/ FailCreate(o)
  \/ \E p \in Products, n \in Prices : Reprice(p, n)
  \/ \E r \in Readers : ReadStep(r) \/ FailRead(r)
  \/ Crash

Spec == Init /\ [][Next]_vars

-----------------------------------------------------------------------------

PcValues == {"lookup", "begin", "item", "total", "commit", "created", "failed"}

TypeOK ==
  /\ price \in [Products -> Prices] /\ puts \in 0..MaxPuts
  /\ pc \in [Orders -> PcValues]
  /\ \A o \in Orders : at[o] \in DOMAIN Items[o]
  /\ products \in [Orders -> [Products -> Prices \cup {NoRow}]]
  /\ sum \in [Orders -> Nat]
  /\ rows \in [Orders -> StoredOrders \cup {NoRow}]
  /\ table \in [Orders -> StoredOrders \cup {NoRow}]
  /\ \A o \in Orders : pc[o] \in {"item", "total", "commit"} => rows[o] # NoRow
  /\ \A o \in Orders : pc[o] = "created" => o \in Visible
  /\ clock \in 0..Cardinality(Orders)
  /\ offset \in [Readers -> Nat]
  /\ seen \in [Readers -> SUBSET Orders] /\ known \in [Readers -> SUBSET Orders]
  /\ walked \in [Readers -> BOOLEAN]

(* What the open transaction has written so far is the beginning of an     *)
(* order of the book, and "total" is the sum of it.                        *)
WritesSound(o) ==
  LET written == CASE pc[o] = "item" -> at[o] - 1
                   [] pc[o] \in {"total", "commit"} -> Len(Items[o])
  IN  pc[o] \in {"item", "total", "commit"} =>
        /\ rows[o].items = SubSeq(Book!Priced(o, products[o]), 1, written)
        /\ sum[o] = Book!Total(rows[o].items)
        /\ pc[o] = "commit" => rows[o].total = sum[o] /\ sum[o] <= MaxCents

(* An order whose row has been read is there when its items are read.      *)
ReadsSound(r) ==
  /\ ToSet(response[r]) \subseteq Book!Entries
  /\ \A i \in DOMAIN pending[r] :
       LET o == pending[r][i].order IN o \in Visible /\ pending[r][i] = Row(o)

Inv ==
  /\ TypeOK
  /\ \A o \in Orders : WritesSound(o)
  /\ \A r \in Readers : ReadsSound(r)

(* Orders are read whole although an order, its items and its total are    *)
(* written by separate statements, and read by separate statements outside *)
(* any transaction, while prices change: every order in a response has     *)
(* all its items, at one price per product, and the sum of them.           *)
RefinesOrderBook == Book!BookSpec

(* A client that walks through the pages of GET /pedidos up to an empty    *)
(* one has got every order that was there when it began, although orders   *)
(* are created meanwhile and shift the others to later pages.              *)
PagesMissNothing == \A r \in Readers : walked[r] => known[r] \subseteq seen[r]
=============================================================================
