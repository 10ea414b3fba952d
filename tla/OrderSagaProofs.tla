--------------------------- MODULE OrderSagaProofs ---------------------------
(***************************************************************************)
(* What the saga between the two services guarantees for every set of      *)
(* products and sagas, every request, every set of faults and every number *)
(* of crashes, unless a theorem names the faults it needs.                 *)
(*                                                                         *)
(* The argument has three parts. The request: what the folds over its      *)
(* lines compute (FoldLemmas). The moves: how a row of stock_reservations, *)
(* the topic, an order's status and an open Cancel may change in one step. *)
(* The invariant SagaInv on top of them: a row is only inserted for a      *)
(* command, a command only carries what the request asks for, and success  *)
(* only reaches the call for its own product over a row that exists. The   *)
(* last two sections add what holds only while certain faults are          *)
(* excluded.                                                               *)
(***************************************************************************)
EXTENDS OrderSaga, StockLedgerProofs, FoldLemmas, SequenceTheorems

-----------------------------------------------------------------------------
(* The request of a saga.                                                  *)

(* A request that has passed the checks of Create.                         *)
LEMMA LineTypes ==
  ASSUME NEW s \in Sagas
  PROVE  /\ Len(Items[s]) \in Nat \ {0}
         /\ DOMAIN Items[s] = 1..Len(Items[s])
         /\ \A i \in 1..Len(Items[s]) :
              Items[s][i].product \in Products /\ Items[s][i].quantity \in Nat \ {0}
<1>1. /\ Items[s] \in Seq([product : Products, quantity : Nat \ {0}])
      /\ Items[s] # <<>>
  BY SagaAssumption
<1>2. Len(Items[s]) \in Nat \ {0}
  BY <1>1, EmptySeq
<1>3. DOMAIN Items[s] = 1..Len(Items[s])
  BY <1>1, LenProperties
<1>4. \A i \in 1..Len(Items[s]) :
        Items[s][i] \in [product : Products, quantity : Nat \ {0}]
  BY <1>1, ElementOfSeq
<1> QED
  BY <1>2, <1>3, <1>4

(* productOrder is every product of the request, and nothing else.         *)
LEMMA ProductOrderLists ==
  ASSUME NEW s \in Sagas
  PROVE  /\ ProductOrder(s) \in Seq(Products)
         /\ Len(ProductOrder(s)) \in Nat \ {0}
         /\ DOMAIN ProductOrder(s) = 1..Len(ProductOrder(s))
         /\ ToSet(ProductOrder(s)) = {Items[s][i].product : i \in 1..Len(Items[s])}
<1> DEFINE n == Len(Items[s])
<1>1. n \in Nat \ {0} /\ DOMAIN Items[s] = 1..n /\ \A i \in 1..n : Items[s][i].product \in Products
  BY LineTypes
<1>2. ProductOrder(s) = FirstMentions(Items[s])
  BY DEF ProductOrder, FirstMentions
<1> HIDE DEF n
<1>3. /\ ProductOrder(s) \in Seq(Products)
      /\ Len(ProductOrder(s)) \in 1..n
      /\ ToSet(ProductOrder(s)) = {Items[s][i].product : i \in 1..n}
  <2> DEFINE lines == Items[s]
  <2>1. /\ n \in Nat \ {0} /\ DOMAIN lines = 1..n
        /\ \A i \in 1..n : lines[i].product \in Products
    BY <1>1
  <2> HIDE DEF lines
  <2>2. /\ FirstMentions(lines) \in Seq(Products)
        /\ Len(FirstMentions(lines)) \in 1..n
        /\ ToSet(FirstMentions(lines)) = {lines[i].product : i \in 1..n}
    BY <2>1, FirstMentionsList
  <2> QED
    BY <1>2, <2>2 DEF lines
<1> QED
  BY <1>1, <1>3, LenProperties DEF n

(* The recursion behind MergedQuantity, over the positions of the lines.   *)
Merge(g, s, p) ==
  g = [S \in SUBSET DOMAIN Items[s] |->
         IF S = {} THEN 0
         ELSE IF Items[s][Max(S)].product = p
              THEN g[S \ {Max(S)}] + Items[s][Max(S)].quantity
              ELSE g[S \ {Max(S)}]]

(* The fold of MergedQuantity exists.                                      *)
LEMMA MergeExists ==
  ASSUME NEW s \in Sagas, NEW p
  PROVE  \E g : Merge(g, s, p)
<1> DEFINE n == Len(Items[s])
           F == [e \in Nat \X (1..n) |->
                   IF Items[s][e[2]].product = p
                   THEN e[1] + Items[s][e[2]].quantity ELSE e[1]]
<1>1. n \in Nat /\ DOMAIN Items[s] = 1..n /\ \A i \in 1..n : Items[s][i].quantity \in Nat
  BY LineTypes
<1>2. F \in [Nat \X (1..n) -> Nat]
  BY <1>1
<1>3. PICK g \in [SUBSET (1..n) -> Nat] : FoldsLeft(g, n, 0, F)
  <2> HIDE DEF F, n
  <2> QED
    BY <1>1, <1>2, LeftFoldExists
<1>4. ASSUME NEW S \in SUBSET (1..n), S # {}
      PROVE  g[S] = IF Items[s][Max(S)].product = p
                    THEN g[S \ {Max(S)}] + Items[s][Max(S)].quantity
                    ELSE g[S \ {Max(S)}]
  <2>1. Max(S) \in 1..n
    BY <1>1, <1>4, MaxInSet
  <2>2. S \ {Max(S)} \in SUBSET (1..n)
    BY Zenon
  <2>3. g[S \ {Max(S)}] \in Nat
    BY <2>2
  <2>4. g[S] = F[<<g[S \ {Max(S)}], Max(S)>>]
    BY <1>3, <1>4 DEF FoldsLeft
  <2> HIDE DEF n, Max
  <2> QED
    BY <2>1, <2>3, <2>4
<1>5. \A S \in SUBSET (1..n) : S = {} => g[S] = 0
  BY <1>3 DEF FoldsLeft
<1> HIDE DEF n
<1>6. Merge(g, s, p)
  <2> HIDE DEF Max, F
  <2> QED
    BY <1>1, <1>4, <1>5 DEF Merge
<1> QED
  BY <1>6

(* The recursion behind OrderedUnits.                                      *)
SumUp(h, s, p) ==
  h = [S \in SUBSET LinesOf(s, p) |->
         IF S = {} THEN 0
         ELSE Items[s][CHOOSE x \in S : TRUE].quantity + h[S \ {CHOOSE x \in S : TRUE}]]

IsTotal(h, s, p) ==
  /\ SumUp(h, s, p)
  /\ OrderedUnits(s, p) = h[LinesOf(s, p)]
  /\ \A S \in SUBSET LinesOf(s, p) :
       h[S] \in Nat /\ \A i \in S : h[S] = Items[s][i].quantity + h[S \ {i}]

(* The sum of OrderedUnits exists, and any item may be taken out of it.    *)
LEMMA TotalExists ==
  ASSUME NEW s \in Sagas, NEW p
  PROVE  \E h : IsTotal(h, s, p)
<1> DEFINE D == LinesOf(s, p)
           w == [i \in D |-> Items[s][i].quantity]
           c == [S \in SUBSET D |-> CHOOSE x \in S : TRUE]
           h == CHOOSE e : SumUp(e, s, p)
<1>1. OrderedUnits(s, p) = h[D]
  BY DEF OrderedUnits, MapThenSumSet, MapThenFoldSet, SumUp
<1>2. IsFiniteSet(D) /\ w \in [D -> Nat]
  <2>1. D \subseteq 1..Len(Items[s]) /\ Len(Items[s]) \in Nat
    BY LineTypes DEF LinesOf
  <2>2. IsFiniteSet(D)
    <3>1. IsFiniteSet(1..Len(Items[s]))
      BY <2>1, FS_Interval
    <3> HIDE DEF D
    <3> QED
      BY <2>1, <3>1, FS_Subset
  <2>3. w \in [D -> Nat]
    BY <2>1, LineTypes
  <2> QED
    BY <2>2, <2>3
<1>3. Chooses(c, D)
  BY DEF Chooses
<1>4. SumUp(h, s, p)
  <2>1. PICK g \in [SUBSET D -> Nat] : Sums(g, D, w, c)
    <3> HIDE DEF D, w, c
    <3> QED
      BY <1>2, <1>3, SumExists
  <2>2. \A S \in SUBSET D : S # {} =>
          g[S] = Items[s][CHOOSE x \in S : TRUE].quantity + g[S \ {CHOOSE x \in S : TRUE}]
    BY <2>1 DEF Sums
  <2>3. \A S \in SUBSET D : S = {} => g[S] = 0
    BY <2>1 DEF Sums
  <2>4. SumUp(g, s, p)
    BY <2>2, <2>3 DEF SumUp
  <2> QED
    BY <2>4
<1> HIDE DEF h
<1>5. Sums(h, D, w, c)
  BY <1>4 DEF SumUp, Sums
<1>6. \A S \in SUBSET D : h[S] \in Nat /\ \A i \in S : h[S] = w[i] + h[S \ {i}]
  <2> HIDE DEF D, w, c
  <2> QED
    BY <1>2, <1>3, <1>5, SumAdditive
<1>7. \A S \in SUBSET D : \A i \in S : w[i] = Items[s][i].quantity
  OBVIOUS
<1>8. \A S \in SUBSET D :
        h[S] \in Nat /\ \A i \in S : h[S] = Items[s][i].quantity + h[S \ {i}]
  <2> HIDE DEF D, w
  <2> QED
    BY <1>6, <1>7
<1> QED
  BY <1>1, <1>4, <1>8 DEF IsTotal

(* quantities[p] is what order_items will say about p in total; the order  *)
(* of the lines and the products between them do not matter.               *)
LEMMA MergedIsOrdered ==
  ASSUME NEW s \in Sagas, NEW p
  PROVE  /\ MergedQuantity(s, p) = OrderedUnits(s, p)
         /\ MergedQuantity(s, p) \in Nat
         /\ \A i \in 1..Len(Items[s]) :
              Items[s][i].product = p => MergedQuantity(s, p) > 0
<1> DEFINE n == Len(Items[s])
           D == LinesOf(s, p)
           g == CHOOSE e : Merge(e, s, p)
<1>1. n \in Nat \ {0} /\ DOMAIN Items[s] = 1..n /\ \A i \in 1..n : Items[s][i].quantity \in Nat \ {0}
  BY LineTypes
<1>2. Merge(g, s, p)
  BY MergeExists
<1>3. MergedQuantity(s, p) = g[1..n]
  BY <1>1 DEF MergedQuantity, FoldLeft, MapThenFoldSet, Merge
<1>4. PICK h : IsTotal(h, s, p)
  BY TotalExists
<1>0. OrderedUnits(s, p) = h[D] /\ \A S \in SUBSET D :
        h[S] \in Nat /\ \A i \in S : h[S] = Items[s][i].quantity + h[S \ {i}]
  BY <1>4 DEF IsTotal
<1>5. \A i \in 1..n : i \in D <=> Items[s][i].product = p
  BY <1>1 DEF LinesOf
<1> DEFINE T == {k \in Nat : k <= n => g[1..k] = h[D \cap (1..k)]}
<1> HIDE DEF n, g, D
<1>6. 0 \in T
  <2>1. 1..0 = {} /\ D \cap (1..0) = {}
    OBVIOUS
  <2>2. g[{}] = 0
    BY <1>1, <1>2 DEF Merge
  <2>3. h[{}] = 0
    BY <1>4 DEF IsTotal, SumUp
  <2> QED
    BY <2>1, <2>2, <2>3
<1>7. ASSUME NEW k \in Nat, k \in T
      PROVE  k + 1 \in T
  <2> SUFFICES ASSUME k + 1 <= n
               PROVE  g[1..(k + 1)] = h[D \cap (1..(k + 1))]
    OBVIOUS
  <2>1. g[1..(k + 1)] = IF k + 1 \in D THEN g[1..k] + Items[s][k + 1].quantity
                        ELSE g[1..k]
    <3>0. k + 1 \in 1..n /\ k + 1 \in 1..(k + 1)
      BY <1>1
    <3>1. 1..(k + 1) \in SUBSET (1..n) /\ 1..(k + 1) # {}
      <4>1. \A i \in 1..(k + 1) : i \in 1..n
        BY <1>1
      <4> QED
        BY <3>0, <4>1
    <3>2. g[1..(k + 1)] =
            IF Items[s][Max(1..(k + 1))].product = p
            THEN g[(1..(k + 1)) \ {Max(1..(k + 1))}] + Items[s][Max(1..(k + 1))].quantity
            ELSE g[(1..(k + 1)) \ {Max(1..(k + 1))}]
      BY <1>1, <1>2, <3>1, Zenon DEF Merge
    <3> HIDE DEF Max
    <3> QED
      BY <1>5, <3>0, <3>2, MaxOfPrefix
  <2>2. g[1..k] = h[D \cap (1..k)] /\ h[D \cap (1..k)] \in Nat
    BY <1>1, <1>0, <1>7
  <2>3. CASE k + 1 \in D
    <3>1. /\ D \cap (1..(k + 1)) \in SUBSET D
          /\ k + 1 \in D \cap (1..(k + 1))
          /\ (D \cap (1..(k + 1))) \ {k + 1} = D \cap (1..k)
      BY <2>3
    <3>2. h[D \cap (1..(k + 1))] = Items[s][k + 1].quantity + h[D \cap (1..k)]
      BY <1>0, <3>1
    <3>3. Items[s][k + 1].quantity \in Nat
      BY <1>1
    <3> QED
      BY <2>1, <2>2, <2>3, <3>2, <3>3
  <2>4. CASE k + 1 \notin D
    <3>1. D \cap (1..(k + 1)) = D \cap (1..k)
      BY <2>4
    <3> QED
      BY <2>1, <2>2, <2>4, <3>1
  <2> QED
    BY <2>3, <2>4
<1>8. g[1..n] = h[D]
  <2>1. \A k \in Nat : k \in T
    <3> HIDE DEF T
    <3> QED
      BY <1>6, <1>7, NatSetInduction
  <2>2. D \cap (1..n) = D
    BY <1>1 DEF D, LinesOf
  <2>3. n \in T
    BY <1>1, <2>1
  <2>4. g[1..n] = h[D \cap (1..n)]
    BY <1>1, <2>3
  <2> QED
    BY <2>2, <2>4
<1>9. ASSUME NEW i \in 1..n, Items[s][i].product = p
      PROVE  h[D] > 0
  <2>1. i \in D /\ Items[s][i].quantity \in Nat \ {0}
    BY <1>1, <1>5, <1>9
  <2>2. h[D] = Items[s][i].quantity + h[D \ {i}] /\ h[D \ {i}] \in Nat
    BY <1>0, <2>1
  <2> QED
    BY <2>1, <2>2
<1> QED
  BY <1>0, <1>1, <1>3, <1>8, <1>9 DEF n


-----------------------------------------------------------------------------
(* Types, and the ledger underneath.                                       *)

TypeInv ==
  /\ TypeOK
  /\ at \in [Sagas -> Nat]
  /\ refund \in [Sagas -> Nat]
  /\ outgoing # NoReply => handled < Len(commands)

(* The product that Create works on is one of the request.                 *)
LEMMA CurrentTypes ==
  ASSUME TypeInv, NEW s \in Sagas
  PROVE  /\ at[s] \in 1..Len(ProductOrder(s))
         /\ \A j \in 1..Len(ProductOrder(s)) :
              /\ ProductOrder(s)[j] \in Products
              /\ MergedQuantity(s, ProductOrder(s)[j]) \in Nat \ {0}
<1>1. at[s] \in 1..Len(ProductOrder(s))
  BY ProductOrderLists DEF TypeInv, TypeOK
<1>2. ASSUME NEW j \in 1..Len(ProductOrder(s))
      PROVE  /\ ProductOrder(s)[j] \in Products
             /\ MergedQuantity(s, ProductOrder(s)[j]) \in Nat \ {0}
  <2>1. ProductOrder(s)[j] \in ToSet(ProductOrder(s))
    BY ProductOrderLists, ElementsOf
  <2>2. PICK i \in 1..Len(Items[s]) : Items[s][i].product = ProductOrder(s)[j]
    BY <2>1, ProductOrderLists
  <2>3. MergedQuantity(s, ProductOrder(s)[j]) \in Nat
    BY MergedIsOrdered
  <2>4. MergedQuantity(s, ProductOrder(s)[j]) > 0
    BY <2>2, MergedIsOrdered
  <2>5. ProductOrder(s)[j] \in Products
    BY <2>2, LineTypes
  <2> QED
    BY <2>3, <2>4, <2>5
<1> QED
  BY <1>1, <1>2

(* The changes of the ledger, with the stocks PUT may set.                 *)
LedgerStep(p) ==
  \/ \E s \in Sagas, q \in 1..MaxInt4 : ReserveUnits(s, p, q)
  \/ \E s \in Sagas : ReleaseUnits(s, p)
  \/ \E n \in PutStocks : SetStock(p, n)
  \/ RemoveProduct(p)

(* Every step of the saga is one of the four changes of the ledger, or     *)
(* leaves stock_db alone ...                                               *)
LEMMA LedgerSteps ==
  ASSUME TypeInv, [Next]_vars
  PROVE  UNCHANGED ledgerVars \/ \E p \in Products : LedgerStep(p)
<1>0. ASSUME NEW s \in Sagas, NEW p \in Products, Release(s, p)
      PROVE  UNCHANGED ledgerVars \/ \E r \in Products : LedgerStep(r)
  BY <1>0 DEF Release, LedgerStep
<1>1. ASSUME NEW s \in Sagas, LookUpProducts(s)
      PROVE  UNCHANGED ledgerVars \/ \E r \in Products : LedgerStep(r)
  BY <1>1 DEF LookUpProducts
<1>2. ASSUME NEW s \in Sagas, PublishCommand(s)
      PROVE  UNCHANGED ledgerVars \/ \E r \in Products : LedgerStep(r)
  BY <1>2 DEF PublishCommand
<1>3. ASSUME NEW s \in Sagas, RegisterWaiter(s)
      PROVE  UNCHANGED ledgerVars \/ \E r \in Products : LedgerStep(r)
  BY <1>3 DEF RegisterWaiter
<1>4. ASSUME NEW s \in Sagas, TakeReply(s)
      PROVE  UNCHANGED ledgerVars \/ \E r \in Products : LedgerStep(r)
  BY <1>4 DEF TakeReply
<1>5. ASSUME NEW s \in Sagas, Timeout(s)
      PROVE  UNCHANGED ledgerVars \/ \E r \in Products : LedgerStep(r)
  BY <1>5 DEF Timeout
<1>6. ASSUME NEW s \in Sagas, PersistOrder(s)
      PROVE  UNCHANGED ledgerVars \/ \E r \in Products : LedgerStep(r)
  BY <1>6 DEF PersistOrder
<1>7. ASSUME NEW s \in Sagas, CompensateNext(s)
      PROVE  UNCHANGED ledgerVars \/ \E r \in Products : LedgerStep(r)
  <2>1. CASE undo[s] = <<>>
    BY <1>7, <2>1 DEF CompensateNext
  <2>2. CASE undo[s] # <<>>
    <3>1. Head(undo[s]) \in Products
      BY <2>2 DEF TypeInv, TypeOK
    <3> QED
      BY <1>7, <1>0, <2>2, <3>1 DEF CompensateNext
  <2> QED
    BY <2>1, <2>2
<1>8. ASSUME NEW s \in Sagas, Disconnect(s)
      PROVE  UNCHANGED ledgerVars \/ \E r \in Products : LedgerStep(r)
  BY <1>8 DEF Disconnect
<1>9. ASSUME NEW s \in Sagas, Pay(s)
      PROVE  UNCHANGED ledgerVars \/ \E r \in Products : LedgerStep(r)
  BY <1>9 DEF Pay
<1>10. ASSUME NEW s \in Sagas, BeginCancel(s)
       PROVE  UNCHANGED ledgerVars \/ \E r \in Products : LedgerStep(r)
  BY <1>10 DEF BeginCancel
<1>11. ASSUME NEW s \in Sagas, RefundItem(s)
       PROVE  UNCHANGED ledgerVars \/ \E r \in Products : LedgerStep(r)
  <2>1. Items[s][refund[s]].product \in Products
    BY <1>11, LineTypes DEF RefundItem
  <2> QED
    BY <1>11, <1>0, <2>1 DEF RefundItem
<1>12. ASSUME NEW s \in Sagas, EndCancel(s)
       PROVE  UNCHANGED ledgerVars \/ \E r \in Products : LedgerStep(r)
  BY <1>12 DEF EndCancel
<1>13. ASSUME NEW s \in Sagas, NEW p \in Products, SweepStale(s, p)
       PROVE  UNCHANGED ledgerVars \/ \E r \in Products : LedgerStep(r)
  BY <1>13 DEF SweepStale, LedgerStep
<1>14. ASSUME NEW p \in Products, DeleteProduct(p)
       PROVE  UNCHANGED ledgerVars \/ \E r \in Products : LedgerStep(r)
  BY <1>14 DEF DeleteProduct, LedgerStep
<1>15. ASSUME NEW p \in Products, NEW n \in PutStocks, PutStock(p, n)
       PROVE  UNCHANGED ledgerVars \/ \E r \in Products : LedgerStep(r)
  BY <1>15 DEF PutStock, LedgerStep
<1>16. CASE Dispatch
  BY <1>16 DEF Dispatch
<1>17. CASE HandleCommand
  <2> DEFINE c == commands[handled + 1]
  <2>1. handled + 1 \in 1..Len(commands)
    BY <1>17 DEF HandleCommand, TypeInv, TypeOK
  <2>2. c \in Commands
    BY <2>1, ElementOfSeq DEF TypeInv, TypeOK
  <2>3. c.saga \in Sagas /\ c.product \in Products
    BY <2>2 DEF Commands
  <2>4. ASSUME ReserveUnits(c.saga, c.product, c.quantity)
        PROVE  \E p \in Products : LedgerStep(p)
    <3> HIDE DEF c
    <3>1. stock[c.product] \in 0..MaxInt4
      BY <2>3 DEF TypeInv, TypeOK, LedgerTypeOK
    <3>2. c.quantity \in 1..stock[c.product]
      BY <2>4, Zenon DEF ReserveUnits, Takeable
    <3>3. c.quantity \in 1..MaxInt4
      BY <3>1, <3>2, LedgerAssumption
    <3> QED
      BY <2>3, <2>4, <3>3 DEF LedgerStep
  <2> QED
    BY <1>17, <2>4 DEF HandleCommand
<1>18. CASE PublishReply
  BY <1>18 DEF PublishReply
<1>19. CASE CommitOffset
  BY <1>19 DEF CommitOffset
<1>20. CASE OrderServiceCrash
  BY <1>20 DEF OrderServiceCrash
<1>21. CASE StockServiceCrash
  BY <1>21 DEF StockServiceCrash
<1>22. CASE UNCHANGED vars
  BY <1>22 DEF vars
<1> QED
  BY <1>1, <1>2, <1>3, <1>4, <1>5, <1>6, <1>7, <1>8, <1>9, <1>10, <1>11,
     <1>12, <1>13, <1>14, <1>15, <1>16, <1>17, <1>18, <1>19, <1>20, <1>21,
     <1>22 DEF Next, CreateStep, CancelStep

(* ... so every step of the saga is a step of the ledger, or none.         *)
LEMMA LedgerMoves ==
  ASSUME TypeInv, [Next]_vars
  PROVE  [LedgerNext]_ledgerVars
<1>1. ASSUME NEW p \in Products, LedgerStep(p)
      PROVE  LedgerNext
  BY <1>1, SagaAssumption DEF LedgerStep, LedgerNext
<1> QED
  BY <1>1, LedgerSteps

(* Types of the variables of order-service and of the broker.              *)
OrderTypes ==
  /\ pc \in [Sagas -> {"new", "publish", "register", "wait", "persist",
                       "compensate", "created", "failed"}]
  /\ at \in [Sagas -> Nat]
  /\ \A s \in Sagas : at[s] \in DOMAIN ProductOrder(s)
  /\ undo \in [Sagas -> Seq(Products)]
  /\ mailbox \in [Sagas -> ReplyTypes \cup {NoReply}]
  /\ status \in [Sagas -> {"NONE", "PENDING", "PAID", "CANCELED"}]
  /\ refund \in [Sagas -> Nat]
  /\ \A s \in Sagas : refund[s] \in 0..(Len(Items[s]) + 1)

QueueTypes ==
  /\ commands \in Seq(Commands)
  /\ handled \in 0..Len(commands)
  /\ outgoing \in Replies \cup {NoReply}
  /\ events \in Seq(Replies)
  /\ crashes \in 0..MaxCrashes
  /\ outgoing # NoReply => handled < Len(commands)

(* The type invariant falls into the parts that one step can disturb.      *)
LEMMA TypesSplit == TypeInv <=> LedgerTypeOK /\ OrderTypes /\ QueueTypes
BY DEF TypeInv, TypeOK, OrderTypes, QueueTypes

(* What is left to release after a failed Reserve are products.            *)
LEMMA FailReserveTypes ==
  ASSUME OrderTypes, NEW s \in Sagas, FailReserve(s)
  PROVE  OrderTypes'
<1>1. \A j \in 1..at[s] : ProductOrder(s)[j] \in Products
  BY ProductOrderLists, ElementOfSeq DEF OrderTypes
<1>2. ReleaseAfterFailedReserve(s) \in Seq(Products)
  BY <1>1, SubSeqProperties DEF ReleaseAfterFailedReserve, OrderTypes
<1> QED
  BY <1>2 DEF FailReserve, GoTo, OrderTypes

(* Every step keeps the types.                                             *)
LEMMA TypeStep == TypeInv /\ [Next]_vars => TypeInv'
<1> SUFFICES ASSUME TypeInv, [Next]_vars
             PROVE  TypeInv'
  OBVIOUS
<1>a. LedgerTypeOK /\ OrderTypes /\ QueueTypes
  BY TypesSplit
<1>b. LedgerTypeOK'
  BY <1>a, LedgerMoves, LedgerTypeStep
<1> SUFFICES OrderTypes' /\ QueueTypes'
  BY <1>b DEF TypeInv, TypeOK, OrderTypes, QueueTypes
<1>1. ASSUME NEW s \in Sagas, LookUpProducts(s)
      PROVE  OrderTypes' /\ QueueTypes'
  BY <1>1, <1>a DEF LookUpProducts, GoTo, OrderTypes, QueueTypes, queueVars, orderVars
<1>2. ASSUME NEW s \in Sagas, PublishCommand(s)
      PROVE  OrderTypes' /\ QueueTypes'
  <2> DEFINE p == Current(s)
             c == [saga |-> s, product |-> p, quantity |-> MergedQuantity(s, p)]
  <2>1. c \in Commands
    BY CurrentTypes DEF Current, Commands
  <2>2. QueueTypes'
    <3>1. commands' \in Seq(Commands) /\ handled' \in 0..Len(commands')
      <4>1. commands' = Append(commands, c) \/ commands' = commands
        BY <1>2 DEF PublishCommand
      <4>2. /\ Append(commands, c) \in Seq(Commands)
            /\ Len(Append(commands, c)) = Len(commands) + 1
            /\ Len(commands) \in Nat
        <5> HIDE DEF c
        <5> QED
          BY <1>a, <2>1 DEF QueueTypes
      <4>3. handled' = handled /\ handled \in 0..Len(commands)
        BY <1>2, <1>a DEF PublishCommand, QueueTypes
      <4> HIDE DEF c
      <4> QED
        BY <1>a, <4>1, <4>2, <4>3 DEF QueueTypes
    <3> QED
      BY <1>2, <1>a, <3>1 DEF PublishCommand, QueueTypes
  <2>3. OrderTypes'
    <3>1. CASE FailReserve(s)
      BY <1>a, <3>1, FailReserveTypes
    <3>2. CASE GoTo(s, "register") /\ UNCHANGED <<at, undo, mailbox, status, refund>>
      BY <1>a, <3>2 DEF GoTo, OrderTypes
    <3> QED
      BY <1>2, <3>1, <3>2 DEF PublishCommand
  <2> QED
    BY <2>2, <2>3
<1>3. ASSUME NEW s \in Sagas, RegisterWaiter(s)
      PROVE  OrderTypes' /\ QueueTypes'
  BY <1>3, <1>a DEF RegisterWaiter, GoTo, OrderTypes, QueueTypes, queueVars, orderVars
<1>4. ASSUME NEW s \in Sagas, TakeReply(s)
      PROVE  OrderTypes' /\ QueueTypes'
  <2>1. QueueTypes'
    BY <1>4, <1>a DEF TakeReply, QueueTypes, queueVars
  <2>2. CASE FailReserve(s)
    BY <1>a, <2>1, <2>2, FailReserveTypes
  <2>3. CASE ~ FailReserve(s)
    <3>1. /\ at[s] \in 1..Len(ProductOrder(s))
          /\ \A t \in Sagas : DOMAIN ProductOrder(t) = 1..Len(ProductOrder(t))
          /\ Len(ProductOrder(s)) \in Nat
      BY CurrentTypes, ProductOrderLists
    <3>2. \/ UNCHANGED at
          \/ at[s] < Len(ProductOrder(s)) /\ at' = [at EXCEPT ![s] = at[s] + 1]
      BY <1>4, <2>3 DEF TakeReply
    <3>3. at[s] < Len(ProductOrder(s)) => at[s] + 1 \in DOMAIN ProductOrder(s)
      BY <3>1
    <3>4. at' \in [Sagas -> Nat] /\ \A t \in Sagas : at'[t] \in DOMAIN ProductOrder(t)
      <4>1. at' \in [Sagas -> Nat]
        BY <1>a, <3>2 DEF OrderTypes
      <4>2. ASSUME NEW t \in Sagas PROVE at'[t] = at[t] \/ (t = s /\ at'[t] = at[s] + 1 /\ at[s] < Len(ProductOrder(s)))
        BY <1>a, <3>2 DEF OrderTypes
      <4>3. ASSUME NEW t \in Sagas PROVE at[t] \in DOMAIN ProductOrder(t)
        BY <1>a DEF OrderTypes
      <4> QED
        BY <3>3, <4>1, <4>2, <4>3
    <3> QED
      BY <1>4, <1>a, <2>1, <2>3, <3>4 DEF TakeReply, GoTo, OrderTypes
  <2> QED
    BY <2>2, <2>3
<1>5. ASSUME NEW s \in Sagas, Timeout(s)
      PROVE  OrderTypes' /\ QueueTypes'
  BY <1>5, <1>a, FailReserveTypes DEF Timeout, QueueTypes, queueVars
<1>6. ASSUME NEW s \in Sagas, PersistOrder(s)
      PROVE  OrderTypes' /\ QueueTypes'
  <2>1. ProductOrder(s) \in Seq(Products)
    BY ProductOrderLists
  <2>2. undo' \in [Sagas -> Seq(Products)]
    BY <1>6, <1>a, <2>1 DEF PersistOrder, OrderTypes
  <2>3. status' \in [Sagas -> {"NONE", "PENDING", "PAID", "CANCELED"}]
    BY <1>6, <1>a DEF PersistOrder, OrderTypes
  <2> QED
    BY <1>6, <1>a, <2>2, <2>3 DEF PersistOrder, GoTo, OrderTypes, QueueTypes, queueVars
<1>7. ASSUME NEW s \in Sagas, CompensateNext(s)
      PROVE  OrderTypes' /\ QueueTypes'
  <2>1. undo' \in [Sagas -> Seq(Products)]
    <3>1. undo[s] \in Seq(Products)
      BY <1>a DEF OrderTypes
    <3>2. undo[s] # <<>> => Tail(undo[s]) \in Seq(Products)
      BY <3>1
    <3> QED
      BY <1>7, <1>a, <3>2 DEF CompensateNext, OrderTypes
  <2> QED
    BY <1>7, <1>a, <2>1 DEF CompensateNext, GoTo, OrderTypes, QueueTypes, queueVars
<1>8. ASSUME NEW s \in Sagas, Disconnect(s)
      PROVE  OrderTypes' /\ QueueTypes'
  BY <1>8, <1>a DEF Disconnect, GoTo, OrderTypes, QueueTypes, queueVars, orderVars
<1>9. ASSUME NEW s \in Sagas, Pay(s)
      PROVE  OrderTypes' /\ QueueTypes'
  BY <1>9, <1>a DEF Pay, GoTo, OrderTypes, QueueTypes, queueVars, orderVars
<1>10. ASSUME NEW s \in Sagas, BeginCancel(s)
       PROVE  OrderTypes' /\ QueueTypes'
  <2>1. 1 \in 0..(Len(Items[s]) + 1)
    BY LineTypes
  <2> QED
    BY <1>10, <1>a, <2>1 DEF BeginCancel, OrderTypes, QueueTypes, queueVars
<1>11. ASSUME NEW s \in Sagas, RefundItem(s)
       PROVE  OrderTypes' /\ QueueTypes'
  <2>1. refund[s] + 1 \in 0..(Len(Items[s]) + 1) /\ 0 \in 0..(Len(Items[s]) + 1)
    BY <1>11, LineTypes DEF RefundItem
  <2>2. refund' = [refund EXCEPT ![s] = refund[s] + 1] \/ refund' = [refund EXCEPT ![s] = 0]
    BY <1>11 DEF RefundItem, AfterFailedRefund
  <2>3. refund' \in [Sagas -> Nat] /\ \A t \in Sagas : refund'[t] \in 0..(Len(Items[t]) + 1)
    <3>0. refund \in [Sagas -> Nat] /\ 0 \in Nat /\ refund[s] + 1 \in Nat
      BY <1>a DEF OrderTypes
    <3>1. refund' \in [Sagas -> Nat]
      BY <2>2, <3>0
    <3>2. \A t \in Sagas : refund'[t] = refund[t] \/ (t = s /\ refund'[t] \in {refund[s] + 1, 0})
      BY <1>a, <2>2 DEF OrderTypes
    <3>3. \A t \in Sagas : refund[t] \in 0..(Len(Items[t]) + 1)
      BY <1>a DEF OrderTypes
    <3> QED
      BY <2>1, <3>1, <3>2, <3>3
  <2> QED
    BY <1>11, <1>a, <2>3 DEF RefundItem, OrderTypes, QueueTypes, queueVars
<1>12. ASSUME NEW s \in Sagas, EndCancel(s)
       PROVE  OrderTypes' /\ QueueTypes'
  <2>1. \A t \in Sagas : 0 \in 0..(Len(Items[t]) + 1)
    BY LineTypes
  <2> QED
    BY <1>12, <1>a, <2>1 DEF EndCancel, OrderTypes, QueueTypes, queueVars
<1>13. ASSUME NEW s \in Sagas, NEW p \in Products, SweepStale(s, p)
       PROVE  OrderTypes' /\ QueueTypes'
  BY <1>13, <1>a DEF SweepStale, GoTo, OrderTypes, QueueTypes, queueVars, orderVars
<1>14. ASSUME NEW p \in Products, DeleteProduct(p)
       PROVE  OrderTypes' /\ QueueTypes'
  BY <1>14, <1>a DEF DeleteProduct, GoTo, OrderTypes, QueueTypes, queueVars, orderVars
<1>15. ASSUME NEW p \in Products, NEW n \in PutStocks, PutStock(p, n)
       PROVE  OrderTypes' /\ QueueTypes'
  BY <1>15, <1>a DEF PutStock, GoTo, OrderTypes, QueueTypes, queueVars, orderVars
<1>16. CASE Dispatch
  <2>1. Head(events) \in Replies /\ Tail(events) \in Seq(Replies)
    BY <1>16, <1>a DEF Dispatch, QueueTypes
  <2>2. mailbox' \in [Sagas -> ReplyTypes \cup {NoReply}]
    BY <1>16, <1>a, <2>1 DEF Dispatch, OrderTypes, Replies
  <2> QED
    BY <1>16, <1>a, <2>1, <2>2 DEF Dispatch, OrderTypes, QueueTypes
<1>17. CASE HandleCommand
  <2>1. commands[handled + 1] \in Commands
    BY <1>17, <1>a, ElementOfSeq DEF HandleCommand, QueueTypes
  <2>2. \A type \in ReplyTypes : Reply(commands[handled + 1], type) \in Replies
    BY <2>1 DEF Reply, Replies, Commands
  <2>3. outgoing' \in Replies
    BY <1>17, <2>2 DEF HandleCommand, ReplyTypes
  <2> QED
    BY <1>17, <1>a, <2>3 DEF HandleCommand, OrderTypes, QueueTypes, orderVars
<1>18. CASE PublishReply
  <2>1. handled + 1 \in 0..Len(commands)
    BY <1>18, <1>a DEF PublishReply, QueueTypes
  <2>2. events' \in Seq(Replies)
    BY <1>18, <1>a DEF PublishReply, QueueTypes
  <2> QED
    BY <1>18, <1>a, <2>1, <2>2 DEF PublishReply, OrderTypes, QueueTypes, orderVars
<1>19. CASE CommitOffset
  <2>1. PICK n \in 1..handled : /\ commands' = SubSeq(commands, n + 1, Len(commands))
                                /\ handled' = handled - n
    BY <1>19 DEF CommitOffset
  <2>2. commands' \in Seq(Commands) /\ Len(commands') = Len(commands) - n
    BY <1>a, <2>1, SubSeqProperties, ElementOfSeq DEF QueueTypes
  <2>3. handled' \in 0..Len(commands')
    BY <1>a, <2>1, <2>2 DEF QueueTypes
  <2> QED
    BY <1>19, <1>a, <2>2, <2>3 DEF CommitOffset, OrderTypes, QueueTypes, orderVars
<1>20. CASE OrderServiceCrash
  <2>1. \A t \in Sagas : 0 \in 0..(Len(Items[t]) + 1)
    BY LineTypes
  <2>2. crashes' \in 0..MaxCrashes
    BY <1>20, <1>a, SagaAssumption DEF OrderServiceCrash, QueueTypes
  <2> QED
    BY <1>20, <1>a, <2>1, <2>2 DEF OrderServiceCrash, OrderTypes, QueueTypes
<1>21. CASE StockServiceCrash
  <2>1. crashes' \in 0..MaxCrashes
    BY <1>21, <1>a, SagaAssumption DEF StockServiceCrash, QueueTypes
  <2> QED
    BY <1>21, <1>a, <2>1 DEF StockServiceCrash, OrderTypes, QueueTypes, orderVars
<1>22. CASE UNCHANGED vars
  BY <1>22, <1>a DEF vars, OrderTypes, QueueTypes, orderVars, queueVars
<1> QED
  BY <1>1, <1>2, <1>3, <1>4, <1>5, <1>6, <1>7, <1>8, <1>9, <1>10, <1>11,
     <1>12, <1>13, <1>14, <1>15, <1>16, <1>17, <1>18, <1>19, <1>20, <1>21,
     <1>22 DEF Next, CreateStep, CancelStep

(* They hold in the beginning.                                             *)
LEMMA TypeInit == Init => TypeInv
<1> SUFFICES ASSUME Init
             PROVE  TypeInv
  OBVIOUS
<1>1. LedgerTypeOK
  BY LedgerTypeInit DEF Init
<1>2. \A s \in Sagas : 1 \in DOMAIN ProductOrder(s) /\ 0 \in 0..(Len(Items[s]) + 1)
  BY ProductOrderLists, LineTypes
<1>3. OrderTypes
  BY <1>2 DEF Init, OrderTypes
<1>4. QueueTypes
  BY SagaAssumption DEF Init, QueueTypes
<1> QED
  BY <1>1, <1>3, <1>4, TypesSplit

(* The variables of the saga keep their types: the worked-on product is    *)
(* one of the request, the rows of stock_db stay well formed, and the      *)
(* consumer never runs past the end of the topic.                          *)
THEOREM SagaTypeCorrect == Spec => []TypeOK
<1>1. TypeInv => TypeOK
  BY DEF TypeInv
<1> QED
  BY <1>1, TypeInit, TypeStep, PTL DEF Spec

(* The same, with what the later proofs need of it.                        *)
LEMMA SagaTypeInv == Spec => []TypeInv
BY TypeInit, TypeStep, PTL DEF Spec


-----------------------------------------------------------------------------
(* How rows, commands and sagas move.                                     *)

(* HandleCommand inserts the row (s, p).                                   *)
Reserves(s, p) ==
  /\ HandleCommand
  /\ outgoing = NoReply /\ handled + 1 \in 1..Len(commands)
  /\ commands[handled + 1].saga = s /\ commands[handled + 1].product = p
  /\ reservation'[p][s] = ReservedRow(commands[handled + 1].quantity)

(* Somebody may give back units of s: the compensation of Create, a        *)
(* Cancel, or the reconciliation.                                          *)
MayRelease(s) == pc[s] = "compensate" \/ refund[s] # 0 \/ Stale(s)

RowMoves(s, p) ==
  \/ reservation'[p][s] = reservation[p][s]
  \/ reservation[p][s] = NoRow /\ Reserves(s, p)
  \/ /\ reservation[p][s].status = "RESERVED" /\ MayRelease(s)
     /\ reservation'[p][s] = ReleasedRow(reservation[p][s])

(* A Release moves the row it is for, if any, and no other one.            *)
LEMMA ReleaseMoves ==
  ASSUME TypeInv, NEW s \in Sagas, NEW p \in Products, Release(s, p), MayRelease(s),
         NEW t \in Sagas, NEW r \in Products
  PROVE  RowMoves(t, r)
<1>1. CASE UNCHANGED ledgerVars
  BY <1>1 DEF RowMoves, ledgerVars
<1>2. CASE ReleaseUnits(s, p)
  <2>1. CASE t = s /\ r = p
    <3>1. /\ reservation[r][t].status = "RESERVED"
          /\ reservation'[r][t] = ReleasedRow(reservation[r][t])
      BY <1>2, <2>1 DEF ReleaseUnits, TypeInv, TypeOK, LedgerTypeOK
    <3> QED
      BY <2>1, <3>1 DEF RowMoves
  <2>2. CASE ~ (t = s /\ r = p)
    <3>1. reservation'[r][t] = reservation[r][t]
      BY <1>2, <2>2 DEF ReleaseUnits, TypeInv, TypeOK, LedgerTypeOK
    <3> QED
      BY <3>1 DEF RowMoves
  <2> QED
    BY <2>1, <2>2
<1> QED
  BY <1>1, <1>2 DEF Release

(* A row is inserted by the consumer for the command it handles, and       *)
(* released by one of three parties.                                       *)
LEMMA RowsMove ==
  ASSUME TypeInv, [Next]_vars, NEW t \in Sagas, NEW r \in Products
  PROVE  RowMoves(t, r)
<1>a. ASSUME UNCHANGED ledgerVars
      PROVE  RowMoves(t, r)
  BY <1>a DEF RowMoves, ledgerVars
<1>1. ASSUME NEW s \in Sagas, LookUpProducts(s)
      PROVE  RowMoves(t, r)
  BY <1>1, <1>a DEF LookUpProducts
<1>2. ASSUME NEW s \in Sagas, PublishCommand(s)
      PROVE  RowMoves(t, r)
  BY <1>2, <1>a DEF PublishCommand
<1>3. ASSUME NEW s \in Sagas, RegisterWaiter(s)
      PROVE  RowMoves(t, r)
  BY <1>3, <1>a DEF RegisterWaiter
<1>4. ASSUME NEW s \in Sagas, TakeReply(s)
      PROVE  RowMoves(t, r)
  BY <1>4, <1>a DEF TakeReply
<1>5. ASSUME NEW s \in Sagas, Timeout(s)
      PROVE  RowMoves(t, r)
  BY <1>5, <1>a DEF Timeout
<1>6. ASSUME NEW s \in Sagas, PersistOrder(s)
      PROVE  RowMoves(t, r)
  BY <1>6, <1>a DEF PersistOrder
<1>7. ASSUME NEW s \in Sagas, CompensateNext(s)
      PROVE  RowMoves(t, r)
  <2>1. CASE undo[s] = <<>>
    BY <1>7, <1>a, <2>1 DEF CompensateNext
  <2>2. CASE undo[s] # <<>>
    <3>1. Head(undo[s]) \in Products
      BY <2>2 DEF TypeInv, TypeOK
    <3>2. MayRelease(s)
      BY <1>7 DEF CompensateNext, MayRelease
    <3> QED
      BY <1>7, <1>a, <2>2, <3>1, <3>2, ReleaseMoves DEF CompensateNext
  <2> QED
    BY <2>1, <2>2
<1>8. ASSUME NEW s \in Sagas, Disconnect(s)
      PROVE  RowMoves(t, r)
  BY <1>8, <1>a DEF Disconnect
<1>9. ASSUME NEW s \in Sagas, Pay(s)
      PROVE  RowMoves(t, r)
  BY <1>9, <1>a DEF Pay
<1>10. ASSUME NEW s \in Sagas, BeginCancel(s)
       PROVE  RowMoves(t, r)
  BY <1>10, <1>a DEF BeginCancel
<1>11. ASSUME NEW s \in Sagas, RefundItem(s)
       PROVE  RowMoves(t, r)
  <2>1. Items[s][refund[s]].product \in Products
    BY <1>11, LineTypes DEF RefundItem
  <2>2. MayRelease(s)
    BY <1>11, LineTypes DEF RefundItem, MayRelease
  <2> QED
    BY <1>11, <1>a, <2>1, <2>2, ReleaseMoves DEF RefundItem
<1>12. ASSUME NEW s \in Sagas, EndCancel(s)
       PROVE  RowMoves(t, r)
  BY <1>12, <1>a DEF EndCancel
<1>13. ASSUME NEW s \in Sagas, NEW p \in Products, SweepStale(s, p)
       PROVE  RowMoves(t, r)
  <2>1. Release(s, p) /\ MayRelease(s)
    BY <1>13 DEF SweepStale, Release, MayRelease
  <2> QED
    BY <2>1, ReleaseMoves
<1>14. ASSUME NEW p \in Products, DeleteProduct(p)
       PROVE  RowMoves(t, r)
  BY <1>14 DEF DeleteProduct, RemoveProduct, RowMoves
<1>15. ASSUME NEW p \in Products, NEW n \in PutStocks, PutStock(p, n)
       PROVE  RowMoves(t, r)
  BY <1>15 DEF PutStock, SetStock, RowMoves
<1>16. CASE Dispatch
  BY <1>16, <1>a DEF Dispatch
<1>17. CASE HandleCommand
  <2> DEFINE c == commands[handled + 1]
  <2>1. outgoing = NoReply /\ handled + 1 \in 1..Len(commands)
    BY <1>17 DEF HandleCommand, TypeInv, TypeOK
  <2>2. c.saga \in Sagas /\ c.product \in Products
    <3>1. c \in Commands
      BY <2>1, ElementOfSeq DEF TypeInv, TypeOK
    <3> QED
      BY <3>1 DEF Commands
  <2>3. ASSUME ReserveUnits(c.saga, c.product, c.quantity)
        PROVE  RowMoves(t, r)
    <3> HIDE DEF c
    <3>1. CASE t = c.saga /\ r = c.product
      <4>1. reservation'[r][t] = ReservedRow(c.quantity) /\ reservation[r][t] = NoRow
        BY <2>2, <2>3, <3>1 DEF ReserveUnits, TypeInv, TypeOK, LedgerTypeOK
      <4> QED
        BY <1>17, <2>1, <3>1, <4>1 DEF RowMoves, Reserves, c
    <3>2. CASE ~ (t = c.saga /\ r = c.product)
      <4>1. reservation'[r][t] = reservation[r][t]
        BY <2>2, <2>3, <3>2 DEF ReserveUnits, TypeInv, TypeOK, LedgerTypeOK
      <4> QED
        BY <4>1 DEF RowMoves
    <3> QED
      BY <3>1, <3>2
  <2> QED
    BY <1>17, <1>a, <2>3 DEF HandleCommand
<1>18. CASE PublishReply
  BY <1>18, <1>a DEF PublishReply
<1>19. CASE CommitOffset
  BY <1>19, <1>a DEF CommitOffset
<1>20. CASE OrderServiceCrash
  BY <1>20, <1>a DEF OrderServiceCrash
<1>21. CASE StockServiceCrash
  BY <1>21, <1>a DEF StockServiceCrash
<1>22. CASE UNCHANGED vars
  BY <1>22, <1>a DEF vars
<1> QED
  BY <1>1, <1>2, <1>3, <1>4, <1>5, <1>6, <1>7, <1>8, <1>9, <1>10, <1>11,
     <1>12, <1>13, <1>14, <1>15, <1>16, <1>17, <1>18, <1>19, <1>20, <1>21,
     <1>22 DEF Next, CreateStep, CancelStep

(* Rows stay, with their quantity, and RELEASED is final.                  *)
LEMMA RowsStay ==
  ASSUME TypeInv, [Next]_vars, NEW s \in Sagas, NEW p \in Products,
         reservation[p][s] # NoRow
  PROVE  /\ reservation'[p][s] # NoRow
         /\ reservation'[p][s].quantity = reservation[p][s].quantity
         /\ reservation[p][s].status = "RELEASED" =>
              reservation'[p][s].status = "RELEASED"
         /\ reservation'[p][s].status \in {reservation[p][s].status, "RELEASED"}
<1>1. reservation[p][s] \in ReservationRows
  BY RowTypes DEF TypeInv, TypeOK
<1>2. RowMoves(s, p)
  BY RowsMove
<1>3. CASE reservation'[p][s] = reservation[p][s]
  BY <1>3
<1>4. CASE /\ reservation[p][s].status = "RESERVED"
           /\ reservation'[p][s] = ReleasedRow(reservation[p][s])
  BY <1>1, <1>4 DEF ReleasedRow, ReservationRows, NoRow
<1> QED
  BY <1>2, <1>3, <1>4 DEF RowMoves

(* Create never goes back to an earlier product or to its start.           *)
Onward(s) ==
  /\ at'[s] \in {at[s], at[s] + 1}
  /\ pc[s] # "new" => pc'[s] # "new"
  /\ at'[s] # at[s] => pc[s] = "wait" /\ pc'[s] = "publish" /\ mailbox[s] = "stock.reserved"

(* Only a reply of success takes Create to its next product.               *)
LEMMA SagaOnward ==
  ASSUME TypeInv, [Next]_vars, NEW t \in Sagas
  PROVE  Onward(t)
<1>1. ASSUME NEW s \in Sagas, LookUpProducts(s)
      PROVE  Onward(t)
  BY <1>1 DEF LookUpProducts, FailReserve, GoTo, Onward, TypeInv, TypeOK, orderVars
<1>2. ASSUME NEW s \in Sagas, PublishCommand(s)
      PROVE  Onward(t)
  BY <1>2 DEF PublishCommand, FailReserve, GoTo, Onward, TypeInv, TypeOK, orderVars
<1>3. ASSUME NEW s \in Sagas, RegisterWaiter(s)
      PROVE  Onward(t)
  BY <1>3 DEF RegisterWaiter, FailReserve, GoTo, Onward, TypeInv, TypeOK, orderVars
<1>4. ASSUME NEW s \in Sagas, TakeReply(s)
      PROVE  Onward(t)
  BY <1>4 DEF TakeReply, FailReserve, GoTo, Onward, TypeInv, TypeOK, orderVars
<1>5. ASSUME NEW s \in Sagas, Timeout(s)
      PROVE  Onward(t)
  BY <1>5 DEF Timeout, FailReserve, GoTo, Onward, TypeInv, TypeOK, orderVars
<1>6. ASSUME NEW s \in Sagas, PersistOrder(s)
      PROVE  Onward(t)
  BY <1>6 DEF PersistOrder, FailReserve, GoTo, Onward, TypeInv, TypeOK, orderVars
<1>7. ASSUME NEW s \in Sagas, CompensateNext(s)
      PROVE  Onward(t)
  BY <1>7 DEF CompensateNext, FailReserve, GoTo, Onward, TypeInv, TypeOK, orderVars
<1>8. ASSUME NEW s \in Sagas, Disconnect(s)
      PROVE  Onward(t)
  BY <1>8 DEF Disconnect, FailReserve, GoTo, Onward, TypeInv, TypeOK, orderVars
<1>9. ASSUME NEW s \in Sagas, Pay(s)
      PROVE  Onward(t)
  BY <1>9 DEF Pay, FailReserve, GoTo, Onward, TypeInv, TypeOK, orderVars
<1>10. ASSUME NEW s \in Sagas, BeginCancel(s)
       PROVE  Onward(t)
  BY <1>10 DEF BeginCancel, FailReserve, GoTo, Onward, TypeInv, TypeOK, orderVars
<1>11. ASSUME NEW s \in Sagas, RefundItem(s)
       PROVE  Onward(t)
  BY <1>11 DEF RefundItem, FailReserve, GoTo, Onward, TypeInv, TypeOK, orderVars
<1>12. ASSUME NEW s \in Sagas, EndCancel(s)
       PROVE  Onward(t)
  BY <1>12 DEF EndCancel, FailReserve, GoTo, Onward, TypeInv, TypeOK, orderVars
<1>13. ASSUME NEW s \in Sagas, NEW p \in Products, SweepStale(s, p)
       PROVE  Onward(t)
  BY <1>13 DEF SweepStale, FailReserve, GoTo, Onward, TypeInv, TypeOK, orderVars
<1>14. ASSUME NEW p \in Products, DeleteProduct(p)
       PROVE  Onward(t)
  BY <1>14 DEF DeleteProduct, FailReserve, GoTo, Onward, TypeInv, TypeOK, orderVars
<1>15. ASSUME NEW p \in Products, NEW n \in PutStocks, PutStock(p, n)
       PROVE  Onward(t)
  BY <1>15 DEF PutStock, FailReserve, GoTo, Onward, TypeInv, TypeOK, orderVars
<1>16. CASE Dispatch
  BY <1>16 DEF Dispatch, FailReserve, GoTo, Onward, TypeInv, TypeOK, orderVars
<1>17. CASE HandleCommand
  BY <1>17 DEF HandleCommand, FailReserve, GoTo, Onward, TypeInv, TypeOK, orderVars
<1>18. CASE PublishReply
  BY <1>18 DEF PublishReply, FailReserve, GoTo, Onward, TypeInv, TypeOK, orderVars
<1>19. CASE CommitOffset
  BY <1>19 DEF CommitOffset, FailReserve, GoTo, Onward, TypeInv, TypeOK, orderVars
<1>20. CASE OrderServiceCrash
  BY <1>20 DEF OrderServiceCrash, FailReserve, GoTo, Onward, TypeInv, TypeOK, orderVars
<1>21. CASE StockServiceCrash
  BY <1>21 DEF StockServiceCrash, FailReserve, GoTo, Onward, TypeInv, TypeOK, orderVars
<1>22. CASE UNCHANGED vars
  BY <1>22 DEF vars, Onward, orderVars
<1> QED
  BY <1>1, <1>2, <1>3, <1>4, <1>5, <1>6, <1>7, <1>8, <1>9, <1>10, <1>11,
     <1>12, <1>13, <1>14, <1>15, <1>16, <1>17, <1>18, <1>19, <1>20, <1>21,
     <1>22 DEF Next, CreateStep, CancelStep

(* The topic grows by the command of a saga about to publish one, and      *)
(* shrinks by what has been handled.                                       *)
CommandOf(s) ==
  [saga |-> s, product |-> Current(s), quantity |-> MergedQuantity(s, Current(s))]

TopicMoves ==
  \/ commands' = commands
  \/ \E s \in Sagas : PublishCommand(s) /\ commands' = Append(commands, CommandOf(s))
  \/ \E n \in 1..handled :
       /\ commands' = SubSeq(commands, n + 1, Len(commands))
       /\ handled' = handled - n

(* Nothing else ever happens to the topic.                                 *)
LEMMA TopicMove ==
  ASSUME TypeInv, [Next]_vars
  PROVE  TopicMoves
<1>1. ASSUME NEW s \in Sagas, LookUpProducts(s)
      PROVE  TopicMoves
  BY <1>1 DEF LookUpProducts, TopicMoves, queueVars
<1>2. ASSUME NEW s \in Sagas, PublishCommand(s)
      PROVE  TopicMoves
  BY <1>2 DEF PublishCommand, CommandOf, TopicMoves
<1>3. ASSUME NEW s \in Sagas, RegisterWaiter(s)
      PROVE  TopicMoves
  BY <1>3 DEF RegisterWaiter, TopicMoves, queueVars
<1>4. ASSUME NEW s \in Sagas, TakeReply(s)
      PROVE  TopicMoves
  BY <1>4 DEF TakeReply, TopicMoves, queueVars
<1>5. ASSUME NEW s \in Sagas, Timeout(s)
      PROVE  TopicMoves
  BY <1>5 DEF Timeout, TopicMoves, queueVars
<1>6. ASSUME NEW s \in Sagas, PersistOrder(s)
      PROVE  TopicMoves
  BY <1>6 DEF PersistOrder, TopicMoves, queueVars
<1>7. ASSUME NEW s \in Sagas, CompensateNext(s)
      PROVE  TopicMoves
  BY <1>7 DEF CompensateNext, TopicMoves, queueVars
<1>8. ASSUME NEW s \in Sagas, Disconnect(s)
      PROVE  TopicMoves
  BY <1>8 DEF Disconnect, TopicMoves, queueVars
<1>9. ASSUME NEW s \in Sagas, Pay(s)
      PROVE  TopicMoves
  BY <1>9 DEF Pay, TopicMoves, queueVars
<1>10. ASSUME NEW s \in Sagas, BeginCancel(s)
       PROVE  TopicMoves
  BY <1>10 DEF BeginCancel, TopicMoves, queueVars
<1>11. ASSUME NEW s \in Sagas, RefundItem(s)
       PROVE  TopicMoves
  BY <1>11 DEF RefundItem, TopicMoves, queueVars
<1>12. ASSUME NEW s \in Sagas, EndCancel(s)
       PROVE  TopicMoves
  BY <1>12 DEF EndCancel, TopicMoves, queueVars
<1>13. ASSUME NEW s \in Sagas, NEW p \in Products, SweepStale(s, p)
       PROVE  TopicMoves
  BY <1>13 DEF SweepStale, TopicMoves, queueVars
<1>14. ASSUME NEW p \in Products, DeleteProduct(p)
       PROVE  TopicMoves
  BY <1>14 DEF DeleteProduct, TopicMoves, queueVars
<1>15. ASSUME NEW p \in Products, NEW n \in PutStocks, PutStock(p, n)
       PROVE  TopicMoves
  BY <1>15 DEF PutStock, TopicMoves, queueVars
<1>16. CASE Dispatch
  BY <1>16 DEF Dispatch, TopicMoves, queueVars
<1>17. CASE HandleCommand
  BY <1>17 DEF HandleCommand, TopicMoves, queueVars
<1>18. CASE PublishReply
  BY <1>18 DEF PublishReply, TopicMoves, queueVars
<1>19. CASE CommitOffset
  BY <1>19 DEF CommitOffset, TopicMoves, queueVars
<1>20. CASE OrderServiceCrash
  BY <1>20 DEF OrderServiceCrash, TopicMoves, queueVars
<1>21. CASE StockServiceCrash
  BY <1>21 DEF StockServiceCrash, TopicMoves, queueVars
<1>22. CASE UNCHANGED vars
  BY <1>22 DEF vars, TopicMoves, queueVars
<1> QED
  BY <1>1, <1>2, <1>3, <1>4, <1>5, <1>6, <1>7, <1>8, <1>9, <1>10, <1>11,
     <1>12, <1>13, <1>14, <1>15, <1>16, <1>17, <1>18, <1>19, <1>20, <1>21,
     <1>22 DEF Next, CreateStep, CancelStep



-----------------------------------------------------------------------------
(* The inductive invariant.                                                *)

(* Create of s has come to product p: it asks, or has asked, for p.        *)
Named(s, p) == pc[s] # "new" /\ \E j \in 1..at[s] : ProductOrder(s)[j] = p

(* Every row was asked for, with the merged quantity of the request.       *)
RowsMatch ==
  \A s \in Sagas, p \in Products : reservation[p][s] # NoRow =>
    Named(s, p) /\ reservation[p][s].quantity = MergedQuantity(s, p)

Matches(c) ==
  Named(c.saga, c.product) /\ c.quantity = MergedQuantity(c.saga, c.product)

CommandsMatch == \A i \in 1..Len(commands) : Matches(commands[i])

(* A reply that reports success was sent over an existing row, ...         *)
Earned(r) == r.type = "stock.reserved" => reservation[r.product][r.saga] # NoRow

RepliesEarned ==
  /\ outgoing # NoReply => Earned(outgoing)
  /\ \A i \in 1..Len(events) : Earned(events[i])

(* ... and reaches the call for that very product, while it waits.         *)
MailboxEarned(s) ==
  mailbox[s] # NoReply =>
    /\ pc[s] = "wait"
    /\ mailbox[s] = "stock.reserved" => reservation[Current(s)][s] # NoRow

(* The products Create is done with.                                       *)
Secured(s) ==
  IF pc[s] \in {"new", "publish", "register", "wait"} THEN 1..(at[s] - 1)
  ELSE IF pc[s] = "persist" \/ status[s] # "NONE" THEN DOMAIN ProductOrder(s)
  ELSE {}

SecuredRows(s) ==
  \A j \in Secured(s) : reservation[ProductOrder(s)[j]][s] # NoRow

Undecided == {"new", "publish", "register", "wait", "persist"}

(* The order is only there once Create has tried to persist it.            *)
StatusWaits(s) == pc[s] \in Undecided => status[s] = "NONE"

(* An open Cancel keeps the order PENDING, and what it has refunded so far *)
(* is back on the shelf.                                                   *)
Refunded(s, n) ==
  \A i \in 1..n : reservation[Items[s][i].product][s].status = "RELEASED"

CancelProgress(s) ==
  /\ refund[s] # 0 => status[s] = "PENDING" /\ Refunded(s, refund[s] - 1)
  /\ status[s] = "CANCELED" => Refunded(s, Len(Items[s]))

SagaInv ==
  /\ TypeInv
  /\ RowsMatch
  /\ CommandsMatch
  /\ RepliesEarned
  /\ \A s \in Sagas : /\ MailboxEarned(s)
                       /\ SecuredRows(s)
                       /\ StatusWaits(s)
                       /\ CancelProgress(s)

(* The invariant holds before the first request.                           *)
LEMMA SagaInvInit == Init => SagaInv
<1> SUFFICES ASSUME Init
             PROVE  SagaInv
  OBVIOUS
<1>1. TypeInv
  BY TypeInit
<1>2. RowsMatch
  BY DEF Init, LedgerInit, RowsMatch
<1>3. CommandsMatch /\ RepliesEarned
  BY DEF Init, CommandsMatch, RepliesEarned
<1>4. ASSUME NEW s \in Sagas
      PROVE  MailboxEarned(s) /\ SecuredRows(s) /\ StatusWaits(s) /\ CancelProgress(s)
  BY DEF Init, MailboxEarned, SecuredRows, Secured, StatusWaits, CancelProgress
<1> QED
  BY <1>1, <1>2, <1>3, <1>4 DEF SagaInv

(* What Create has asked for, it has asked for.                            *)
LEMMA NamedStays ==
  ASSUME TypeInv, [Next]_vars, NEW s \in Sagas, NEW p, Named(s, p)
  PROVE  Named(s, p)'
<1>1. Onward(s)
  BY SagaOnward
<1>2. at[s] \in Nat
  BY DEF TypeInv
<1> QED
  BY <1>1, <1>2 DEF Onward, Named

(* A row comes into being for a command, and so with its quantity.         *)
LEMMA RowsMatchStep ==
  ASSUME TypeInv, RowsMatch, CommandsMatch, [Next]_vars
  PROVE  RowsMatch'
<1> SUFFICES ASSUME NEW s \in Sagas, NEW p \in Products, reservation'[p][s] # NoRow
             PROVE  Named(s, p)' /\ reservation'[p][s].quantity = MergedQuantity(s, p)
  BY DEF RowsMatch
<1>1. CASE reservation[p][s] # NoRow
  <2>1. Named(s, p) /\ reservation[p][s].quantity = MergedQuantity(s, p)
    BY <1>1 DEF RowsMatch
  <2> QED
    BY <1>1, <2>1, NamedStays, RowsStay
<1>2. CASE reservation[p][s] = NoRow
  <2>1. Reserves(s, p)
    <3>1. reservation[p][s].status # "RESERVED"
      BY <1>2 DEF NoRow
    <3> QED
      BY <1>2, <3>1, RowsMove DEF RowMoves
  <2>2. /\ Named(s, p)
        /\ commands[handled + 1].quantity = MergedQuantity(s, p)
    BY <2>1 DEF Reserves, CommandsMatch, Matches
  <2>3. reservation'[p][s].quantity = MergedQuantity(s, p)
    BY <2>1, <2>2 DEF Reserves, ReservedRow
  <2> QED
    BY <2>2, <2>3, NamedStays
<1> QED
  BY <1>1, <1>2

(* A command is published for the product Create has come to.              *)
LEMMA CommandsMatchStep ==
  ASSUME TypeInv, CommandsMatch, [Next]_vars
  PROVE  CommandsMatch'
<1>0. /\ commands \in Seq(Commands) /\ Len(commands) \in Nat /\ handled \in 0..Len(commands)
      /\ commands' \in Seq(Commands)
  BY TypeStep DEF TypeInv, TypeOK
<1>1. ASSUME NEW c \in Commands, Matches(c)
      PROVE  Matches(c)'
  BY <1>1, NamedStays DEF Matches, Commands
<1>2. ASSUME NEW i \in 1..Len(commands'), NEW c \in Commands, commands'[i] = c
      PROVE  Matches(c)'
  <2>1. ASSUME NEW k \in 1..Len(commands), commands[k] = c
        PROVE  Matches(c)'
    BY <1>1, <2>1 DEF CommandsMatch
  <2>2. CASE commands' = commands
    BY <1>2, <2>1, <2>2
  <2>3. ASSUME NEW s \in Sagas, PublishCommand(s), commands' = Append(commands, CommandOf(s))
        PROVE  Matches(c)'
    <3>1. CommandOf(s) \in Commands
      BY CurrentTypes DEF CommandOf, Current, Commands
    <3>2. Matches(CommandOf(s))
      BY <2>3, CurrentTypes DEF PublishCommand, CommandOf, Matches, Named, Current
    <3>3. \/ i \in 1..Len(commands) /\ c = commands[i]
          \/ c = CommandOf(s)
      <4> HIDE DEF CommandOf
      <4> QED
        BY <1>0, <1>2, <2>3, <3>1
    <3>4. CASE c = CommandOf(s)
      BY <1>1, <3>2, <3>4
    <3> QED
      BY <2>1, <3>3, <3>4
  <2>4. ASSUME NEW n \in 1..handled, commands' = SubSeq(commands, n + 1, Len(commands))
        PROVE  Matches(c)'
    <3>1. n + i \in 1..Len(commands) /\ c = commands[n + i]
      <4>1. n \in Nat /\ n <= Len(commands)
        BY <1>0
      <4>2. \A k \in (n + 1)..Len(commands) : commands[k] \in Commands
        BY <1>0, <4>1
      <4>3. /\ Len(commands') = Len(commands) - n
            /\ \A k \in 1..(Len(commands) - n) : commands'[k] = commands[n + k]
        BY <1>0, <2>4, <4>1
      <4> QED
        BY <1>0, <1>2, <4>1, <4>3
    <3> QED
      BY <2>1, <3>1
  <2> QED
    BY <2>2, <2>3, <2>4, TopicMove DEF TopicMoves
<1>3. \A i \in 1..Len(commands') : commands'[i] \in Commands
  BY <1>0, ElementOfSeq
<1> QED
  BY <1>2, <1>3 DEF CommandsMatch

(* A reply is only ever sent over a row that is there, and rows stay.      *)
LEMMA EarnedStays ==
  ASSUME TypeInv, [Next]_vars, NEW r \in Replies, Earned(r)
  PROVE  Earned(r)'
BY RowsStay DEF Earned, Replies

(* Handling, publishing, redelivery and loss keep replies earned.          *)
LEMMA RepliesEarnedStep ==
  ASSUME TypeInv, RepliesEarned, [Next]_vars
  PROVE  RepliesEarned'
<1>0. /\ events \in Seq(Replies) /\ outgoing \in Replies \cup {NoReply}
      /\ events' \in Seq(Replies) /\ outgoing' \in Replies \cup {NoReply}
  BY TypeStep DEF TypeInv, TypeOK
<1>b. ASSUME NEW r \in Replies, outgoing' = r, outgoing = r \/ Earned(r) \/ Earned(r)'
      PROVE  Earned(outgoing)'
  <2>1. r # NoReply
    BY SagaAssumption
  <2>2. Earned(r)'
    BY <1>b, <2>1, EarnedStays DEF RepliesEarned
  <2> QED
    BY <1>b, <2>2
<1>c. ASSUME NEW i \in 1..Len(events'), NEW r \in Replies, events'[i] = r,
             outgoing = r \/ \E k \in 1..Len(events) : events[k] = r
      PROVE  Earned(events[i])'
  <2>1. r # NoReply
    BY SagaAssumption
  <2>2. Earned(r)
    BY <1>c, <2>1 DEF RepliesEarned
  <2>3. Earned(r)'
    BY <2>2, EarnedStays
  <2> QED
    BY <1>c, <2>3
<1>d. ASSUME NEW i \in 1..Len(events') PROVE events'[i] \in Replies
  BY <1>0, ElementOfSeq
<1>e. ASSUME events' = events PROVE \A i \in 1..Len(events') : Earned(events[i])'
  BY <1>c, <1>d, <1>e
<1>f. ASSUME outgoing' = outgoing, outgoing' # NoReply PROVE Earned(outgoing)'
  BY <1>0, <1>b, <1>f
<1>a. ASSUME UNCHANGED <<outgoing, events>>
      PROVE  RepliesEarned'
  BY <1>a, <1>e, <1>f DEF RepliesEarned
<1>1. ASSUME NEW s \in Sagas, LookUpProducts(s)
      PROVE  RepliesEarned'
  BY <1>1, <1>a DEF LookUpProducts, queueVars
<1>2. ASSUME NEW s \in Sagas, PublishCommand(s)
      PROVE  RepliesEarned'
  BY <1>2, <1>a DEF PublishCommand, queueVars
<1>3. ASSUME NEW s \in Sagas, RegisterWaiter(s)
      PROVE  RepliesEarned'
  BY <1>3, <1>a DEF RegisterWaiter, queueVars
<1>4. ASSUME NEW s \in Sagas, TakeReply(s)
      PROVE  RepliesEarned'
  BY <1>4, <1>a DEF TakeReply, queueVars
<1>5. ASSUME NEW s \in Sagas, Timeout(s)
      PROVE  RepliesEarned'
  BY <1>5, <1>a DEF Timeout, queueVars
<1>6. ASSUME NEW s \in Sagas, PersistOrder(s)
      PROVE  RepliesEarned'
  BY <1>6, <1>a DEF PersistOrder, queueVars
<1>7. ASSUME NEW s \in Sagas, CompensateNext(s)
      PROVE  RepliesEarned'
  BY <1>7, <1>a DEF CompensateNext, queueVars
<1>8. ASSUME NEW s \in Sagas, Disconnect(s)
      PROVE  RepliesEarned'
  BY <1>8, <1>a DEF Disconnect, queueVars
<1>9. ASSUME NEW s \in Sagas, Pay(s)
      PROVE  RepliesEarned'
  BY <1>9, <1>a DEF Pay, queueVars
<1>10. ASSUME NEW s \in Sagas, BeginCancel(s)
       PROVE  RepliesEarned'
  BY <1>10, <1>a DEF BeginCancel, queueVars
<1>11. ASSUME NEW s \in Sagas, RefundItem(s)
       PROVE  RepliesEarned'
  BY <1>11, <1>a DEF RefundItem, queueVars
<1>12. ASSUME NEW s \in Sagas, EndCancel(s)
       PROVE  RepliesEarned'
  BY <1>12, <1>a DEF EndCancel, queueVars
<1>13. ASSUME NEW s \in Sagas, NEW p \in Products, SweepStale(s, p)
       PROVE  RepliesEarned'
  BY <1>13, <1>a DEF SweepStale, queueVars
<1>14. ASSUME NEW p \in Products, DeleteProduct(p)
       PROVE  RepliesEarned'
  BY <1>14, <1>a DEF DeleteProduct, queueVars
<1>15. ASSUME NEW p \in Products, NEW n \in PutStocks, PutStock(p, n)
       PROVE  RepliesEarned'
  BY <1>15, <1>a DEF PutStock, queueVars
<1>16. CASE Dispatch
  <2>1. \A i \in 1..Len(events') : events'[i] = events[i + 1] /\ i + 1 \in 1..Len(events)
    BY <1>16, <1>0 DEF Dispatch
  <2>2. \A i \in 1..Len(events') : Earned(events[i])'
    BY <1>c, <1>d, <2>1
  <2> QED
    BY <1>16, <1>f, <2>2 DEF Dispatch, RepliesEarned
<1>17. CASE HandleCommand
  <2> DEFINE c == commands[handled + 1]
  <2>1. c \in Commands
    BY <1>17, ElementOfSeq DEF HandleCommand, TypeInv, TypeOK
  <2>2. c.saga \in Sagas /\ c.product \in Products
    BY <2>1 DEF Commands
  <2>3. Earned(Reply(c, "stock.reservation.failed"))'
    BY DEF Reply, Earned
  <2>4. CASE outgoing' = Reply(c, "stock.reservation.failed")
    <3>1. Earned(outgoing)'
      BY <2>4, <2>3 DEF Earned, Reply
    <3> QED
      BY <1>17, <1>e, <3>1 DEF HandleCommand, RepliesEarned
  <2>5. CASE outgoing' = Reply(c, "stock.reserved")
    <3>1. reservation'[c.product][c.saga] # NoRow
      <4>1. CASE reservation[c.product][c.saga] # NoRow
        BY <2>2, <4>1, RowsStay
      <4>2. CASE reservation[c.product][c.saga] = NoRow
        <5> HIDE DEF c
        <5>1. ReserveUnits(c.saga, c.product, c.quantity)
          BY <1>17, <2>5, <4>2 DEF HandleCommand, Reply, c
        <5>2. reservation'[c.product][c.saga] = ReservedRow(c.quantity)
          BY <2>2, <5>1 DEF ReserveUnits, TypeInv, TypeOK, LedgerTypeOK
        <5> QED
          BY <5>2 DEF ReservedRow, NoRow
      <4> QED
        BY <4>1, <4>2
    <3>2. Earned(outgoing)'
      BY <2>5, <3>1 DEF Earned, Reply
    <3> QED
      BY <1>17, <1>e, <3>2 DEF HandleCommand, RepliesEarned
  <2> QED
    BY <1>17, <2>4, <2>5 DEF HandleCommand
<1>18. CASE PublishReply
  <2>1. ASSUME NEW i \in 1..Len(events')
        PROVE  events'[i] = outgoing \/ \E k \in 1..Len(events) : events[k] = events'[i]
    BY <1>18, <1>0 DEF PublishReply
  <2>2. \A i \in 1..Len(events') : Earned(events[i])'
    BY <1>c, <1>d, <2>1
  <2> QED
    BY <1>18, <2>2 DEF PublishReply, RepliesEarned
<1>19. CASE CommitOffset
  BY <1>19, <1>a DEF CommitOffset
<1>20. CASE OrderServiceCrash
  <2>1. Len(events') = 0
    BY <1>20 DEF OrderServiceCrash
  <2> QED
    BY <1>20, <1>f, <2>1 DEF OrderServiceCrash, RepliesEarned
<1>21. CASE StockServiceCrash
  BY <1>21, <1>e DEF StockServiceCrash, RepliesEarned
<1>22. CASE UNCHANGED vars
  BY <1>22, <1>a DEF vars, queueVars
<1> QED
  BY <1>1, <1>2, <1>3, <1>4, <1>5, <1>6, <1>7, <1>8, <1>9, <1>10, <1>11,
     <1>12, <1>13, <1>14, <1>15, <1>16, <1>17, <1>18, <1>19, <1>20, <1>21,
     <1>22 DEF Next, CreateStep, CancelStep

(* The mailbox of a call only takes the reply to it, and is empty once the *)
(* call is over.                                                           *)
LEMMA MailboxStep ==
  ASSUME TypeInv, RepliesEarned, [Next]_vars, NEW t \in Sagas, MailboxEarned(t)
  PROVE  MailboxEarned(t)'
<1>0. Current(t) \in Products
  BY CurrentTypes DEF Current
<1>b. ASSUME at'[t] = at[t], pc'[t] = pc[t], mailbox'[t] = mailbox[t]
      PROVE  MailboxEarned(t)'
  <2>1. reservation[Current(t)][t] # NoRow => reservation'[Current(t)][t] # NoRow
    BY <1>0, RowsStay
  <2> QED
    BY <1>b, <2>1 DEF MailboxEarned, Current
<1>c. ASSUME mailbox'[t] = NoReply
      PROVE  MailboxEarned(t)'
  BY <1>c DEF MailboxEarned
<1>1. ASSUME NEW s \in Sagas, LookUpProducts(s)
      PROVE  MailboxEarned(t)'
  <2>1. CASE s = t
    BY <1>1, <1>c, <2>1 DEF LookUpProducts, FailReserve, GoTo, TypeInv, TypeOK, MailboxEarned
  <2>2. CASE s # t
    BY <1>1, <1>b, <2>2 DEF LookUpProducts, FailReserve, GoTo, TypeInv, TypeOK
  <2> QED
    BY <2>1, <2>2
<1>2. ASSUME NEW s \in Sagas, PublishCommand(s)
      PROVE  MailboxEarned(t)'
  <2>1. CASE s = t
    BY <1>2, <1>c, <2>1 DEF PublishCommand, FailReserve, GoTo, TypeInv, TypeOK, MailboxEarned
  <2>2. CASE s # t
    BY <1>2, <1>b, <2>2 DEF PublishCommand, FailReserve, GoTo, TypeInv, TypeOK
  <2> QED
    BY <2>1, <2>2
<1>3. ASSUME NEW s \in Sagas, RegisterWaiter(s)
      PROVE  MailboxEarned(t)'
  <2>1. CASE s = t
    BY <1>3, <1>c, <2>1 DEF RegisterWaiter, FailReserve, GoTo, TypeInv, TypeOK, MailboxEarned
  <2>2. CASE s # t
    BY <1>3, <1>b, <2>2 DEF RegisterWaiter, FailReserve, GoTo, TypeInv, TypeOK
  <2> QED
    BY <2>1, <2>2
<1>4. ASSUME NEW s \in Sagas, TakeReply(s)
      PROVE  MailboxEarned(t)'
  <2>1. CASE s = t
    BY <1>4, <1>c, <2>1 DEF TakeReply, FailReserve, GoTo, TypeInv, TypeOK, MailboxEarned
  <2>2. CASE s # t
    BY <1>4, <1>b, <2>2 DEF TakeReply, FailReserve, GoTo, TypeInv, TypeOK
  <2> QED
    BY <2>1, <2>2
<1>5. ASSUME NEW s \in Sagas, Timeout(s)
      PROVE  MailboxEarned(t)'
  <2>1. CASE s = t
    BY <1>5, <1>c, <2>1 DEF Timeout, FailReserve, GoTo, TypeInv, TypeOK, MailboxEarned
  <2>2. CASE s # t
    BY <1>5, <1>b, <2>2 DEF Timeout, FailReserve, GoTo, TypeInv, TypeOK
  <2> QED
    BY <2>1, <2>2
<1>6. ASSUME NEW s \in Sagas, PersistOrder(s)
      PROVE  MailboxEarned(t)'
  <2>1. CASE s = t
    BY <1>6, <1>c, <2>1 DEF PersistOrder, FailReserve, GoTo, TypeInv, TypeOK, MailboxEarned
  <2>2. CASE s # t
    BY <1>6, <1>b, <2>2 DEF PersistOrder, FailReserve, GoTo, TypeInv, TypeOK
  <2> QED
    BY <2>1, <2>2
<1>7. ASSUME NEW s \in Sagas, CompensateNext(s)
      PROVE  MailboxEarned(t)'
  <2>1. CASE s = t
    BY <1>7, <1>c, <2>1 DEF CompensateNext, FailReserve, GoTo, TypeInv, TypeOK, MailboxEarned
  <2>2. CASE s # t
    BY <1>7, <1>b, <2>2 DEF CompensateNext, FailReserve, GoTo, TypeInv, TypeOK
  <2> QED
    BY <2>1, <2>2
<1>8. ASSUME NEW s \in Sagas, Disconnect(s)
      PROVE  MailboxEarned(t)'
  <2>1. CASE s = t
    BY <1>8, <1>c, <2>1 DEF Disconnect, FailReserve, GoTo, TypeInv, TypeOK, MailboxEarned
  <2>2. CASE s # t
    BY <1>8, <1>b, <2>2 DEF Disconnect, FailReserve, GoTo, TypeInv, TypeOK
  <2> QED
    BY <2>1, <2>2
<1>9. ASSUME NEW s \in Sagas, Pay(s)
      PROVE  MailboxEarned(t)'
  BY <1>9, <1>b DEF Pay
<1>10. ASSUME NEW s \in Sagas, BeginCancel(s)
       PROVE  MailboxEarned(t)'
  BY <1>10, <1>b DEF BeginCancel
<1>11. ASSUME NEW s \in Sagas, RefundItem(s)
       PROVE  MailboxEarned(t)'
  BY <1>11, <1>b DEF RefundItem
<1>12. ASSUME NEW s \in Sagas, EndCancel(s)
       PROVE  MailboxEarned(t)'
  BY <1>12, <1>b DEF EndCancel
<1>13. ASSUME NEW s \in Sagas, NEW p \in Products, SweepStale(s, p)
       PROVE  MailboxEarned(t)'
  BY <1>13, <1>b DEF SweepStale, orderVars
<1>14. ASSUME NEW p \in Products, DeleteProduct(p)
       PROVE  MailboxEarned(t)'
  BY <1>14, <1>b DEF DeleteProduct, orderVars
<1>15. ASSUME NEW p \in Products, NEW n \in PutStocks, PutStock(p, n)
       PROVE  MailboxEarned(t)'
  BY <1>15, <1>b DEF PutStock, orderVars
<1>16. CASE Dispatch
  <2> DEFINE e == Head(events)
  <2>1. e \in Replies /\ Earned(e)
    <3>1. events # <<>> /\ events \in Seq(Replies)
      BY <1>16 DEF Dispatch, TypeInv, TypeOK
    <3>2. e = events[1] /\ 1 \in 1..Len(events) /\ e \in Replies
      BY <3>1
    <3> QED
      BY <3>2 DEF RepliesEarned
  <2>2. CASE mailbox'[t] = mailbox[t]
    <3>1. reservation[Current(t)][t] # NoRow => reservation'[Current(t)][t] # NoRow
      BY <1>0, RowsStay
    <3> QED
      BY <1>16, <2>2, <3>1 DEF Dispatch, MailboxEarned, Current
  <2>3. CASE mailbox'[t] # mailbox[t]
    <3>1. Awaited(e) /\ e.saga = t /\ mailbox'[t] = e.type
      BY <1>16, <2>1, <2>3 DEF Dispatch, TypeInv, TypeOK
    <3>2. pc[t] = "wait" /\ Current(t) = e.product
      BY <3>1 DEF Awaited
    <3>3. e.type = "stock.reserved" => reservation[Current(t)][t] # NoRow
      BY <2>1, <3>1, <3>2 DEF Earned
    <3> QED
      BY <1>16, <3>1, <3>2, <3>3 DEF Dispatch, MailboxEarned, Current, ledgerVars
  <2> QED
    BY <2>2, <2>3
<1>17. CASE HandleCommand
  BY <1>17, <1>b DEF HandleCommand, orderVars
<1>18. CASE PublishReply
  BY <1>18, <1>b DEF PublishReply, orderVars
<1>19. CASE CommitOffset
  BY <1>19, <1>b DEF CommitOffset, orderVars
<1>20. CASE OrderServiceCrash
  BY <1>20, <1>c DEF OrderServiceCrash
<1>21. CASE StockServiceCrash
  BY <1>21, <1>b DEF StockServiceCrash, orderVars
<1>22. CASE UNCHANGED vars
  BY <1>22, <1>b DEF vars, orderVars
<1> QED
  BY <1>1, <1>2, <1>3, <1>4, <1>5, <1>6, <1>7, <1>8, <1>9, <1>10, <1>11,
     <1>12, <1>13, <1>14, <1>15, <1>16, <1>17, <1>18, <1>19, <1>20, <1>21,
     <1>22 DEF Next, CreateStep, CancelStep

(* What Create is done with grows by a product whose success arrived.       *)
SecuredMoves(s) ==
  \A j \in Secured(s)' :
    j \in Secured(s) \/ (j = at[s] /\ pc[s] = "wait" /\ mailbox[s] = "stock.reserved")

(* Every step of Create, and every way it can end, grows the set of        *)
(* secured products by no more than that one.                              *)
LEMMA SecuredMove ==
  ASSUME TypeInv, [Next]_vars, NEW t \in Sagas, StatusWaits(t), CancelProgress(t)
  PROVE  SecuredMoves(t)
<1>0. /\ at[t] \in 1..Len(ProductOrder(t)) /\ at[t] \in Nat
      /\ DOMAIN ProductOrder(t) = 1..Len(ProductOrder(t))
      /\ Len(ProductOrder(t)) \in Nat
  BY CurrentTypes, ProductOrderLists
<1>a. ASSUME pc'[t] = pc[t], at'[t] = at[t], status'[t] = status[t]
      PROVE  SecuredMoves(t)
  BY <1>a DEF SecuredMoves, Secured
<1>b. ASSUME pc'[t] \in {"compensate", "failed"}, status'[t] = status[t], pc[t] # "created"
      PROVE  SecuredMoves(t)
  BY <1>b DEF SecuredMoves, Secured, StatusWaits, Undecided
<1>1. ASSUME NEW s \in Sagas, LookUpProducts(s)
      PROVE  SecuredMoves(t)
  <2>1. CASE s = t
    <3>1. CASE pc'[t] = "publish"
      BY <1>1, <2>1, <3>1 DEF LookUpProducts, SecuredMoves, Secured
    <3>2. CASE pc'[t] = "failed"
      BY <1>1, <1>b, <2>1, <3>2 DEF LookUpProducts
    <3> QED
      BY <1>1, <2>1, <3>1, <3>2 DEF LookUpProducts, GoTo, TypeInv, TypeOK
  <2>2. CASE s # t
    BY <1>1, <1>a, <2>2 DEF LookUpProducts, GoTo, TypeInv, TypeOK
  <2> QED
    BY <2>1, <2>2
<1>2. ASSUME NEW s \in Sagas, PublishCommand(s)
      PROVE  SecuredMoves(t)
  <2>1. CASE s = t
    <3>1. CASE GoTo(s, "register") /\ UNCHANGED <<at, status>>
      BY <1>2, <2>1, <3>1 DEF PublishCommand, GoTo, SecuredMoves, Secured, TypeInv, TypeOK
    <3>2. CASE FailReserve(s)
      BY <1>2, <1>b, <2>1, <3>2 DEF PublishCommand, FailReserve, GoTo, TypeInv, TypeOK
    <3> QED
      BY <1>2, <3>1, <3>2 DEF PublishCommand
  <2>2. CASE s # t
    BY <1>2, <1>a, <2>2 DEF PublishCommand, FailReserve, GoTo, TypeInv, TypeOK
  <2> QED
    BY <2>1, <2>2
<1>3. ASSUME NEW s \in Sagas, RegisterWaiter(s)
      PROVE  SecuredMoves(t)
  <2>1. CASE s = t
    BY <1>3, <2>1 DEF RegisterWaiter, GoTo, SecuredMoves, Secured, TypeInv, TypeOK
  <2>2. CASE s # t
    BY <1>3, <1>a, <2>2 DEF RegisterWaiter, GoTo, TypeInv, TypeOK
  <2> QED
    BY <2>1, <2>2
<1>4. ASSUME NEW s \in Sagas, TakeReply(s)
      PROVE  SecuredMoves(t)
  <2>1. CASE s = t
    <3>1. CASE FailReserve(s)
      BY <1>4, <1>b, <2>1, <3>1 DEF TakeReply, FailReserve, GoTo, TypeInv, TypeOK
    <3>2. CASE ~ FailReserve(s)
      <4>1. pc[t] = "wait" /\ mailbox[t] = "stock.reserved"
        BY <1>4, <2>1, <3>2 DEF TakeReply
      <4>2. CASE at[t] < Len(ProductOrder(t))
        <5>1. pc'[t] = "publish" /\ at'[t] = at[t] + 1
          BY <1>4, <2>1, <3>2, <4>2 DEF TakeReply, GoTo, TypeInv, TypeOK
        <5> QED
          BY <1>0, <4>1, <5>1 DEF SecuredMoves, Secured
      <4>3. CASE ~ (at[t] < Len(ProductOrder(t)))
        <5>1. pc'[t] = "persist" /\ at'[t] = at[t]
          BY <1>4, <2>1, <3>2, <4>3 DEF TakeReply, GoTo, TypeInv, TypeOK
        <5> QED
          BY <1>0, <4>1, <4>3, <5>1 DEF SecuredMoves, Secured
      <4> QED
        BY <4>2, <4>3
    <3> QED
      BY <3>1, <3>2
  <2>2. CASE s # t
    BY <1>4, <1>a, <2>2 DEF TakeReply, FailReserve, GoTo, TypeInv, TypeOK
  <2> QED
    BY <2>1, <2>2
<1>5. ASSUME NEW s \in Sagas, Timeout(s)
      PROVE  SecuredMoves(t)
  <2>1. CASE s = t
    BY <1>5, <1>b, <2>1 DEF Timeout, FailReserve, GoTo, TypeInv, TypeOK
  <2>2. CASE s # t
    BY <1>5, <1>a, <2>2 DEF Timeout, FailReserve, GoTo, TypeInv, TypeOK
  <2> QED
    BY <2>1, <2>2
<1>6. ASSUME NEW s \in Sagas, PersistOrder(s)
      PROVE  SecuredMoves(t)
  <2>1. CASE s = t
    <3>1. Secured(t)' \subseteq DOMAIN ProductOrder(t)
      BY <1>6, <2>1 DEF PersistOrder, GoTo, Secured, TypeInv, TypeOK
    <3>2. Secured(t) = DOMAIN ProductOrder(t)
      BY <1>6, <2>1 DEF PersistOrder, Secured
    <3> QED
      BY <3>1, <3>2 DEF SecuredMoves
  <2>2. CASE s # t
    BY <1>6, <1>a, <2>2 DEF PersistOrder, GoTo, TypeInv, TypeOK
  <2> QED
    BY <2>1, <2>2
<1>7. ASSUME NEW s \in Sagas, CompensateNext(s)
      PROVE  SecuredMoves(t)
  <2>1. CASE s = t
    BY <1>7, <1>b, <2>1 DEF CompensateNext, GoTo, TypeInv, TypeOK
  <2>2. CASE s # t
    BY <1>7, <1>a, <2>2 DEF CompensateNext, GoTo, TypeInv, TypeOK
  <2> QED
    BY <2>1, <2>2
<1>8. ASSUME NEW s \in Sagas, Disconnect(s)
      PROVE  SecuredMoves(t)
  <2>1. CASE s = t
    BY <1>8, <1>b, <2>1 DEF Disconnect, InCreate, GoTo, TypeInv, TypeOK
  <2>2. CASE s # t
    BY <1>8, <1>a, <2>2 DEF Disconnect, GoTo, TypeInv, TypeOK
  <2> QED
    BY <2>1, <2>2
<1>9. ASSUME NEW s \in Sagas, Pay(s)
      PROVE  SecuredMoves(t)
  <2>1. CASE s = t
    BY <1>9, <2>1 DEF Pay, SecuredMoves, Secured, TypeInv, TypeOK
  <2>2. CASE s # t
    BY <1>9, <1>a, <2>2 DEF Pay, TypeInv, TypeOK
  <2> QED
    BY <2>1, <2>2
<1>10. ASSUME NEW s \in Sagas, BeginCancel(s)
       PROVE  SecuredMoves(t)
  BY <1>10, <1>a DEF BeginCancel, orderVars
<1>11. ASSUME NEW s \in Sagas, RefundItem(s)
       PROVE  SecuredMoves(t)
  BY <1>11, <1>a DEF RefundItem, orderVars
<1>12. ASSUME NEW s \in Sagas, EndCancel(s)
       PROVE  SecuredMoves(t)
  <2>1. CASE s = t
    <3>1. refund[t] # 0
      BY <1>12, <2>1, LineTypes DEF EndCancel
    <3>2. status[t] = "PENDING"
      BY <3>1 DEF CancelProgress
    <3> QED
      BY <1>12, <2>1, <3>2 DEF EndCancel, SecuredMoves, Secured, TypeInv, TypeOK
  <2>2. CASE s # t
    BY <1>12, <1>a, <2>2 DEF EndCancel, TypeInv, TypeOK
  <2> QED
    BY <2>1, <2>2
<1>13. ASSUME NEW s \in Sagas, NEW p \in Products, SweepStale(s, p)
       PROVE  SecuredMoves(t)
  BY <1>13, <1>a DEF SweepStale, orderVars
<1>14. ASSUME NEW p \in Products, DeleteProduct(p)
       PROVE  SecuredMoves(t)
  BY <1>14, <1>a DEF DeleteProduct, orderVars
<1>15. ASSUME NEW p \in Products, NEW n \in PutStocks, PutStock(p, n)
       PROVE  SecuredMoves(t)
  BY <1>15, <1>a DEF PutStock, orderVars
<1>16. CASE Dispatch
  BY <1>16, <1>a DEF Dispatch, orderVars
<1>17. CASE HandleCommand
  BY <1>17, <1>a DEF HandleCommand, orderVars
<1>18. CASE PublishReply
  BY <1>18, <1>a DEF PublishReply, orderVars
<1>19. CASE CommitOffset
  BY <1>19, <1>a DEF CommitOffset, orderVars
<1>20. CASE OrderServiceCrash
  <2>1. CASE InCreate(t)
    BY <1>20, <1>b, <2>1 DEF OrderServiceCrash, InCreate
  <2>2. CASE ~ InCreate(t)
    BY <1>20, <1>a, <2>2 DEF OrderServiceCrash
  <2> QED
    BY <2>1, <2>2
<1>21. CASE StockServiceCrash
  BY <1>21, <1>a DEF StockServiceCrash, orderVars
<1>22. CASE UNCHANGED vars
  BY <1>22, <1>a DEF vars, orderVars
<1> QED
  BY <1>1, <1>2, <1>3, <1>4, <1>5, <1>6, <1>7, <1>8, <1>9, <1>10, <1>11,
     <1>12, <1>13, <1>14, <1>15, <1>16, <1>17, <1>18, <1>19, <1>20, <1>21,
     <1>22 DEF Next, CreateStep, CancelStep

(* So every product Create is done with has its row.                       *)
LEMMA SecuredStep ==
  ASSUME TypeInv, [Next]_vars, NEW s \in Sagas,
         MailboxEarned(s), SecuredRows(s), StatusWaits(s), CancelProgress(s)
  PROVE  SecuredRows(s)'
<1> SUFFICES ASSUME NEW j \in Secured(s)'
             PROVE  reservation'[ProductOrder(s)[j]][s] # NoRow
  BY DEF SecuredRows
<1>1. reservation[ProductOrder(s)[j]][s] # NoRow
  <2>1. CASE j \in Secured(s)
    BY <2>1 DEF SecuredRows
  <2>2. CASE j = at[s] /\ mailbox[s] = "stock.reserved"
    BY <2>2, SagaAssumption DEF MailboxEarned, Current, ReplyTypes
  <2> QED
    BY <2>1, <2>2, SecuredMove DEF SecuredMoves
<1>2. ProductOrder(s)[j] \in Products
  <2>1. j \in 1..Len(ProductOrder(s))
    <3>1. Secured(s)' \subseteq 1..Len(ProductOrder(s))
      <4>1. at'[s] \in 1..Len(ProductOrder(s))
        BY TypeStep, ProductOrderLists DEF TypeInv, TypeOK
      <4> QED
        BY <4>1, ProductOrderLists DEF Secured
    <3> QED
      BY <3>1
  <2> QED
    BY <2>1, CurrentTypes
<1> QED
  BY <1>1, <1>2, RowsStay

(* What may become of orders.status and of an open Cancel.               *)
StatusMoves(s) ==
  /\ pc'[s] \in Undecided => pc[s] \in Undecided /\ status'[s] = status[s]
  /\ \/ status'[s] = status[s]
     \/ pc[s] = "persist" /\ status'[s] = "PENDING"
     \/ status[s] = "PENDING" /\ refund[s] = 0 /\ status'[s] = "PAID"
     \/ refund[s] = Len(Items[s]) + 1 /\ status'[s] = "CANCELED"

(* Pay, Cancel, the commit of Create and nothing else change the status.   *)
LEMMA StatusMove ==
  ASSUME TypeInv, [Next]_vars, NEW t \in Sagas, StatusWaits(t), CancelProgress(t)
  PROVE  StatusMoves(t)
<1>a. ASSUME pc'[t] = pc[t], status'[t] = status[t]
      PROVE  StatusMoves(t)
  BY <1>a DEF StatusMoves
<1>b. ASSUME pc'[t] \in Undecided => pc[t] \in Undecided, status'[t] = status[t]
      PROVE  StatusMoves(t)
  BY <1>b DEF StatusMoves
<1>1. ASSUME NEW s \in Sagas, LookUpProducts(s)
      PROVE  StatusMoves(t)
  BY <1>1, <1>b DEF LookUpProducts, FailReserve, GoTo, TypeInv, TypeOK, Undecided
<1>2. ASSUME NEW s \in Sagas, PublishCommand(s)
      PROVE  StatusMoves(t)
  BY <1>2, <1>b DEF PublishCommand, FailReserve, GoTo, TypeInv, TypeOK, Undecided
<1>3. ASSUME NEW s \in Sagas, RegisterWaiter(s)
      PROVE  StatusMoves(t)
  BY <1>3, <1>b DEF RegisterWaiter, FailReserve, GoTo, TypeInv, TypeOK, Undecided
<1>4. ASSUME NEW s \in Sagas, TakeReply(s)
      PROVE  StatusMoves(t)
  BY <1>4, <1>b DEF TakeReply, FailReserve, GoTo, TypeInv, TypeOK, Undecided
<1>5. ASSUME NEW s \in Sagas, Timeout(s)
      PROVE  StatusMoves(t)
  BY <1>5, <1>b DEF Timeout, FailReserve, GoTo, TypeInv, TypeOK, Undecided
<1>6. ASSUME NEW s \in Sagas, PersistOrder(s)
      PROVE  StatusMoves(t)
  <2>1. CASE s = t
    <3>1. pc'[t] \notin Undecided
      BY <1>6, <2>1 DEF PersistOrder, GoTo, TypeInv, TypeOK, Undecided
    <3> QED
      BY <1>6, <2>1, <3>1 DEF PersistOrder, TypeInv, TypeOK, StatusMoves
  <2>2. CASE s # t
    BY <1>6, <1>a, <2>2 DEF PersistOrder, GoTo, TypeInv, TypeOK
  <2> QED
    BY <2>1, <2>2
<1>7. ASSUME NEW s \in Sagas, CompensateNext(s)
      PROVE  StatusMoves(t)
  BY <1>7, <1>b DEF CompensateNext, FailReserve, GoTo, TypeInv, TypeOK, Undecided
<1>8. ASSUME NEW s \in Sagas, Disconnect(s)
      PROVE  StatusMoves(t)
  BY <1>8, <1>b DEF Disconnect, FailReserve, GoTo, TypeInv, TypeOK, Undecided
<1>9. ASSUME NEW s \in Sagas, Pay(s)
      PROVE  StatusMoves(t)
  <2>1. CASE s = t
    <3>1. status[t] = "PENDING" /\ refund[t] = 0 /\ status'[t] = "PAID" /\ pc'[t] = pc[t]
      BY <1>9, <2>1 DEF Pay, RowUnlocked, TypeInv, TypeOK
    <3> QED
      BY <3>1 DEF StatusMoves, StatusWaits
  <2>2. CASE s # t
    BY <1>9, <1>a, <2>2 DEF Pay, TypeInv, TypeOK
  <2> QED
    BY <2>1, <2>2
<1>10. ASSUME NEW s \in Sagas, BeginCancel(s)
       PROVE  StatusMoves(t)
  BY <1>10, <1>a DEF BeginCancel, orderVars
<1>11. ASSUME NEW s \in Sagas, RefundItem(s)
       PROVE  StatusMoves(t)
  BY <1>11, <1>a DEF RefundItem, orderVars
<1>12. ASSUME NEW s \in Sagas, EndCancel(s)
       PROVE  StatusMoves(t)
  <2>1. CASE s = t /\ status'[t] # status[t]
    <3>1. refund[t] = Len(Items[t]) + 1 /\ status'[t] = "CANCELED" /\ pc'[t] = pc[t]
      BY <1>12, <2>1 DEF EndCancel, TypeInv, TypeOK
    <3>2. status[t] = "PENDING"
      BY <3>1, LineTypes DEF CancelProgress
    <3> QED
      BY <3>1, <3>2 DEF StatusMoves, StatusWaits
  <2>2. CASE status'[t] = status[t]
    BY <1>12, <1>a, <2>2 DEF EndCancel
  <2> QED
    BY <1>12, <2>1, <2>2 DEF EndCancel, TypeInv, TypeOK
<1>13. ASSUME NEW s \in Sagas, NEW p \in Products, SweepStale(s, p)
       PROVE  StatusMoves(t)
  BY <1>13, <1>a DEF SweepStale, orderVars
<1>14. ASSUME NEW p \in Products, DeleteProduct(p)
       PROVE  StatusMoves(t)
  BY <1>14, <1>a DEF DeleteProduct, orderVars
<1>15. ASSUME NEW p \in Products, NEW n \in PutStocks, PutStock(p, n)
       PROVE  StatusMoves(t)
  BY <1>15, <1>a DEF PutStock, orderVars
<1>16. CASE Dispatch
  BY <1>16, <1>a DEF Dispatch, orderVars
<1>17. CASE HandleCommand
  BY <1>17, <1>a DEF HandleCommand, orderVars
<1>18. CASE PublishReply
  BY <1>18, <1>a DEF PublishReply, orderVars
<1>19. CASE CommitOffset
  BY <1>19, <1>a DEF CommitOffset, orderVars
<1>20. CASE OrderServiceCrash
  BY <1>20, <1>b DEF OrderServiceCrash, Undecided
<1>21. CASE StockServiceCrash
  BY <1>21, <1>a DEF StockServiceCrash, orderVars
<1>22. CASE UNCHANGED vars
  BY <1>22, <1>a DEF vars, orderVars
<1> QED
  BY <1>1, <1>2, <1>3, <1>4, <1>5, <1>6, <1>7, <1>8, <1>9, <1>10, <1>11,
     <1>12, <1>13, <1>14, <1>15, <1>16, <1>17, <1>18, <1>19, <1>20, <1>21,
     <1>22 DEF Next, CreateStep, CancelStep

(* How an open Cancel goes on.                                             *)
RefundMoves(s) ==
  \/ refund'[s] = 0
  \/ refund'[s] = refund[s] /\ status'[s] = status[s]
  \/ refund'[s] = 1 /\ status[s] = "PENDING" /\ status'[s] = "PENDING"
  \/ /\ refund[s] \in DOMAIN Items[s] /\ Release(s, Items[s][refund[s]].product)
     /\ refund'[s] = refund[s] + 1 /\ status'[s] = status[s]

(* An open Cancel only goes on by a Release, and its row lock keeps every  *)
(* other change of the status out.                                         *)
LEMMA RefundMove ==
  ASSUME TypeInv, [Next]_vars, NEW t \in Sagas, StatusWaits(t), CancelProgress(t)
  PROVE  RefundMoves(t)
<1>a. ASSUME refund'[t] = refund[t], status'[t] = status[t]
      PROVE  RefundMoves(t)
  BY <1>a DEF RefundMoves
<1>b. ASSUME refund'[t] = 0
      PROVE  RefundMoves(t)
  BY <1>b DEF RefundMoves
<1>1. ASSUME NEW s \in Sagas, LookUpProducts(s)
      PROVE  RefundMoves(t)
  BY <1>1, <1>a DEF LookUpProducts, FailReserve, orderVars
<1>2. ASSUME NEW s \in Sagas, PublishCommand(s)
      PROVE  RefundMoves(t)
  BY <1>2, <1>a DEF PublishCommand, FailReserve, orderVars
<1>3. ASSUME NEW s \in Sagas, RegisterWaiter(s)
      PROVE  RefundMoves(t)
  BY <1>3, <1>a DEF RegisterWaiter, FailReserve, orderVars
<1>4. ASSUME NEW s \in Sagas, TakeReply(s)
      PROVE  RefundMoves(t)
  BY <1>4, <1>a DEF TakeReply, FailReserve, orderVars
<1>5. ASSUME NEW s \in Sagas, Timeout(s)
      PROVE  RefundMoves(t)
  BY <1>5, <1>a DEF Timeout, FailReserve, orderVars
<1>6. ASSUME NEW s \in Sagas, PersistOrder(s)
      PROVE  RefundMoves(t)
  <2>1. CASE s = t
    <3>1. refund[t] = 0
      BY <1>6, <2>1 DEF PersistOrder, StatusWaits, Undecided, CancelProgress
    <3> QED
      BY <1>6, <1>b, <3>1 DEF PersistOrder
  <2>2. CASE s # t
    BY <1>6, <1>a, <2>2 DEF PersistOrder, TypeInv, TypeOK
  <2> QED
    BY <2>1, <2>2
<1>7. ASSUME NEW s \in Sagas, CompensateNext(s)
      PROVE  RefundMoves(t)
  BY <1>7, <1>a DEF CompensateNext, FailReserve, orderVars
<1>8. ASSUME NEW s \in Sagas, Disconnect(s)
      PROVE  RefundMoves(t)
  BY <1>8, <1>a DEF Disconnect, FailReserve, orderVars
<1>9. ASSUME NEW s \in Sagas, Pay(s)
      PROVE  RefundMoves(t)
  BY <1>9, <1>a, <1>b DEF Pay, RowUnlocked, TypeInv, TypeOK
<1>10. ASSUME NEW s \in Sagas, BeginCancel(s)
       PROVE  RefundMoves(t)
  BY <1>10, <1>a DEF BeginCancel, RefundMoves, TypeInv, TypeOK
<1>11. ASSUME NEW s \in Sagas, RefundItem(s)
       PROVE  RefundMoves(t)
  <2>1. CASE s = t
    BY <1>11, <2>1 DEF RefundItem, AfterFailedRefund, RefundMoves, TypeInv
  <2>2. CASE s # t
    BY <1>11, <1>a, <2>2 DEF RefundItem, TypeInv
  <2> QED
    BY <2>1, <2>2
<1>12. ASSUME NEW s \in Sagas, EndCancel(s)
       PROVE  RefundMoves(t)
  BY <1>12, <1>a, <1>b DEF EndCancel, TypeInv, TypeOK
<1>13. ASSUME NEW s \in Sagas, NEW p \in Products, SweepStale(s, p)
       PROVE  RefundMoves(t)
  BY <1>13, <1>a DEF SweepStale, FailReserve, orderVars
<1>14. ASSUME NEW p \in Products, DeleteProduct(p)
       PROVE  RefundMoves(t)
  BY <1>14, <1>a DEF DeleteProduct, FailReserve, orderVars
<1>15. ASSUME NEW p \in Products, NEW n \in PutStocks, PutStock(p, n)
       PROVE  RefundMoves(t)
  BY <1>15, <1>a DEF PutStock, FailReserve, orderVars
<1>16. CASE Dispatch
  BY <1>16, <1>a DEF Dispatch, FailReserve, orderVars
<1>17. CASE HandleCommand
  BY <1>17, <1>a DEF HandleCommand, FailReserve, orderVars
<1>18. CASE PublishReply
  BY <1>18, <1>a DEF PublishReply, FailReserve, orderVars
<1>19. CASE CommitOffset
  BY <1>19, <1>a DEF CommitOffset, FailReserve, orderVars
<1>20. CASE OrderServiceCrash
  BY <1>20, <1>b DEF OrderServiceCrash
<1>21. CASE StockServiceCrash
  BY <1>21, <1>a DEF StockServiceCrash, FailReserve, orderVars
<1>22. CASE UNCHANGED vars
  BY <1>22, <1>a DEF vars, orderVars
<1> QED
  BY <1>1, <1>2, <1>3, <1>4, <1>5, <1>6, <1>7, <1>8, <1>9, <1>10, <1>11,
     <1>12, <1>13, <1>14, <1>15, <1>16, <1>17, <1>18, <1>19, <1>20, <1>21,
     <1>22 DEF Next, CreateStep, CancelStep

(* An order that is there has a row for each of its items.                 *)
LEMMA OrderedRows ==
  ASSUME NEW s \in Sagas, StatusWaits(s), SecuredRows(s), status[s] # "NONE",
         NEW i \in 1..Len(Items[s])
  PROVE  reservation[Items[s][i].product][s] # NoRow
<1>1. Secured(s) = DOMAIN ProductOrder(s)
  BY DEF StatusWaits, Secured, Undecided
<1>2. Items[s][i].product \in ToSet(ProductOrder(s))
  BY ProductOrderLists
<1>3. PICK j \in 1..Len(ProductOrder(s)) : ProductOrder(s)[j] = Items[s][i].product
  BY <1>2, ProductOrderLists, ElementsOf
<1>4. j \in Secured(s)
  BY <1>1, ProductOrderLists
<1> QED
  BY <1>3, <1>4 DEF SecuredRows

(* What has been refunded stays refunded.                                  *)
LEMMA RefundedStays ==
  ASSUME TypeInv, [Next]_vars, NEW s \in Sagas, NEW n \in Int, n <= Len(Items[s]),
         Refunded(s, n)
  PROVE  Refunded(s, n)'
<1> SUFFICES ASSUME NEW i \in 1..n
             PROVE  reservation'[Items[s][i].product][s].status = "RELEASED"
  BY DEF Refunded
<1>1. Items[s][i].product \in Products
  BY LineTypes
<1>2. reservation[Items[s][i].product][s].status = "RELEASED"
  BY DEF Refunded
<1>3. reservation[Items[s][i].product][s] # NoRow
  BY <1>2 DEF NoRow
<1> QED
  BY <1>1, <1>2, <1>3, RowsStay

(* RefundItem goes on only over a row that is RELEASED by then, and Cancel *)
(* commits only after the last item.                                       *)
LEMMA CancelStepKeeps ==
  ASSUME TypeInv, [Next]_vars, NEW s \in Sagas,
         SecuredRows(s), StatusWaits(s), CancelProgress(s)
  PROVE  CancelProgress(s)'
<1>0. Len(Items[s]) \in Nat /\ refund[s] \in 0..(Len(Items[s]) + 1)
  BY LineTypes DEF TypeInv, TypeOK
<1>1. status'[s] = "CANCELED" => Refunded(s, Len(Items[s]))'
  <2>1. CASE status[s] = "CANCELED"
    BY <1>0, <2>1, RefundedStays DEF CancelProgress
  <2>2. CASE refund[s] = Len(Items[s]) + 1
    <3>1. Refunded(s, refund[s] - 1) /\ refund[s] - 1 = Len(Items[s])
      BY <1>0, <2>2 DEF CancelProgress
    <3> QED
      BY <1>0, <3>1, RefundedStays
  <2> QED
    BY <2>1, <2>2, StatusMove DEF StatusMoves
<1>2. ASSUME NEW n \in Nat, refund'[s] = n, n # 0
      PROVE  status'[s] = "PENDING" /\ Refunded(s, n - 1)'
  <2>1. CASE refund'[s] = refund[s] /\ status'[s] = status[s]
    <3>1. refund[s] = n /\ status[s] = "PENDING" /\ Refunded(s, n - 1)
      BY <1>2, <2>1 DEF CancelProgress
    <3>2. n - 1 \in Int /\ n - 1 <= Len(Items[s])
      BY <1>0, <3>1
    <3> QED
      BY <2>1, <3>1, <3>2, RefundedStays
  <2>2. CASE refund'[s] = 1 /\ status'[s] = "PENDING"
    BY <1>2, <2>2 DEF Refunded
  <2>3. CASE /\ refund[s] \in DOMAIN Items[s] /\ Release(s, Items[s][refund[s]].product)
             /\ refund'[s] = refund[s] + 1 /\ status'[s] = status[s]
    <3>0. PICK k \in Nat : k = refund[s]
      BY <1>0
    <3> DEFINE p == Items[s][k].product
    <3>1. k \in 1..Len(Items[s]) /\ n = k + 1 /\ p \in Products
      BY <1>0, <1>2, <2>3, <3>0, LineTypes
    <3>2. status[s] = "PENDING" /\ Refunded(s, k - 1)
      BY <3>0, <3>1 DEF CancelProgress
    <3>3. reservation[p][s] # NoRow
      BY <3>1, <3>2, OrderedRows
    <3>4. reservation'[p][s].status = "RELEASED"
      <4>1. reservation[p][s] \in ReservationRows
        BY <3>1, <3>3, RowTypes DEF TypeInv, TypeOK
      <4>2. CASE ReleaseUnits(s, p)
        BY <3>1, <4>1, <4>2 DEF ReleaseUnits, ReleasedRow, ReservationRows, TypeInv, TypeOK, LedgerTypeOK
      <4>3. CASE reservation[p][s].status # "RESERVED" /\ UNCHANGED ledgerVars
        BY <4>1, <4>3 DEF ReservationRows, ledgerVars
      <4> QED
        BY <2>3, <3>0, <4>2, <4>3 DEF Release
    <3>5. Refunded(s, k - 1)'
      BY <1>0, <3>1, <3>2, RefundedStays
    <3>6. ASSUME NEW i \in 1..(n - 1)
          PROVE  reservation'[Items[s][i].product][s].status = "RELEASED"
      <4>1. i = k \/ i \in 1..(k - 1)
        BY <3>1
      <4> QED
        BY <3>4, <3>5, <4>1 DEF Refunded
    <3>7. status'[s] = "PENDING"
      BY <2>3, <3>2
    <3> QED
      BY <3>6, <3>7 DEF Refunded
  <2> QED
    BY <1>2, <2>1, <2>2, <2>3, RefundMove DEF RefundMoves
<1>3. refund'[s] \in Nat
  BY TypeStep DEF TypeInv
<1>4. refund'[s] # 0 => status'[s] = "PENDING" /\ Refunded(s, refund[s] - 1)'
  BY <1>2, <1>3
<1> QED
  BY <1>1, <1>4 DEF CancelProgress

(* Every step of either service keeps the invariant.                       *)
LEMMA SagaInvStep == SagaInv /\ [Next]_vars => SagaInv'
<1> SUFFICES ASSUME SagaInv, [Next]_vars
             PROVE  SagaInv'
  OBVIOUS
<1>0. TypeInv /\ RowsMatch /\ CommandsMatch /\ RepliesEarned
  BY DEF SagaInv
<1>1. TypeInv'
  BY <1>0, TypeStep
<1>2. RowsMatch' /\ CommandsMatch' /\ RepliesEarned'
  BY <1>0, RowsMatchStep, CommandsMatchStep, RepliesEarnedStep
<1>3. ASSUME NEW s \in Sagas
      PROVE  MailboxEarned(s)' /\ SecuredRows(s)' /\ StatusWaits(s)' /\ CancelProgress(s)'
  <2>1. MailboxEarned(s) /\ SecuredRows(s) /\ StatusWaits(s) /\ CancelProgress(s)
    BY DEF SagaInv
  <2>2. StatusWaits(s)'
    BY <1>0, <2>1, StatusMove DEF StatusMoves, StatusWaits
  <2> QED
    BY <1>0, <2>1, <2>2, MailboxStep, SecuredStep, CancelStepKeeps
<1> QED
  BY <1>1, <1>2, <1>3 DEF SagaInv

(* So it always holds.                                                     *)
LEMMA SagaInvariant == Spec => []SagaInv
BY SagaInvInit, SagaInvStep, PTL DEF Spec

-----------------------------------------------------------------------------
(* What follows for every request and every set of faults.                *)

(* Create, Cancel, the consumer and the reconciliation together change     *)
(* stock_db only by the four atomic steps of the ledger.                   *)
THEOREM SagaImplementsLedger == Spec => LedgerSpec
<1>1. Init => LedgerInit
  BY DEF Init
<1>2. TypeInv /\ [Next]_vars => [LedgerNext]_ledgerVars
  BY LedgerMoves
<1> QED
  BY <1>1, <1>2, SagaTypeInv, PTL DEF Spec, LedgerSpec

(* However commands are repeated, Creates compensated, orders cancelled    *)
(* and stale rows reconciled: units move between shelf and reservations,   *)
(* and only PUT and DELETE of a product change how many there are.         *)
THEOREM SagaConservesUnits ==
  Spec => [][\A p \in Products : ConservedBut(p)]_ledgerVars
BY SagaImplementsLedger, LedgerConservesUnits, PTL

(* A row is settled once: a command redelivered after the compensation or  *)
(* the reconciliation takes no units again.                                *)
THEOREM SagaRowsStayFinal == Spec => RowsAreFinal
BY SagaImplementsLedger, LedgerRowsAreFinal, PTL

(* Whatever is lost, repeated or late: an order is only committed over     *)
(* rows that hold exactly what its items ask for.                          *)
THEOREM OrdersHadReservations == Spec => []OrderHadReservations
<1>1. SagaInv => OrderHadReservations
  <2> SUFFICES ASSUME SagaInv, NEW s \in Sagas, status[s] # "NONE",
                      NEW i \in DOMAIN Items[s]
               PROVE  reservation[Items[s][i].product][s].quantity
                        = OrderedUnits(s, Items[s][i].product)
    BY DEF OrderHadReservations
  <2> DEFINE p == Items[s][i].product
  <2>1. i \in 1..Len(Items[s]) /\ p \in Products
    BY LineTypes
  <2>2. reservation[p][s] # NoRow
    BY <2>1, OrderedRows DEF SagaInv
  <2>3. reservation[p][s].quantity = MergedQuantity(s, p)
    BY <2>1, <2>2 DEF SagaInv, RowsMatch
  <2> QED
    BY <2>3, MergedIsOrdered
<1> QED
  BY <1>1, SagaInvariant, PTL

(* The products of an order keep their row in stock_db.                    *)
THEOREM OrderedProductsStay == Spec => []OrderedProductsExist
<1>1. SagaInv /\ ReservationPinsProduct => OrderedProductsExist
  <2> SUFFICES ASSUME SagaInv, ReservationPinsProduct, NEW s \in Sagas,
                      status[s] # "NONE", NEW i \in DOMAIN Items[s]
               PROVE  Items[s][i].product \in present
    BY DEF OrderedProductsExist
  <2>1. i \in 1..Len(Items[s]) /\ Items[s][i].product \in Products
    BY LineTypes
  <2>2. reservation[Items[s][i].product][s] # NoRow
    BY <2>1, OrderedRows DEF SagaInv
  <2> QED
    BY <2>1, <2>2 DEF ReservationPinsProduct
<1> QED
  BY <1>1, SagaInvariant, SagaImplementsLedger, LedgerPinsProducts, PTL

(* An order is CANCELED only when all its units are back on the shelf,     *)
(* with Cancels failing half way, repeated, and racing the reconciliation. *)
THEOREM CanceledIsRefunded == Spec => []CanceledFullyRefunded
<1>1. SagaInv => CanceledFullyRefunded
  BY LineTypes DEF SagaInv, CancelProgress, Refunded, CanceledFullyRefunded
<1> QED
  BY <1>1, SagaInvariant, PTL

(* PAID and CANCELED are final.                                            *)
THEOREM StatusSettles == Spec => StatusIsFinal
<1>1. SagaInv /\ [Next]_vars =>
        [\A s \in Sagas :
           status[s] \in {"PAID", "CANCELED"} => status'[s] = status[s]]_vars
  <2> SUFFICES ASSUME SagaInv, [Next]_vars, NEW s \in Sagas,
                      status[s] \in {"PAID", "CANCELED"}
               PROVE  status'[s] = status[s]
    OBVIOUS
  <2>1. StatusMoves(s)
    BY StatusMove DEF SagaInv
  <2>2. refund[s] = 0 /\ pc[s] # "persist"
    BY DEF SagaInv, CancelProgress, StatusWaits, Undecided
  <2>3. refund[s] # Len(Items[s]) + 1
    BY <2>2, LineTypes
  <2> QED
    BY <2>1, <2>2, <2>3 DEF StatusMoves
<1> QED
  BY <1>1, SagaInvariant, PTL DEF Spec, StatusIsFinal

-----------------------------------------------------------------------------
(* The commit of an order, while reservations outlive a Create.            *)

(* As long as Create is undecided nobody gives units of its saga back.     *)
Untouched ==
  \A s \in Sagas : pc[s] \in Undecided =>
    \A p \in Products : reservation[p][s].status # "RELEASED"

(* Of those who give back units, the compensation runs after the decision, *)
(* Cancel needs an order, and the reconciliation comes too late.           *)
LEMMA UntouchedStep ==
  ASSUME "slowCreate" \notin Faults, SagaInv, Untouched, [Next]_vars
  PROVE  Untouched'
<1> SUFFICES ASSUME NEW s \in Sagas, pc'[s] \in Undecided, NEW p \in Products
             PROVE  reservation'[p][s].status # "RELEASED"
  BY DEF Untouched
<1>0. TypeInv /\ RowsMatch /\ StatusWaits(s) /\ CancelProgress(s)
  BY DEF SagaInv
<1>1. pc[s] \in Undecided
  BY <1>0, StatusMove DEF StatusMoves
<1>2. CASE reservation'[p][s] = reservation[p][s]
  BY <1>1, <1>2 DEF Untouched
<1>3. CASE Reserves(s, p)
  BY <1>3 DEF Reserves, ReservedRow
<1>4. CASE reservation[p][s].status = "RESERVED" /\ MayRelease(s)
  <2>1. pc[s] # "new"
    BY <1>0, <1>4 DEF RowsMatch, Named, NoRow
  <2>2. pc[s] # "compensate" /\ refund[s] = 0
    BY <1>0, <1>1 DEF Undecided, StatusWaits, CancelProgress
  <2>3. ~ Stale(s)
    BY <1>1, <2>1 DEF Stale, InCreate, May, Undecided
  <2> QED
    BY <1>4, <2>2, <2>3 DEF MayRelease
<1> QED
  BY <1>0, <1>2, <1>3, <1>4, RowsMove DEF RowMoves

(* Unless a Create takes longer than STOCK_RESERVATION_STALE_AFTER, its    *)
(* units are still held back in the moment its order is committed.         *)
THEOREM CommitHolds ==
  ASSUME "slowCreate" \notin Faults
  PROVE  Spec => CommitHoldsUnits
<1>1. Init => Untouched
  BY DEF Init, LedgerInit, NoRow, Untouched
<1>2. SagaInv /\ Untouched /\ [Next]_vars => Untouched'
  BY UntouchedStep
<1>3. SagaInv /\ Untouched /\ [Next]_vars =>
        [\A s \in Sagas : status[s] = "NONE" /\ status'[s] # "NONE" =>
           \A i \in DOMAIN Items[s] :
             reservation[Items[s][i].product][s].status = "RESERVED"]_vars
  <2> SUFFICES ASSUME SagaInv, Untouched, [Next]_vars, NEW s \in Sagas,
                      status[s] = "NONE", status'[s] # "NONE",
                      NEW i \in DOMAIN Items[s]
               PROVE  reservation[Items[s][i].product][s].status = "RESERVED"
    OBVIOUS
  <2> DEFINE p == Items[s][i].product
  <2>0. TypeInv /\ SecuredRows(s) /\ StatusWaits(s) /\ CancelProgress(s)
    BY DEF SagaInv
  <2>1. i \in 1..Len(Items[s]) /\ p \in Products
    BY LineTypes
  <2>2. pc[s] = "persist"
    <3>1. refund[s] # Len(Items[s]) + 1
      BY <2>0, LineTypes DEF CancelProgress
    <3> QED
      BY <2>0, <3>1, StatusMove DEF StatusMoves
  <2>3. reservation[p][s] # NoRow
    <3>1. p \in ToSet(ProductOrder(s))
      BY <2>1, ProductOrderLists
    <3>2. PICK j \in 1..Len(ProductOrder(s)) : ProductOrder(s)[j] = p
      BY <3>1, ProductOrderLists, ElementsOf
    <3>3. j \in Secured(s)
      BY <2>2, ProductOrderLists DEF Secured
    <3> QED
      BY <2>0, <3>2, <3>3 DEF SecuredRows
  <2>4. reservation[p][s] \in ReservationRows
    BY <2>0, <2>1, <2>3, RowTypes DEF TypeInv, TypeOK
  <2>5. reservation[p][s].status # "RELEASED"
    BY <2>1, <2>2 DEF Untouched, Undecided
  <2> QED
    BY <2>4, <2>5 DEF ReservationRows
<1> QED
  BY <1>1, <1>2, <1>3, SagaInvariant, PTL DEF Spec, CommitHoldsUnits

-----------------------------------------------------------------------------
(* Create fails while nothing is lost and nobody dies.                     *)

(* Databases may fail, but no message is lost, nobody dies or gives up.    *)
QuietFaults ==
  Faults \subseteq {"databaseError", "lostCommitAck", "refundError", "slowCreate"}

(* All that the sagas may ever want of p.                                  *)
Demand(p) ==
  {u \in Sagas \X (1..MaxInt4) : u[2] <= MergedQuantity(u[1], p)}

(* No PUT fills a shelf so far that reserved units could not come back.    *)
AmpleShelves ==
  \A p \in Products : \A n \in PutStocks : n + Cardinality(Demand(p)) <= MaxInt4

NoOverflow == \A p \in Products : Supply(p) <= MaxInt4

(* Rows hold no more than the requests ask for, so neither do they         *)
(* together.                                                               *)
LEMMA DemandBounds ==
  ASSUME TypeInv, RowsMatch, NEW p \in Products
  PROVE  /\ Cardinality(ReservedUnits(p)) \in Nat
         /\ Cardinality(Demand(p)) \in Nat
         /\ Cardinality(ReservedUnits(p)) <= Cardinality(Demand(p))
<1>1. IsFiniteSet(Sagas \X (1..MaxInt4))
  <2>1. IsFiniteSet(1..MaxInt4)
    BY LedgerAssumption, FS_Interval
  <2> QED
    BY <2>1, LedgerAssumption, FS_Product
<1>2. IsFiniteSet(Demand(p))
  <2>1. Demand(p) \subseteq Sagas \X (1..MaxInt4)
    BY DEF Demand
  <2> QED
    BY <1>1, <2>1, FS_Subset
<1>3. ReservedUnits(p) \subseteq Demand(p)
  <2> SUFFICES ASSUME NEW u \in ReservedUnits(p)
               PROVE  u \in Demand(p)
    OBVIOUS
  <2>1. /\ u \in Sagas \X (1..MaxInt4) /\ u[1] \in Sagas
        /\ reservation[p][u[1]].status = "RESERVED"
        /\ u[2] <= reservation[p][u[1]].quantity
    BY DEF ReservedUnits
  <2>2. reservation[p][u[1]] # NoRow
    BY <2>1 DEF NoRow
  <2>3. reservation[p][u[1]].quantity = MergedQuantity(u[1], p)
    BY <2>1, <2>2 DEF RowsMatch
  <2> QED
    BY <2>1, <2>3 DEF Demand
<1> QED
  BY <1>2, <1>3, FS_Subset, FS_CardinalityType

(* Reserve and Release conserve the supply; PUT sets it within the room.   *)
LEMMA NoOverflowStep ==
  ASSUME AmpleShelves, TypeInv, RowsMatch, NoOverflow, [Next]_vars
  PROVE  NoOverflow'
<1> SUFFICES ASSUME NEW r \in Products
             PROVE  Supply(r)' <= MaxInt4
  BY DEF NoOverflow
<1>0. LedgerTypeOK /\ Supply(r) <= MaxInt4 /\ MaxInt4 \in Nat
  BY LedgerAssumption DEF TypeInv, TypeOK, NoOverflow
<1>1. CASE UNCHANGED ledgerVars
  BY <1>0, <1>1 DEF Supply, ReservedUnits, ledgerVars
<1>2. ASSUME NEW p \in Products, NEW s \in Sagas, NEW q \in 1..MaxInt4,
             ReserveUnits(s, p, q)
      PROVE  Supply(r)' <= MaxInt4
  BY <1>0, <1>2, ReserveConserves
<1>3. ASSUME NEW p \in Products, NEW s \in Sagas, ReleaseUnits(s, p)
      PROVE  Supply(r)' <= MaxInt4
  BY <1>0, <1>3, ReleaseConserves
<1>4. ASSUME NEW p \in Products, NEW n \in PutStocks, SetStock(p, n)
      PROVE  Supply(r)' <= MaxInt4
  <2>1. ReservedUnits(r)' = ReservedUnits(r)
    BY <1>4 DEF SetStock, ReservedUnits
  <2>2. stock'[r] = IF r = p THEN n ELSE stock[r]
    BY <1>0, <1>4 DEF SetStock, LedgerTypeOK
  <2>3. n + Cardinality(Demand(p)) <= MaxInt4 /\ n \in Nat
    BY SagaAssumption DEF AmpleShelves
  <2> QED
    BY <1>0, <2>1, <2>2, <2>3, DemandBounds DEF Supply
<1>5. ASSUME NEW p \in Products, RemoveProduct(p)
      PROVE  Supply(r)' <= MaxInt4
  <2>1. ReservedUnits(r)' = ReservedUnits(r)
    BY <1>5 DEF RemoveProduct, ReservedUnits
  <2>2. stock'[r] = (IF r = p THEN 0 ELSE stock[r]) /\ stock[r] \in Nat
    BY <1>0, <1>5 DEF RemoveProduct, LedgerTypeOK
  <2> QED
    BY <1>0, <2>1, <2>2, DemandBounds DEF Supply
<1> QED
  BY <1>1, <1>2, <1>3, <1>4, <1>5, LedgerSteps DEF LedgerStep

(* So a Release never fails for lack of room in the column.                *)
LEMMA RoomForRelease ==
  ASSUME LedgerTypeOK, NoOverflow, NEW p \in Products, NEW s \in Sagas,
         reservation[p][s].status = "RESERVED"
  PROVE  stock[p] + reservation[p][s].quantity <= MaxInt4
<1> DEFINE q == reservation[p][s].quantity
<1>1. q \in 1..MaxInt4 /\ q \in Nat
  BY RowTypes
<1>2. {s} \X (1..q) \subseteq ReservedUnits(p)
  <2> SUFFICES ASSUME NEW u \in {s} \X (1..q)
               PROVE  u \in ReservedUnits(p)
    OBVIOUS
  <2>1. u[1] = s /\ u[2] \in 1..q /\ u = <<u[1], u[2]>>
    OBVIOUS
  <2>2. u[2] \in 1..MaxInt4 /\ u[2] <= q
    <3> HIDE DEF q
    <3> QED
      BY <1>1, <2>1, LedgerAssumption
  <2>3. u \in Sagas \X (1..MaxInt4)
    BY <2>1, <2>2
  <2> QED
    BY <2>1, <2>2, <2>3 DEF ReservedUnits
<1>3. Cardinality({s} \X (1..q)) = q
  <2> HIDE DEF q
  <2> QED
    BY <1>1, UnitsOfOneSaga
<1>4. q <= Cardinality(ReservedUnits(p)) /\ Cardinality(ReservedUnits(p)) \in Nat
  BY <1>2, <1>3, UnitsAreFinite, FS_Subset
<1>5. stock[p] \in Int
  BY DEF LedgerTypeOK
<1> HIDE DEF q
<1> QED
  BY <1>1, <1>4, <1>5, LedgerAssumption DEF NoOverflow, Supply, q

(* At most one message of a saga is under way, and only while its call is  *)
(* open and unanswered.                                                    *)
Calling(s) == pc[s] \in {"register", "wait"} /\ mailbox[s] = NoReply

Asks(s, i) == i \in 1..Len(commands) /\ handled < i /\ commands[i].saga = s
Answers(s, k) == k \in 1..Len(events) /\ events[k].saga = s

OneCall(s) ==
  /\ \A i \in Nat : Asks(s, i) =>
       /\ Calling(s)
       /\ \A j \in Nat : Asks(s, j) => j = i
       /\ \A k \in Nat : ~ Answers(s, k)
  /\ \A k \in Nat : Answers(s, k) =>
       Calling(s) /\ \A l \in Nat : Answers(s, l) => l = k

(* The reply about to be published answers the command just handled.       *)
Answering == outgoing # NoReply => outgoing.saga = commands[handled + 1].saga

(* The offset that the group commits never passes the command in work.     *)
LEMMA AnsweringStep ==
  ASSUME TypeInv, Answering, [Next]_vars
  PROVE  Answering'
<1>0. /\ commands \in Seq(Commands) /\ Len(commands) \in Nat /\ handled \in 0..Len(commands)
      /\ outgoing # NoReply => handled < Len(commands)
  BY DEF TypeInv, TypeOK
<1>a. ASSUME UNCHANGED <<commands, handled, outgoing>>
      PROVE  Answering'
  BY <1>a DEF Answering
<1>1. ASSUME NEW s \in Sagas, LookUpProducts(s)
      PROVE  Answering'
  BY <1>1, <1>a DEF LookUpProducts, queueVars
<1>2. ASSUME NEW s \in Sagas, PublishCommand(s)
      PROVE  Answering'
  <2>1. CommandOf(s) \in Commands
    BY CurrentTypes DEF CommandOf, Current, Commands
  <2>2. commands' = commands \/ commands' = Append(commands, CommandOf(s))
    BY <1>2 DEF PublishCommand, CommandOf
  <2>3. handled < Len(commands) => commands'[handled + 1] = commands[handled + 1]
    BY <1>0, <2>1, <2>2
  <2> QED
    BY <1>2, <1>0, <2>3 DEF PublishCommand, Answering
<1>3. ASSUME NEW s \in Sagas, RegisterWaiter(s)
      PROVE  Answering'
  BY <1>3, <1>a DEF RegisterWaiter, queueVars
<1>4. ASSUME NEW s \in Sagas, TakeReply(s)
      PROVE  Answering'
  BY <1>4, <1>a DEF TakeReply, queueVars
<1>5. ASSUME NEW s \in Sagas, Timeout(s)
      PROVE  Answering'
  BY <1>5, <1>a DEF Timeout, queueVars
<1>6. ASSUME NEW s \in Sagas, PersistOrder(s)
      PROVE  Answering'
  BY <1>6, <1>a DEF PersistOrder, queueVars
<1>7. ASSUME NEW s \in Sagas, CompensateNext(s)
      PROVE  Answering'
  BY <1>7, <1>a DEF CompensateNext, queueVars
<1>8. ASSUME NEW s \in Sagas, Disconnect(s)
      PROVE  Answering'
  BY <1>8, <1>a DEF Disconnect, queueVars
<1>9. ASSUME NEW s \in Sagas, Pay(s)
      PROVE  Answering'
  BY <1>9, <1>a DEF Pay, queueVars
<1>10. ASSUME NEW s \in Sagas, BeginCancel(s)
       PROVE  Answering'
  BY <1>10, <1>a DEF BeginCancel, queueVars
<1>11. ASSUME NEW s \in Sagas, RefundItem(s)
       PROVE  Answering'
  BY <1>11, <1>a DEF RefundItem, queueVars
<1>12. ASSUME NEW s \in Sagas, EndCancel(s)
       PROVE  Answering'
  BY <1>12, <1>a DEF EndCancel, queueVars
<1>13. ASSUME NEW s \in Sagas, NEW p \in Products, SweepStale(s, p)
       PROVE  Answering'
  BY <1>13, <1>a DEF SweepStale, queueVars
<1>14. ASSUME NEW p \in Products, DeleteProduct(p)
       PROVE  Answering'
  BY <1>14, <1>a DEF DeleteProduct, queueVars
<1>15. ASSUME NEW p \in Products, NEW n \in PutStocks, PutStock(p, n)
       PROVE  Answering'
  BY <1>15, <1>a DEF PutStock, queueVars
<1>16. CASE Dispatch
  BY <1>16, <1>a DEF Dispatch, queueVars
<1>17. CASE HandleCommand
  BY <1>17 DEF HandleCommand, Reply, Answering
<1>18. CASE PublishReply
  BY <1>18 DEF PublishReply, Answering
<1>19. CASE CommitOffset
  <2>1. PICK n \in 1..handled : /\ commands' = SubSeq(commands, n + 1, Len(commands))
                                /\ handled' = handled - n
    BY <1>19 DEF CommitOffset
  <2>2. handled < Len(commands) => commands'[handled' + 1] = commands[handled + 1]
    BY <1>0, <2>1
  <2> QED
    BY <1>19, <1>0, <2>2 DEF CommitOffset, Answering
<1>20. CASE OrderServiceCrash
  BY <1>20, <1>a DEF OrderServiceCrash, queueVars
<1>21. CASE StockServiceCrash
  BY <1>21 DEF StockServiceCrash, Answering
<1>22. CASE UNCHANGED vars
  BY <1>22, <1>a DEF vars, queueVars
<1> QED
  BY <1>1, <1>2, <1>3, <1>4, <1>5, <1>6, <1>7, <1>8, <1>9, <1>10, <1>11,
     <1>12, <1>13, <1>14, <1>15, <1>16, <1>17, <1>18, <1>19, <1>20, <1>21,
     <1>22 DEF Next, CreateStep, CancelStep

(* Messages of a saga follow one another: its command, the reply, its delivery. *)
LEMMA OneCallStep ==
  ASSUME QuietFaults, TypeInv, Answering, [Next]_vars,
         NEW t \in Sagas, OneCall(t), MailboxEarned(t)
  PROVE  OneCall(t)'
<1>0. /\ commands \in Seq(Commands) /\ Len(commands) \in Nat
      /\ handled \in Nat /\ handled <= Len(commands)
      /\ events \in Seq(Replies) /\ Len(events) \in Nat
      /\ outgoing # NoReply => handled < Len(commands)
  BY DEF TypeInv, TypeOK
<1>a. ASSUME UNCHANGED <<commands, handled, events>>, Calling(t) => Calling(t)'
      PROVE  OneCall(t)'
  <2>1. \A k : (Asks(t, k)' <=> Asks(t, k)) /\ (Answers(t, k)' <=> Answers(t, k))
    BY <1>a DEF Asks, Answers
  <2> QED
    BY <1>a, <2>1 DEF OneCall
<1>b. ASSUME UNCHANGED <<commands, handled, events>>, ~ Calling(t)
      PROVE  OneCall(t)'
  BY <1>a, <1>b
<1>1. ASSUME NEW s \in Sagas, LookUpProducts(s)
      PROVE  OneCall(t)'
  <2>1. Calling(t) => Calling(t)'
    BY <1>1 DEF LookUpProducts, GoTo, Calling, TypeInv, TypeOK
  <2> QED
    BY <1>1, <1>a, <2>1 DEF LookUpProducts, queueVars
<1>2. ASSUME NEW s \in Sagas, PublishCommand(s)
      PROVE  OneCall(t)'
  <2> DEFINE c == CommandOf(s)
  <2>1. /\ c \in Commands /\ c.saga = s
        /\ commands' = Append(commands, c) /\ GoTo(s, "register")
        /\ UNCHANGED <<handled, events, mailbox>> /\ pc[s] = "publish"
    BY <1>2, CurrentTypes DEF PublishCommand, CommandOf, Current, Commands, May, QuietFaults
  <2> HIDE DEF c
  <2>2. /\ Len(commands') = Len(commands) + 1 /\ commands'[Len(commands) + 1] = c
        /\ \A i \in 1..Len(commands) : commands'[i] = commands[i]
    BY <1>0, <2>1
  <2>3. \A k : Answers(t, k)' <=> Answers(t, k)
    BY <2>1 DEF Answers
  <2>4. CASE s = t
    <3>1. ~ Calling(t) /\ Calling(t)'
      BY <2>1, <2>4, SagaAssumption DEF Calling, MailboxEarned, GoTo, TypeInv, TypeOK
    <3>2. \A i \in Nat : ~ Asks(t, i) /\ ~ Answers(t, i)
      BY <3>1 DEF OneCall
    <3>3. \A i \in Nat : Asks(t, i)' => i = Len(commands) + 1
      BY <1>0, <2>1, <2>2, <3>2 DEF Asks
    <3> QED
      BY <2>3, <3>1, <3>2, <3>3 DEF OneCall
  <2>5. CASE s # t
    <3>1. \A i \in Nat : Asks(t, i)' <=> Asks(t, i)
      BY <1>0, <2>1, <2>2, <2>5 DEF Asks
    <3>2. Calling(t) => Calling(t)'
      BY <2>1, <2>5 DEF Calling, GoTo, TypeInv, TypeOK
    <3> QED
      BY <2>3, <3>1, <3>2 DEF OneCall
  <2> QED
    BY <2>4, <2>5
<1>3. ASSUME NEW s \in Sagas, RegisterWaiter(s)
      PROVE  OneCall(t)'
  <2>1. Calling(t) => Calling(t)'
    BY <1>3 DEF RegisterWaiter, GoTo, Calling, TypeInv, TypeOK
  <2> QED
    BY <1>3, <1>a, <2>1 DEF RegisterWaiter, queueVars
<1>4. ASSUME NEW s \in Sagas, TakeReply(s)
      PROVE  OneCall(t)'
  <2>1. CASE s = t
    BY <1>4, <1>b, <2>1 DEF TakeReply, Calling, queueVars
  <2>2. CASE s # t
    <3>1. Calling(t) => Calling(t)'
      BY <1>4, <2>2 DEF TakeReply, FailReserve, GoTo, Calling, TypeInv, TypeOK
    <3> QED
      BY <1>4, <1>a, <3>1 DEF TakeReply, queueVars
  <2> QED
    BY <2>1, <2>2
<1>5. ASSUME NEW s \in Sagas, Timeout(s)
      PROVE  OneCall(t)'
  BY <1>5 DEF Timeout, May, QuietFaults
<1>6. ASSUME NEW s \in Sagas, PersistOrder(s)
      PROVE  OneCall(t)'
  <2>1. Calling(t) => Calling(t)'
    BY <1>6 DEF PersistOrder, GoTo, Calling, TypeInv, TypeOK
  <2> QED
    BY <1>6, <1>a, <2>1 DEF PersistOrder, queueVars
<1>7. ASSUME NEW s \in Sagas, CompensateNext(s)
      PROVE  OneCall(t)'
  <2>1. Calling(t) => Calling(t)'
    BY <1>7 DEF CompensateNext, GoTo, Calling, TypeInv, TypeOK
  <2> QED
    BY <1>7, <1>a, <2>1 DEF CompensateNext, queueVars
<1>8. ASSUME NEW s \in Sagas, Disconnect(s)
      PROVE  OneCall(t)'
  BY <1>8 DEF Disconnect, May, QuietFaults
<1>9. ASSUME NEW s \in Sagas, Pay(s)
      PROVE  OneCall(t)'
  BY <1>9, <1>a DEF Pay, GoTo, Calling, orderVars, queueVars
<1>10. ASSUME NEW s \in Sagas, BeginCancel(s)
       PROVE  OneCall(t)'
  BY <1>10, <1>a DEF BeginCancel, GoTo, Calling, orderVars, queueVars
<1>11. ASSUME NEW s \in Sagas, RefundItem(s)
       PROVE  OneCall(t)'
  BY <1>11, <1>a DEF RefundItem, GoTo, Calling, orderVars, queueVars
<1>12. ASSUME NEW s \in Sagas, EndCancel(s)
       PROVE  OneCall(t)'
  BY <1>12, <1>a DEF EndCancel, GoTo, Calling, orderVars, queueVars
<1>13. ASSUME NEW s \in Sagas, NEW p \in Products, SweepStale(s, p)
       PROVE  OneCall(t)'
  BY <1>13, <1>a DEF SweepStale, GoTo, Calling, orderVars, queueVars
<1>14. ASSUME NEW p \in Products, DeleteProduct(p)
       PROVE  OneCall(t)'
  BY <1>14, <1>a DEF DeleteProduct, GoTo, Calling, orderVars, queueVars
<1>15. ASSUME NEW p \in Products, NEW n \in PutStocks, PutStock(p, n)
       PROVE  OneCall(t)'
  BY <1>15, <1>a DEF PutStock, GoTo, Calling, orderVars, queueVars
<1>16. CASE Dispatch
  <2> DEFINE e == Head(events)
  <2>1. /\ e \in Replies /\ e = events[1] /\ Len(events') = Len(events) - 1 /\ Len(events) >= 1
        /\ \A k \in 1..Len(events') : events'[k] = events[k + 1]
        /\ UNCHANGED <<commands, handled, pc>>
    BY <1>16, <1>0 DEF Dispatch
  <2> HIDE DEF e
  <2>2. \A k \in Nat : Answers(t, k)' => Answers(t, k + 1) /\ k # 0
    BY <1>0, <2>1 DEF Answers
  <2>3. \A i : Asks(t, i)' <=> Asks(t, i)
    BY <2>1 DEF Asks
  <2>4. CASE e.saga = t
    <3>1. Answers(t, 1)
      BY <1>0, <2>1, <2>4 DEF Answers
    <3>2. \A i \in Nat : ~ Asks(t, i)
      BY <3>1 DEF OneCall
    <3>3. \A k \in Nat : Answers(t, k) => k = 1
      BY <3>1 DEF OneCall
    <3>4. \A k \in Nat : ~ Answers(t, k)'
      BY <2>2, <3>3
    <3> QED
      BY <2>3, <3>2, <3>4 DEF OneCall
  <2>5. CASE e.saga # t
    <3>1. Calling(t) => Calling(t)'
      BY <1>16, <2>1, <2>5 DEF Dispatch, Calling, TypeInv, TypeOK, e
    <3>2. ASSUME NEW k \in Nat, Answers(t, k)'
          PROVE  Calling(t) /\ \A l \in Nat : Answers(t, l)' => l = k
      <4>1. k + 1 \in Nat /\ Answers(t, k + 1)
        BY <2>2, <3>2
      <4>2. \A l \in Nat : Answers(t, l)' => l + 1 = k + 1
        BY <2>2, <4>1 DEF OneCall
      <4> QED
        BY <4>1, <4>2 DEF OneCall
    <3>3. \A i \in Nat : Asks(t, i) => \A k \in Nat : ~ Answers(t, k)'
      BY <2>2 DEF OneCall
    <3> QED
      BY <2>3, <3>1, <3>2, <3>3 DEF OneCall
  <2> QED
    BY <2>4, <2>5
<1>17. CASE HandleCommand
  BY <1>17, <1>a DEF HandleCommand, Calling, orderVars
<1>18. CASE PublishReply
  <2>1. /\ outgoing \in Replies /\ events' = Append(events, outgoing)
        /\ handled' = handled + 1 /\ UNCHANGED <<commands, pc, mailbox>>
        /\ commands[handled + 1].saga = outgoing.saga /\ handled < Len(commands)
    BY <1>18, <1>0 DEF PublishReply, May, QuietFaults, Answering, TypeInv, TypeOK, orderVars
  <2>2. /\ Len(events') = Len(events) + 1 /\ events'[Len(events) + 1] = outgoing
        /\ \A k \in 1..Len(events) : events'[k] = events[k]
    BY <1>0, <2>1
  <2>3. Calling(t)' <=> Calling(t)
    BY <2>1 DEF Calling
  <2>4. \A i \in Nat : Asks(t, i)' => Asks(t, i) /\ i # handled + 1
    BY <1>0, <2>1 DEF Asks
  <2>5. CASE outgoing.saga = t
    <3>1. handled + 1 \in Nat /\ Asks(t, handled + 1)
      BY <1>0, <2>1, <2>5 DEF Asks
    <3>2. /\ Calling(t) /\ \A k \in Nat : ~ Answers(t, k)
          /\ \A i \in Nat : Asks(t, i) => i = handled + 1
      BY <3>1 DEF OneCall
    <3>3. \A i \in Nat : ~ Asks(t, i)'
      BY <2>4, <3>2
    <3>4. \A k \in Nat : Answers(t, k)' => k = Len(events) + 1
      BY <1>0, <2>2, <3>2 DEF Answers
    <3> QED
      BY <2>3, <3>2, <3>3, <3>4 DEF OneCall
  <2>6. CASE outgoing.saga # t
    <3>1. \A k \in Nat : Answers(t, k)' <=> Answers(t, k)
      BY <1>0, <2>2, <2>6 DEF Answers
    <3> QED
      BY <2>3, <2>4, <3>1 DEF OneCall
  <2> QED
    BY <2>5, <2>6
<1>19. CASE CommitOffset
  <2>1. PICK n \in 1..handled : /\ commands' = SubSeq(commands, n + 1, Len(commands))
                                /\ handled' = handled - n
    BY <1>19 DEF CommitOffset
  <2>2. /\ n \in Nat /\ Len(commands') = Len(commands) - n
        /\ \A i \in 1..(Len(commands) - n) : commands'[i] = commands[i + n]
    BY <1>0, <2>1
  <2>3. \A i \in Nat : Asks(t, i)' => Asks(t, i + n)
    BY <1>0, <2>1, <2>2 DEF Asks
  <2>4. \A k : Answers(t, k)' <=> Answers(t, k)
    BY <1>19 DEF CommitOffset, Answers
  <2>5. Calling(t)' <=> Calling(t)
    BY <1>19 DEF CommitOffset, Calling, orderVars
  <2>6. ASSUME NEW i \in Nat, Asks(t, i)'
        PROVE  /\ Calling(t) /\ \A k \in Nat : ~ Answers(t, k)
               /\ \A j \in Nat : Asks(t, j)' => j = i
    <3>1. i + n \in Nat /\ Asks(t, i + n)
      BY <2>2, <2>3, <2>6
    <3>2. \A j \in Nat : Asks(t, j)' => j + n \in Nat /\ j + n = i + n
      BY <2>2, <2>3, <3>1 DEF OneCall
    <3> QED
      BY <2>2, <3>1, <3>2 DEF OneCall
  <2> QED
    BY <2>4, <2>5, <2>6 DEF OneCall
<1>20. CASE OrderServiceCrash
  BY <1>20 DEF OrderServiceCrash, May, QuietFaults
<1>21. CASE StockServiceCrash
  BY <1>21 DEF StockServiceCrash, May, QuietFaults
<1>22. CASE UNCHANGED vars
  BY <1>22, <1>a DEF vars, Calling, orderVars, queueVars
<1> QED
  BY <1>1, <1>2, <1>3, <1>4, <1>5, <1>6, <1>7, <1>8, <1>9, <1>10, <1>11,
     <1>12, <1>13, <1>14, <1>15, <1>16, <1>17, <1>18, <1>19, <1>20, <1>21,
     <1>22 DEF Next, CreateStep, CancelStep

(* While Create compensates, what it still holds is among what it will     *)
(* release; a Create that failed holds nothing.                            *)
UndoCovers(s, p) ==
  reservation[p][s].status = "RESERVED" =>
    pc[s] # "failed" /\ (pc[s] = "compensate" => p \in ToSet(undo[s]))

(* A row RESERVED before and after a step stays covered: compensation      *)
(* starts from every product Create has come to, and takes a product off   *)
(* its list only by releasing it.                                          *)
LEMMA HeldIsCovered ==
  ASSUME QuietFaults, TypeInv, RowsMatch, ReservationPinsProduct, NoOverflow, [Next]_vars,
         NEW t \in Sagas, NEW r \in Products, UndoCovers(t, r),
         reservation[r][t].status = "RESERVED", reservation'[r][t].status = "RESERVED"
  PROVE  UndoCovers(t, r)'
<1>0. pc[t] # "failed" /\ (pc[t] = "compensate" => r \in ToSet(undo[t]))
  BY DEF UndoCovers
<1>n. Named(t, r)
  BY DEF RowsMatch, NoRow
<1>o. /\ ProductOrder(t) \in Seq(Products)
      /\ DOMAIN ProductOrder(t) = 1..Len(ProductOrder(t))
      /\ at[t] \in 1..Len(ProductOrder(t)) /\ at[t] \in Nat /\ Len(ProductOrder(t)) \in Nat
  BY ProductOrderLists, CurrentTypes
<1>p. PICK j \in 1..at[t] : ProductOrder(t)[j] = r
  BY <1>n DEF Named
<1>a. ASSUME pc'[t] = pc[t], undo'[t] = undo[t]
      PROVE  UndoCovers(t, r)'
  BY <1>a, <1>0 DEF UndoCovers
<1>b. ASSUME pc'[t] \notin {"failed", "compensate"}
      PROVE  UndoCovers(t, r)'
  BY <1>b DEF UndoCovers
<1>c. ASSUME r \in ToSet(undo'[t]), pc'[t] = "compensate"
      PROVE  UndoCovers(t, r)'
  BY <1>c DEF UndoCovers
<1>1. ASSUME NEW s \in Sagas, LookUpProducts(s)
      PROVE  UndoCovers(t, r)'
  <2>1. CASE s = t
    BY <1>1, <1>n, <2>1 DEF LookUpProducts, Named
  <2>2. CASE s # t
    BY <1>1, <1>a, <2>2 DEF LookUpProducts, FailReserve, GoTo, TypeInv, TypeOK
  <2> QED
    BY <2>1, <2>2
<1>2. ASSUME NEW s \in Sagas, PublishCommand(s)
      PROVE  UndoCovers(t, r)'
  <2>1. CASE s = t
    BY <1>2, <1>b, <2>1 DEF PublishCommand, GoTo, May, QuietFaults, TypeInv, TypeOK
  <2>2. CASE s # t
    BY <1>2, <1>a, <2>2 DEF PublishCommand, FailReserve, GoTo, TypeInv, TypeOK
  <2> QED
    BY <2>1, <2>2
<1>3. ASSUME NEW s \in Sagas, RegisterWaiter(s)
      PROVE  UndoCovers(t, r)'
  <2>1. CASE s = t
    BY <1>3, <1>b, <2>1 DEF RegisterWaiter, GoTo, TypeInv, TypeOK
  <2>2. CASE s # t
    BY <1>3, <1>a, <2>2 DEF RegisterWaiter, FailReserve, GoTo, TypeInv, TypeOK
  <2> QED
    BY <2>1, <2>2
<1>4. ASSUME NEW s \in Sagas, TakeReply(s)
      PROVE  UndoCovers(t, r)'
  <2>1. CASE s = t
    <3>1. CASE FailReserve(s)
      <4>1. r \in ToSet(ReleaseAfterFailedReserve(t))
        <5> DEFINE q == SubSeq(ProductOrder(t), 1, at[t])
        <5>1. \A i \in 1..at[t] : ProductOrder(t)[i] \in Products
          BY <1>o
        <5>2. q \in Seq(Products) /\ Len(q) = at[t] /\ q[j] = ProductOrder(t)[j]
          BY <1>o, <5>1
        <5> HIDE DEF q
        <5>3. r \in ToSet(q)
          BY <1>o, <1>p, <5>2, ElementsOf
        <5> QED
          BY <5>3 DEF q, ReleaseAfterFailedReserve
      <4> QED
        BY <1>c, <2>1, <3>1, <4>1 DEF FailReserve, GoTo, TypeInv, TypeOK
    <3>2. CASE ~ FailReserve(s)
      BY <1>4, <1>b, <2>1, <3>2 DEF TakeReply, GoTo, TypeInv, TypeOK
    <3> QED
      BY <3>1, <3>2
  <2>2. CASE s # t
    BY <1>4, <1>a, <2>2 DEF TakeReply, FailReserve, GoTo, TypeInv, TypeOK
  <2> QED
    BY <2>1, <2>2
<1>5. ASSUME NEW s \in Sagas, Timeout(s)
      PROVE  UndoCovers(t, r)'
  BY <1>5 DEF Timeout, May, QuietFaults
<1>6. ASSUME NEW s \in Sagas, PersistOrder(s)
      PROVE  UndoCovers(t, r)'
  <2>1. CASE s = t
    <3>1. r \in ToSet(ProductOrder(t))
      BY <1>o, <1>p, ElementsOf
    <3>2. CASE pc'[t] = "compensate"
      BY <1>6, <1>c, <2>1, <3>1, <3>2 DEF PersistOrder, GoTo, TypeInv, TypeOK
    <3>3. CASE pc'[t] = "created"
      BY <1>b, <3>3
    <3> QED
      BY <1>6, <2>1, <3>2, <3>3 DEF PersistOrder, GoTo, TypeInv, TypeOK
  <2>2. CASE s # t
    BY <1>6, <1>a, <2>2 DEF PersistOrder, FailReserve, GoTo, TypeInv, TypeOK
  <2> QED
    BY <2>1, <2>2
<1>7. ASSUME NEW s \in Sagas, CompensateNext(s)
      PROVE  UndoCovers(t, r)'
  <2>1. CASE s = t
    <3>1. undo[t] \in Seq(Products) /\ r \in ToSet(undo[t])
      BY <1>7, <1>0, <2>1 DEF CompensateNext, TypeInv, TypeOK
    <3>2. undo[t] # <<>>
      BY <3>1, ElementsOf
    <3>3. undo'[t] = Tail(undo[t]) /\ pc'[t] = "compensate"
      BY <1>7, <2>1, <3>2 DEF CompensateNext, TypeInv, TypeOK
    <3>4. Head(undo[t]) # r
      <4> SUFFICES ASSUME Head(undo[t]) = r
                   PROVE  FALSE
        OBVIOUS
      <4>1. Release(t, r) \/ CannotRelease(t, r)
        BY <1>7, <2>1, <3>2 DEF CompensateNext, May, QuietFaults
      <4>2. ~ CannotRelease(t, r)
        <5>1. LedgerTypeOK /\ reservation[r][t] # NoRow
          BY DEF NoRow, TypeInv, TypeOK
        <5>2. r \in present
          BY <5>1 DEF ReservationPinsProduct
        <5>3. stock[r] + reservation[r][t].quantity <= MaxInt4
          BY <5>1, RoomForRelease
        <5>4. stock[r] \in Int /\ reservation[r][t].quantity \in Int /\ MaxInt4 \in Int
          BY <5>1, RowTypes, LedgerAssumption DEF LedgerTypeOK
        <5> QED
          BY <5>2, <5>3, <5>4 DEF CannotRelease
      <4>3. ReleaseUnits(t, r)
        BY <4>1, <4>2 DEF Release
      <4>4. reservation'[r][t] = ReleasedRow(reservation[r][t])
        BY <4>3 DEF ReleaseUnits, TypeInv, TypeOK, LedgerTypeOK
      <4>5. reservation[r][t] \in ReservationRows
        BY RowTypes DEF TypeInv, TypeOK
      <4> QED
        BY <4>4, <4>5 DEF ReleasedRow, ReservationRows
    <3>5. r \in ToSet(Tail(undo[t]))
      BY <3>1, <3>2, <3>4, ElementsOfTail
    <3> QED
      BY <1>c, <3>3, <3>5
  <2>2. CASE s # t
    BY <1>7, <1>a, <2>2 DEF CompensateNext, FailReserve, GoTo, TypeInv, TypeOK
  <2> QED
    BY <2>1, <2>2
<1>8. ASSUME NEW s \in Sagas, Disconnect(s)
      PROVE  UndoCovers(t, r)'
  BY <1>8 DEF Disconnect, May, QuietFaults
<1>9. ASSUME NEW s \in Sagas, Pay(s)
      PROVE  UndoCovers(t, r)'
  BY <1>9, <1>a DEF Pay, orderVars
<1>10. ASSUME NEW s \in Sagas, BeginCancel(s)
       PROVE  UndoCovers(t, r)'
  BY <1>10, <1>a DEF BeginCancel, orderVars
<1>11. ASSUME NEW s \in Sagas, RefundItem(s)
       PROVE  UndoCovers(t, r)'
  BY <1>11, <1>a DEF RefundItem, orderVars
<1>12. ASSUME NEW s \in Sagas, EndCancel(s)
       PROVE  UndoCovers(t, r)'
  BY <1>12, <1>a DEF EndCancel, orderVars
<1>13. ASSUME NEW s \in Sagas, NEW p \in Products, SweepStale(s, p)
       PROVE  UndoCovers(t, r)'
  BY <1>13, <1>a DEF SweepStale, orderVars
<1>14. ASSUME NEW p \in Products, DeleteProduct(p)
       PROVE  UndoCovers(t, r)'
  BY <1>14, <1>a DEF DeleteProduct, orderVars
<1>15. ASSUME NEW p \in Products, NEW n \in PutStocks, PutStock(p, n)
       PROVE  UndoCovers(t, r)'
  BY <1>15, <1>a DEF PutStock, orderVars
<1>16. CASE Dispatch
  BY <1>16, <1>a DEF Dispatch, orderVars
<1>17. CASE HandleCommand
  BY <1>17, <1>a DEF HandleCommand, orderVars
<1>18. CASE PublishReply
  BY <1>18, <1>a DEF PublishReply, orderVars
<1>19. CASE CommitOffset
  BY <1>19, <1>a DEF CommitOffset, orderVars
<1>20. CASE OrderServiceCrash
  BY <1>20 DEF OrderServiceCrash, May, QuietFaults
<1>21. CASE StockServiceCrash
  BY <1>21 DEF StockServiceCrash, May, QuietFaults
<1>22. CASE UNCHANGED vars
  BY <1>22, <1>a DEF vars, orderVars
<1> QED
  BY <1>1, <1>2, <1>3, <1>4, <1>5, <1>6, <1>7, <1>8, <1>9, <1>10, <1>11,
     <1>12, <1>13, <1>14, <1>15, <1>16, <1>17, <1>18, <1>19, <1>20, <1>21,
     <1>22 DEF Next, CreateStep, CancelStep

(* No row can come late: the consumer reserves only for an open call.      *)
LEMMA UndoCoversStep ==
  ASSUME QuietFaults, TypeInv, RowsMatch, ReservationPinsProduct, NoOverflow, [Next]_vars,
         NEW t \in Sagas, NEW r \in Products, OneCall(t), UndoCovers(t, r)
  PROVE  UndoCovers(t, r)'
<1>1. CASE reservation'[r][t].status # "RESERVED"
  BY <1>1 DEF UndoCovers
<1>2. CASE reservation[r][t].status = "RESERVED" /\ reservation'[r][t].status = "RESERVED"
  BY <1>2, HeldIsCovered
<1>3. CASE reservation[r][t].status # "RESERVED" /\ reservation'[r][t].status = "RESERVED"
  <2>1. Reserves(t, r)
    BY <1>3, RowsMove DEF RowMoves
  <2>2. Asks(t, handled + 1) /\ handled + 1 \in Nat
    BY <2>1 DEF Reserves, Asks, TypeInv, TypeOK
  <2>3. Calling(t)
    BY <2>2 DEF OneCall
  <2>4. pc' = pc
    BY <2>1 DEF Reserves, HandleCommand, orderVars
  <2> QED
    BY <2>3, <2>4 DEF Calling, UndoCovers
<1> QED
  BY <1>1, <1>2, <1>3

(* All of it together.                                                     *)
QuietInv ==
  /\ SagaInv
  /\ ReservationPinsProduct
  /\ NoOverflow
  /\ Answering
  /\ \A s \in Sagas : OneCall(s) /\ \A p \in Products : UndoCovers(s, p)

(* The invariant of the quiet run holds in the beginning ...               *)
LEMMA QuietInvInit == Init => QuietInv
<1> SUFFICES ASSUME Init
             PROVE  QuietInv
  OBVIOUS
<1>1. SagaInv /\ ReservationPinsProduct
  BY SagaInvInit, PinInit DEF Init
<1>2. NoOverflow
  <2> SUFFICES ASSUME NEW p \in Products
               PROVE  Supply(p) <= MaxInt4
    BY DEF NoOverflow
  <2>1. ReservedUnits(p) = {}
    BY DEF Init, LedgerInit, ReservedUnits, NoRow
  <2>2. stock[p] \in 0..MaxInt4
    BY LedgerAssumption DEF Init, LedgerInit
  <2> QED
    BY <2>1, <2>2, FS_EmptySet DEF Supply
<1>3. Answering
  BY DEF Init, Answering
<1>4. ASSUME NEW s \in Sagas
      PROVE  OneCall(s)
  <2>1. Len(commands) = 0 /\ Len(events) = 0
    BY DEF Init
  <2> QED
    BY <2>1 DEF OneCall, Asks, Answers
<1>5. ASSUME NEW s \in Sagas, NEW p \in Products
      PROVE  UndoCovers(s, p)
  BY DEF Init, LedgerInit, UndoCovers, NoRow
<1> QED
  BY <1>1, <1>2, <1>3, <1>4, <1>5 DEF QuietInv

(* ... and is kept by every step.                                          *)
LEMMA QuietInvStep ==
  ASSUME QuietFaults, AmpleShelves
  PROVE  QuietInv /\ [Next]_vars => QuietInv'
<1> SUFFICES ASSUME QuietInv, [Next]_vars
             PROVE  QuietInv'
  OBVIOUS
<1>0. SagaInv /\ TypeInv /\ RowsMatch /\ ReservationPinsProduct /\ NoOverflow /\ Answering
  BY DEF QuietInv, SagaInv
<1>1. SagaInv'
  BY <1>0, SagaInvStep
<1>2. ReservationPinsProduct'
  BY <1>0, LedgerMoves, PinStep DEF TypeInv, TypeOK
<1>3. NoOverflow' /\ Answering'
  BY <1>0, NoOverflowStep, AnsweringStep
<1>4. ASSUME NEW s \in Sagas
      PROVE  OneCall(s)' /\ \A p \in Products : UndoCovers(s, p)'
  <2>1. OneCall(s) /\ MailboxEarned(s) /\ \A p \in Products : UndoCovers(s, p)
    BY DEF QuietInv, SagaInv
  <2>2. OneCall(s)'
    BY <1>0, <2>1, OneCallStep
  <2>3. ASSUME NEW p \in Products
        PROVE  UndoCovers(s, p)'
    BY <1>0, <2>1, UndoCoversStep
  <2> QED
    BY <2>2, <2>3
<1> QED
  BY <1>1, <1>2, <1>3, <1>4 DEF QuietInv

(* As long as no message is lost and nobody dies or gives up, and shelves  *)
(* have room for what is held back: a Create that failed keeps nothing,    *)
(* whichever database operation failed, the unacknowledged commit          *)
(* included, and whatever the reconciliation, Cancels, PUT and DELETE do.  *)
THEOREM FailedCreateIsClean ==
  ASSUME QuietFaults, AmpleShelves
  PROVE  Spec => []FailedCreateKeepsNothing
<1>1. QuietInv => FailedCreateKeepsNothing
  BY DEF QuietInv, UndoCovers, FailedCreateKeepsNothing
<1>2. QuietInv /\ [Next]_vars => QuietInv'
  BY QuietInvStep
<1> QED
  BY <1>1, <1>2, QuietInvInit, PTL DEF Spec
=============================================================================
