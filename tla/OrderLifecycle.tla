--------------------------- MODULE OrderLifecycle ---------------------------
(***************************************************************************)
(* What the order-service promises to those who call                       *)
(* POST /pedidos/{id}/pagar, POST /pedidos/{id}/cancelar and               *)
(* PATCH /pedidos/{id}/status: every call is decided in one atomic step    *)
(* against the status the order has in that step, and a call that was      *)
(* accepted is either told the status it asked for or gets an error.       *)
(* OrderService implements this specification.                             *)
(***************************************************************************)
CONSTANTS Orders, Requests

VARIABLES
  status,         \* orders.status; "NONE" while the row does not exist
  call,           \* the operation and the order of each request
  answer          \* what each request has been told

lifecycleVars == <<status, call, answer>>

Statuses == {"NONE", "PENDING", "PAID", "CANCELED"}

\* "setOther": UpdateStatus with a status that is neither PAID nor CANCELED.
Operations == {"pay", "cancel", "setPaid", "setCanceled", "setOther"}

CallTypes == [op : Operations, order : Orders]

(* The 4xx answers of writeOrderError, the status a 200 carries, and       *)
(* "error" for a 500 or no answer at all.                                  *)
Refusals == {"notFound", "alreadyPaid", "alreadyCanceled", "cannotChange",
             "invalidStatus"}

Answers == {"none", "accepted", "PAID", "CANCELED", "error"} \cup Refusals

(* The status an operation asks for.                                       *)
Target(op) == IF op \in {"pay", "setPaid"} THEN "PAID" ELSE "CANCELED"

Already(st) == IF st = "PAID" THEN "alreadyPaid" ELSE "alreadyCanceled"

(* Order.Pay, Cancel and ChangeStatus on an order that is not PENDING.     *)
Refusal(op, st) ==
  IF st = "NONE" THEN "notFound"
  ELSE IF op \in {"pay", "cancel"} /\ st # Target(op)
       THEN "cannotChange" ELSE Already(st)

-----------------------------------------------------------------------------

LifecycleInit ==
  /\ status \in [Orders -> {"NONE", "PENDING"}]
  /\ call \in [Requests -> CallTypes]
  /\ answer = [r \in Requests |-> "none"]

(* OrderService.Create commits.                                            *)
Open(o) ==
  /\ status[o] = "NONE"
  /\ status' = [status EXCEPT ![o] = "PENDING"]
  /\ UNCHANGED <<call, answer>>

(* The order leaves PENDING; the caller may never hear of it.              *)
Accept(r) ==
  /\ answer[r] = "none" /\ call[r].op # "setOther"
  /\ status[call[r].order] = "PENDING"
  /\ status' = [status EXCEPT ![call[r].order] = Target(call[r].op)]
  /\ \E a \in {"accepted", "error"} : answer' = [answer EXCEPT ![r] = a]
  /\ UNCHANGED call

Tell(r) ==
  /\ answer[r] = "accepted"
  /\ \E a \in {Target(call[r].op), "error"} : answer' = [answer EXCEPT ![r] = a]
  /\ UNCHANGED <<status, call>>

(* Several calls may be lost in one step: the process dies.                *)
Lose ==
  /\ \E lost \in SUBSET {r \in Requests : answer[r] \in {"none", "accepted"}} :
       answer' = [r \in Requests |-> IF r \in lost THEN "error" ELSE answer[r]]
  /\ UNCHANGED <<status, call>>

Refuse(r) ==
  /\ answer[r] = "none"
  /\ LET st == status[call[r].order]
     IN  \/ call[r].op = "setOther"
            /\ answer' = [answer EXCEPT ![r] = "invalidStatus"]
         \/ call[r].op # "setOther" /\ st # "PENDING"
            /\ answer' = [answer EXCEPT ![r] = Refusal(call[r].op, st)]
  /\ UNCHANGED <<status, call>>

LifecycleNext ==
  \/ \E o \in Orders : Open(o)
  \/ \E r \in Requests : Accept(r) \/ Tell(r) \/ Refuse(r)
  \/ Lose

LifecycleSpec == LifecycleInit /\ [][LifecycleNext]_lifecycleVars

-----------------------------------------------------------------------------

LifecycleTypeOK ==
  /\ status \in [Orders -> Statuses]
  /\ call \in [Requests -> CallTypes]
  /\ answer \in [Requests -> Answers]

Told(r) == answer[r] \in {"accepted", "PAID", "CANCELED"}

(* Of all calls that want an order changed, one wins: two calls are never  *)
(* both told that they did it, and whoever is told sees it in the row.     *)
OneWinner ==
  /\ \A r1, r2 \in Requests :
       Told(r1) /\ Told(r2) /\ call[r1].order = call[r2].order => r1 = r2
  /\ \A r \in Requests : Told(r) => status[call[r].order] = Target(call[r].op)
=============================================================================
