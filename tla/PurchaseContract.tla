--------------------------- MODULE PurchaseContract ---------------------------
(***************************************************************************)
(* What both payment providers promise about money, apart from how         *)
(* callbacks, updates, retries and crashed processes keep the promise: a   *)
(* payment is opened for one order and never for another, it serves that   *)
(* order only once its money is taken, and never a second time; an order   *)
(* becomes paid by a payment that serves it, and by nothing else.          *)
(*                                                                         *)
(* WinaPay and StarPayments implement it (see their Purchase).             *)
(***************************************************************************)
EXTENDS Naturals

CONSTANTS
  Payments,   \* the transactions or charges of a provider
  Orders,
  NoOrder,    \* the order of a payment that was never opened
  Reopens     \* a paid order may lose its mark, when it is started once more

VARIABLES
  money,      \* money[p]: what became of payment p
  paid        \* paid[o]: order o is marked as paid

Payment == [at     : {"none", "open", "void", "taken"},
            order  : Orders \cup {NoOrder},
            served : {0, 1}]    \* times its order was served for it

NoPayment == [at |-> "none", order |-> NoOrder, served |-> 0]

ContractInit ==
  /\ money = [p \in Payments |-> NoPayment]
  /\ paid = [o \in Orders |-> FALSE]

-----------------------------------------------------------------------------
(* The steps of one payment, as relations between its old and new state.   *)

Open(old, new) ==
  old = NoPayment /\ \E o \in Orders : new = [at |-> "open", order |-> o, served |-> 0]

(* The customer gives up, or the money is taken: an answer that was lost   *)
(* on its way makes no difference to that.                                 *)
Close(old, new) ==
  old.at = "open" /\ \E at \in {"void", "taken"} : new = [old EXCEPT !.at = at]

Serve(old, new) ==
  old.at = "taken" /\ old.served = 0 /\ new = [old EXCEPT !.served = 1]

PaymentStep(old, new) == Open(old, new) \/ Close(old, new) \/ Serve(old, new)

ServedFor(o) == \E p \in Payments : money[p].order = o /\ money[p].served = 1

(* One transaction serves the payment and marks its order.  A lost mark    *)
(* comes back by a repetition of the payment that had served the order.    *)
ContractNext ==
  /\ money' # money \/ paid' # paid
  /\ money' \in [Payments -> Payment]
  /\ paid' \in [Orders -> BOOLEAN]
  /\ \A p \in Payments : money'[p] # money[p] =>
       /\ PaymentStep(money[p], money'[p])
       /\ money'[p].served # money[p].served => paid'[money[p].order]
  /\ \A o \in Orders : paid'[o] => paid[o] \/ ServedFor(o)'
  /\ \A o \in Orders : paid[o] => paid'[o] \/ Reopens

ContractSpec == ContractInit /\ [][ContractNext]_<<money, paid>>
=============================================================================
