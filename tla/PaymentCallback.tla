--------------------------- MODULE PaymentCallback ---------------------------
(***************************************************************************)
(* The YooKassa gateway of the billing system: a page view creates the     *)
(* payment of an invoice, every callback becomes a transaction, and        *)
(* processTransaction credits the client, pays the invoice and tells the   *)
(* Orchestrator.  YooKassa repeats callbacks, the billing system may run a *)
(* transaction again, and a run may stop after any step.                   *)
(***************************************************************************)
EXTENDS Integers, FiniteSets

CONSTANTS
  Callbacks,  \* transactions, one per callback
  Payments,   \* one per amount the invoice has had
  MaxRuns     \* bound: runs of processTransaction

ASSUME PaymentAssumption == IsFiniteSet(Callbacks) /\ MaxRuns \in Nat

VARIABLES
  payment,     \* at YooKassa: "none", "pending", "succeeded", "canceled"
  transaction, \* [payment, status]; "none" until the callback comes
  stage,       \* the next step of the run on a transaction, "idle" for none
  runs,        \* runs started
  credited,    \* addFunds per payment
  paid,        \* payments the invoice was paid after
  told,        \* payments the Orchestrator accepted a payment_paid for
  excused      \* history: payments of runs that overlapped or broke off

paymentVars == <<payment, transaction, stage, runs, credited, paid, told, excused>>

NoTransaction == [payment |-> "none", status |-> "none"]
Transactions == [payment : Payments, status : {"received", "processing", "processed"}]

PaymentTypeOK ==
  /\ payment \in [Payments -> {"none", "pending", "succeeded", "canceled"}]
  /\ transaction \in [Callbacks -> {NoTransaction} \cup Transactions]
  /\ stage \in [Callbacks -> {"idle", "ask", "check", "claim", "credit", "pay", "mark", "tell"}]
  /\ runs \in 0 .. MaxRuns
  /\ credited \in [Payments -> Nat]
  /\ paid \subseteq Payments /\ told \subseteq Payments /\ excused \subseteq Payments

PaymentInit ==
  /\ payment = [p \in Payments |-> "none"]
  /\ transaction = [x \in Callbacks |-> NoTransaction]
  /\ stage = [x \in Callbacks |-> "idle"]
  /\ runs = 0
  /\ credited = [p \in Payments |-> 0]
  /\ paid = {} /\ told = {} /\ excused = {}
-----------------------------------------------------------------------------
(* Faulty variants of definitions below, for mutation of the runs.         *)
ProcessedSelfOnly(x) == transaction[x].status = "processed"
-----------------------------------------------------------------------------
(* createPayment: the idempotence key is the invoice and the amount, so a  *)
(* second view of the page gets the same payment.                          *)
CreatePayment(p) ==
  /\ payment[p] = "none"
  /\ payment' = [payment EXCEPT ![p] = "pending"]
  /\ UNCHANGED <<transaction, stage, runs, credited, paid, told, excused>>

(* External: the client pays or does not.                                  *)
ClientDecides(p) ==
  /\ payment[p] = "pending"
  /\ \E status \in {"succeeded", "canceled"} : payment' = [payment EXCEPT ![p] = status]
  /\ UNCHANGED <<transaction, stage, runs, credited, paid, told, excused>>

(* External: a callback, or its repetition, becomes a transaction.         *)
CallbackArrives(x) ==
  /\ transaction[x] = NoTransaction
  /\ \E p \in Payments :
       /\ payment[p] # "none"
       /\ transaction' = [transaction EXCEPT ![x] = [payment |-> p, status |-> "received"]]
  /\ UNCHANGED <<payment, stage, runs, credited, paid, told, excused>>

Goes(x, next) == stage' = [stage EXCEPT ![x] = next]
Busy(p) == {x \in Callbacks : transaction[x].payment = p
              /\ stage[x] \in {"claim", "credit", "pay", "mark"}}

(* processTransaction starts: a run on one transaction at a time.          *)
ProcessTransaction(x) ==
  /\ transaction[x] # NoTransaction /\ stage[x] = "idle"
  /\ runs < MaxRuns /\ runs' = runs + 1
  /\ Goes(x, "ask")
  /\ UNCHANGED <<payment, transaction, credited, paid, told, excused>>

(* getPayment; a payment that has not succeeded is recorded and left.      *)
GetPayment(x) ==
  /\ stage[x] = "ask"
  /\ IF payment[transaction[x].payment] = "succeeded"
     THEN Goes(x, "check") /\ UNCHANGED transaction
     ELSE /\ Goes(x, "idle")
          /\ transaction' = [transaction EXCEPT ![x].status = "received"]
  /\ UNCHANGED <<payment, runs, credited, paid, told, excused>>

(* hasProcessedPayment: another transaction of the payment is processed.   *)
HasProcessedPayment(x) ==
  \E y \in Callbacks \ {x} : /\ transaction[y].payment = transaction[x].payment
                             /\ transaction[y].status = "processed"

CheckProcessed(x) ==
  /\ stage[x] = "check"
  /\ IF HasProcessedPayment(x)
     THEN /\ Goes(x, "idle")
          /\ transaction' = [transaction EXCEPT ![x].status = "processed"]
          /\ UNCHANGED excused
     ELSE /\ Goes(x, "claim")
          /\ excused' = IF Busy(transaction[x].payment) = {} THEN excused
                        ELSE excused \cup {transaction[x].payment}
          /\ UNCHANGED transaction
  /\ UNCHANGED <<payment, runs, credited, paid, told>>

(* The transaction itself: processed already, claimed by another run, or   *)
(* claimed by this one (the claim is external, and atomic).                *)
Claim(x) ==
  /\ stage[x] = "claim"
  /\ IF transaction[x].status = "received"
     THEN /\ Goes(x, "credit")
          /\ transaction' = [transaction EXCEPT ![x].status = "processing"]
     ELSE Goes(x, "idle") /\ UNCHANGED transaction
  /\ UNCHANGED <<payment, runs, credited, paid, told, excused>>

AddFunds(x) ==
  /\ stage[x] = "credit"
  /\ credited' = [credited EXCEPT ![transaction[x].payment] = credited[transaction[x].payment] + 1]
  /\ Goes(x, "pay")
  /\ UNCHANGED <<payment, transaction, runs, paid, told, excused>>

PayInvoice(x) ==
  /\ stage[x] = "pay"
  /\ paid' = paid \cup {transaction[x].payment}
  /\ Goes(x, "mark")
  /\ UNCHANGED <<payment, transaction, runs, credited, told, excused>>

MarkProcessed(x) ==
  /\ stage[x] = "mark"
  /\ transaction' = [transaction EXCEPT ![x].status = "processed"]
  /\ Goes(x, "tell")
  /\ UNCHANGED <<payment, runs, credited, paid, told, excused>>

(* sendOrchestratorPaymentPaid: accepted; a refusal is thrown (BreakRun).  *)
SendPaymentPaid(x) ==
  /\ stage[x] = "tell"
  /\ told' = told \cup {transaction[x].payment}
  /\ Goes(x, "idle")
  /\ UNCHANGED <<payment, transaction, runs, credited, paid, excused>>

(* A step throws or the process stops.  The billing system may give a      *)
(* transaction the run had claimed back for another run (external).        *)
BreakRun(x) ==
  /\ stage[x] # "idle"
  /\ Goes(x, "idle")
  /\ IF stage[x] \in {"credit", "pay", "mark", "tell"}
     THEN \E status \in {transaction[x].status, "received"} :
            transaction' = [transaction EXCEPT ![x].status = status]
     ELSE UNCHANGED transaction
  /\ excused' = IF stage[x] \in {"pay", "mark", "tell"}
                THEN excused \cup {transaction[x].payment} ELSE excused
  /\ UNCHANGED <<payment, runs, credited, paid, told>>

PaymentNext ==
  \/ \E p \in Payments : CreatePayment(p) \/ ClientDecides(p)
  \/ \E x \in Callbacks :
       \/ CallbackArrives(x) \/ ProcessTransaction(x) \/ GetPayment(x)
       \/ CheckProcessed(x) \/ Claim(x) \/ AddFunds(x) \/ PayInvoice(x)
       \/ MarkProcessed(x) \/ SendPaymentPaid(x) \/ BreakRun(x)

PaymentSpec == PaymentInit /\ [][PaymentNext]_paymentVars
-----------------------------------------------------------------------------
(* However often YooKassa repeats a callback and the billing system runs a *)
(* transaction again, a payment is credited once, unless two runs of it    *)
(* overlapped or one broke off after the credit; only what                 *)
(* succeeded is credited, the invoice is paid only after a credit, and the *)
(* Orchestrator hears of a payment only when its invoice was paid          *)
(* (processTransaction, hasProcessedPayment).                              *)
CreditedOnce ==
  /\ \A p \in Payments : credited[p] > 1 => p \in excused
  /\ \A p \in Payments : credited[p] > 0 => payment[p] = "succeeded"
  /\ told \subseteq paid
  /\ \A p \in paid : credited[p] > 0
=============================================================================
