----------------------------- MODULE ClientProofs ----------------------------
(***************************************************************************)
(* Proofs about the two programs that call the Orchestrator: the payment   *)
(* gateway, for any numbers of payments, callbacks and runs, and the admin *)
(* page, for any actions, pages, lists and moves.  They share no variable; *)
(* each has a section with an inductive invariant of its own.              *)
(***************************************************************************)
EXTENDS PaymentCallback, AdminConsole, FiniteSetTheorems, TLAPS
-----------------------------------------------------------------------------
(* The payment gateway.                                                    *)

(* What a run has established by the time it reaches a step.               *)
StageInv ==
  \A x \in Callbacks :
    /\ stage[x] # "idle" => transaction[x] \in Transactions
    /\ stage[x] \in {"check", "claim", "credit", "pay", "mark", "tell"} =>
         payment[transaction[x].payment] = "succeeded"
    /\ stage[x] \in {"pay", "mark", "tell"} => credited[transaction[x].payment] > 0
    /\ stage[x] \in {"mark", "tell"} => transaction[x].payment \in paid

(* The runs on one payment that no two of them excuse: one at a time is    *)
(* between its claim and its mark, a credit has left a mark or will, and a *)
(* run that may still credit comes before any credit.                      *)
OneRun(p) ==
  /\ \A x, y \in Busy(p) : x = y
  /\ credited[p] <= 1
  /\ credited[p] > 0 =>
       \E y \in Callbacks : /\ transaction[y].payment = p
                            /\ \/ stage[y] \in {"pay", "mark"}
                               \/ transaction[y].status = "processed"
  /\ \A x \in Busy(p) :
       \/ stage[x] = "claim" /\ transaction[x].status = "received"
       \/ stage[x] = "credit"
       => credited[p] = 0

PaymentInv ==
  /\ PaymentTypeOK /\ CreditedOnce /\ StageInv
  /\ \A p \in Payments \ excused : OneRun(p)

LEMMA BusyFacts ==
  ASSUME PaymentInv, NEW p \in Payments, NEW x \in Callbacks
  PROVE  /\ x \in Busy(p) <=> /\ transaction[x].payment = p
                              /\ stage[x] \in {"claim", "credit", "pay", "mark"}
         /\ stage[x] # "idle" => /\ transaction[x] \in Transactions
                                 /\ transaction[x].payment \in Payments
BY DEF Busy, PaymentInv, StageInv, Transactions

(* A payment whose transactions, runs and credits a step leaves alone.     *)
LEMMA OneRunKept ==
  ASSUME NEW p \in Payments, OneRun(p), credited'[p] = credited[p],
         \A x \in Callbacks : transaction[x].payment = p \/ transaction'[x].payment = p =>
           transaction'[x] = transaction[x] /\ stage'[x] = stage[x]
  PROVE  OneRun(p)'
<1>1. Busy(p)' = Busy(p)
  BY DEF Busy
<1>2. \A x \in Busy(p) : transaction'[x] = transaction[x] /\ stage'[x] = stage[x]
  BY DEF Busy
<1>3. QED
  BY <1>1, <1>2 DEF OneRun
(* A step of one run leaves the other payments' runs alone.                *)
LEMMA OtherPayments ==
  ASSUME PaymentInv, NEW x \in Callbacks, NEW p \in Payments,
         p \notin excused, transaction[x].payment # p,
         transaction'[x].payment = transaction[x].payment,
         credited'[p] = credited[p],
         \A y \in Callbacks \ {x} : transaction'[y] = transaction[y] /\ stage'[y] = stage[y]
  PROVE  OneRun(p)'
<1>1. OneRun(p)
  BY DEF PaymentInv
<1>2. QED
  BY <1>1, OneRunKept

(* Steps that only move a run on, or put its transaction back to received. *)
LEMMA GoesFacts ==
  ASSUME PaymentTypeOK, NEW x \in Callbacks,
         NEW next \in {"idle", "ask", "check", "claim", "credit", "pay", "mark", "tell"},
         Goes(x, next)
  PROVE  /\ stage' \in [Callbacks -> {"idle", "ask", "check", "claim", "credit", "pay",
                                      "mark", "tell"}]
         /\ stage'[x] = next
         /\ \A y \in Callbacks \ {x} : stage'[y] = stage[y]
BY DEF PaymentTypeOK, Goes

LEMMA StatusFacts ==
  ASSUME PaymentTypeOK, NEW x \in Callbacks, transaction[x] \in Transactions,
         NEW status \in {"received", "processing", "processed"},
         transaction' = [transaction EXCEPT ![x].status = status]
  PROVE  /\ transaction' \in [Callbacks -> {NoTransaction} \cup Transactions]
         /\ transaction'[x] \in Transactions
         /\ transaction'[x].payment = transaction[x].payment
         /\ transaction'[x].status = status
         /\ \A y \in Callbacks \ {x} : transaction'[y] = transaction[y]
BY DEF PaymentTypeOK, Transactions

(* What comes from outside a run.                                          *)
LEMMA OutsideKeeps ==
  ASSUME PaymentInv
  PROVE  /\ \A p \in Payments : CreatePayment(p) \/ ClientDecides(p) => PaymentInv'
         /\ \A x \in Callbacks : CallbackArrives(x) \/ ProcessTransaction(x) => PaymentInv'
<1>1. ASSUME NEW p \in Payments, CreatePayment(p) \/ ClientDecides(p)
      PROVE  PaymentInv'
  <2>1. /\ UNCHANGED <<transaction, stage, runs, credited, paid, told, excused>>
        /\ payment' \in [Payments -> {"none", "pending", "succeeded", "canceled"}]
        /\ \A q \in Payments : payment[q] = "succeeded" => payment'[q] = "succeeded"
    BY <1>1 DEF CreatePayment, ClientDecides, PaymentInv, PaymentTypeOK
  <2>2. PaymentTypeOK' /\ CreditedOnce'
    BY <2>1 DEF PaymentInv, PaymentTypeOK, CreditedOnce
  <2>3. StageInv'
    BY <2>1 DEF PaymentInv, StageInv, Transactions
  <2>4. \A q \in Payments \ excused' : OneRun(q)'
    BY <2>1, OneRunKept DEF PaymentInv
  <2>5. QED
    BY <2>2, <2>3, <2>4 DEF PaymentInv
<1>2. ASSUME NEW x \in Callbacks, CallbackArrives(x) PROVE PaymentInv'
  <2>1. transaction[x] = NoTransaction /\ stage[x] = "idle"
    BY <1>2 DEF CallbackArrives, PaymentInv, StageInv, Transactions, NoTransaction,
                PaymentTypeOK
  <2>2. PICK p \in Payments :
          transaction' = [transaction EXCEPT ![x] = [payment |-> p, status |-> "received"]]
    BY <1>2 DEF CallbackArrives
  <2>3. /\ transaction' \in [Callbacks -> {NoTransaction} \cup Transactions]
        /\ transaction'[x].status = "received" /\ transaction'[x] \in Transactions
        /\ \A y \in Callbacks \ {x} : transaction'[y] = transaction[y]
        /\ UNCHANGED <<payment, stage, runs, credited, paid, told, excused>>
    BY <1>2, <2>2 DEF CallbackArrives, PaymentInv, PaymentTypeOK, Transactions
  <2>4. PaymentTypeOK' /\ CreditedOnce'
    BY <2>3 DEF PaymentInv, PaymentTypeOK, CreditedOnce
  <2>5. StageInv'
    BY <2>1, <2>3 DEF PaymentInv, StageInv
  <2>6. ASSUME NEW q \in Payments \ excused PROVE OneRun(q)'
    <3>1. OneRun(q)
      BY DEF PaymentInv
    <3>2. Busy(q)' = Busy(q) /\ \A y \in Busy(q) : transaction'[y] = transaction[y]
      BY <2>1, <2>3 DEF Busy
    <3>3. ASSUME NEW y \in Callbacks, transaction[y].payment = q,
                 stage[y] \in {"pay", "mark"} \/ transaction[y].status = "processed"
          PROVE  transaction'[y] = transaction[y]
      BY <2>1, <2>3, <3>3 DEF NoTransaction
    <3>4. QED
      BY <2>3, <3>1, <3>2, <3>3 DEF OneRun
  <2>7. QED
    BY <2>3, <2>4, <2>5, <2>6 DEF PaymentInv
<1>3. ASSUME NEW x \in Callbacks, ProcessTransaction(x) PROVE PaymentInv'
  <2>1. /\ stage[x] = "idle" /\ stage'[x] = "ask" /\ transaction[x] \in Transactions
        /\ \A y \in Callbacks \ {x} : stage'[y] = stage[y]
        /\ stage' \in [Callbacks -> {"idle", "ask", "check", "claim", "credit", "pay",
                                     "mark", "tell"}]
        /\ UNCHANGED <<payment, transaction, credited, paid, told, excused>>
        /\ runs' \in 0 .. MaxRuns
    BY <1>3, GoesFacts, PaymentAssumption
    DEF ProcessTransaction, PaymentInv, PaymentTypeOK
  <2>2. PaymentTypeOK' /\ CreditedOnce' /\ StageInv'
    BY <2>1 DEF PaymentInv, PaymentTypeOK, CreditedOnce, StageInv
  <2>3. ASSUME NEW q \in Payments \ excused PROVE OneRun(q)'
    <3>1. OneRun(q)
      BY DEF PaymentInv
    <3>2. Busy(q)' = Busy(q) /\ \A y \in Busy(q) : stage'[y] = stage[y]
      BY <2>1 DEF Busy
    <3>3. QED
      BY <2>1, <3>1, <3>2 DEF OneRun
  <2>4. QED
    BY <2>1, <2>2, <2>3 DEF PaymentInv
<1>4. QED
  BY <1>1, <1>2, <1>3

(* Steps before a run is busy.                                             *)
LEMMA AskKeeps ==
  ASSUME PaymentInv, NEW x \in Callbacks, GetPayment(x)
  PROVE  PaymentInv'
<1>1. /\ stage[x] = "ask" /\ transaction[x] \in Transactions
      /\ transaction[x].payment \in Payments /\ PaymentTypeOK
      /\ UNCHANGED <<payment, runs, credited, paid, told, excused>>
  BY BusyFacts DEF GetPayment, PaymentInv, StageInv, Transactions
<1>2. \/ /\ payment[transaction[x].payment] = "succeeded"
         /\ stage'[x] = "check" /\ transaction' = transaction
      \/ /\ payment[transaction[x].payment] # "succeeded" /\ stage'[x] = "idle"
         /\ transaction'[x].status = "received"
  BY <1>1, GoesFacts, StatusFacts DEF GetPayment
<1>3. /\ transaction' \in [Callbacks -> {NoTransaction} \cup Transactions]
      /\ transaction'[x] \in Transactions
      /\ transaction'[x].payment = transaction[x].payment
      /\ \A y \in Callbacks \ {x} : transaction'[y] = transaction[y] /\ stage'[y] = stage[y]
      /\ stage' \in [Callbacks -> {"idle", "ask", "check", "claim", "credit", "pay",
                                   "mark", "tell"}]
  BY <1>1, GoesFacts, StatusFacts DEF GetPayment, PaymentTypeOK
<1>4. PaymentTypeOK' /\ CreditedOnce'
  BY <1>1, <1>3 DEF PaymentInv, PaymentTypeOK, CreditedOnce
<1>5. StageInv'
  BY <1>1, <1>2, <1>3 DEF PaymentInv, StageInv
<1>6. ASSUME NEW q \in Payments \ excused, q = transaction[x].payment PROVE OneRun(q)'
  <2>1. OneRun(q)
    BY DEF PaymentInv
  <2>2. x \notin Busy(q) /\ Busy(q)' = Busy(q)
    BY <1>1, <1>2, <1>3 DEF Busy
  <2>3. credited[q] > 0 => transaction' = transaction
    BY <1>2, <1>6 DEF PaymentInv, CreditedOnce
  <2>4. \A y \in Busy(q) : transaction'[y] = transaction[y] /\ stage'[y] = stage[y]
    BY <1>3, <2>2 DEF Busy
  <2>5. stage[x] \notin {"pay", "mark"}
    BY <1>1
  <2>6. QED
    BY <1>1, <1>3, <2>1, <2>2, <2>3, <2>4, <2>5 DEF OneRun
<1>7. \A q \in Payments \ excused : OneRun(q)'
  BY <1>1, <1>3, <1>6, OtherPayments
<1>8. QED
  BY <1>1, <1>4, <1>5, <1>7 DEF PaymentInv

LEMMA CheckKeeps ==
  ASSUME PaymentInv, NEW x \in Callbacks, CheckProcessed(x)
  PROVE  PaymentInv'
<1>1. /\ stage[x] = "check" /\ transaction[x] \in Transactions
      /\ transaction[x].payment \in Payments /\ PaymentTypeOK
      /\ UNCHANGED <<payment, runs, credited, paid, told>>
  BY BusyFacts DEF CheckProcessed, PaymentInv, StageInv, Transactions
<1>2. \/ /\ HasProcessedPayment(x) /\ stage'[x] = "idle"
         /\ transaction'[x].status = "processed" /\ excused' = excused
      \/ /\ ~HasProcessedPayment(x) /\ stage'[x] = "claim" /\ transaction' = transaction
         /\ excused' = IF Busy(transaction[x].payment) = {} THEN excused
                       ELSE excused \cup {transaction[x].payment}
  BY <1>1, GoesFacts, StatusFacts DEF CheckProcessed
<1>3. /\ transaction' \in [Callbacks -> {NoTransaction} \cup Transactions]
      /\ transaction'[x] \in Transactions
      /\ transaction'[x].payment = transaction[x].payment
      /\ \A y \in Callbacks \ {x} : transaction'[y] = transaction[y] /\ stage'[y] = stage[y]
      /\ stage' \in [Callbacks -> {"idle", "ask", "check", "claim", "credit", "pay",
                                   "mark", "tell"}]
  BY <1>1, GoesFacts, StatusFacts DEF CheckProcessed, PaymentTypeOK
<1>4. excused \subseteq excused' /\ excused' \subseteq Payments
  BY <1>1, <1>2 DEF PaymentTypeOK
<1>5. PaymentTypeOK' /\ CreditedOnce'
  BY <1>1, <1>3, <1>4 DEF PaymentInv, PaymentTypeOK, CreditedOnce
<1>6. StageInv'
  BY <1>1, <1>2, <1>3 DEF PaymentInv, StageInv
<1>7. ASSUME NEW q \in Payments \ excused', q = transaction[x].payment PROVE OneRun(q)'
  <2>1. OneRun(q) /\ x \notin Busy(q)
    BY <1>1, <1>4 DEF PaymentInv, Busy
  <2>2. CASE stage'[x] = "idle" /\ transaction'[x].status = "processed"
    <3>1. Busy(q)' = Busy(q)
          /\ \A y \in Busy(q) : transaction'[y] = transaction[y] /\ stage'[y] = stage[y]
      BY <1>1, <1>3, <2>1, <2>2 DEF Busy
    <3>2. (credited[q] > 0 =>
             \E y \in Callbacks : /\ transaction[y].payment = q
                                  /\ \/ stage[y] \in {"pay", "mark"}
                                     \/ transaction[y].status = "processed")'
      BY <1>3, <1>7, <2>2
    <3>3. QED
      BY <1>1, <2>1, <3>1, <3>2 DEF OneRun
  <2>3. CASE /\ ~HasProcessedPayment(x) /\ stage'[x] = "claim"
             /\ transaction' = transaction /\ Busy(q) = {}
    <3>1. Busy(q)' = {x}
      BY <1>3, <1>7, <2>3 DEF Busy
    <3>2. \A y \in Callbacks : transaction[y].payment = q => stage[y] \notin {"pay", "mark"}
      BY <2>3 DEF Busy
    <3>3. transaction[x].status # "processed" => credited[q] = 0
      <4>1. credited[q] > 0 =>
              \E y \in Callbacks : transaction[y].payment = q
                                   /\ transaction[y].status = "processed"
        BY <2>1, <3>2 DEF OneRun
      <4>2. ASSUME NEW y \in Callbacks, transaction[y].payment = q,
                   transaction[y].status = "processed"
            PROVE  y = x
        BY <1>7, <2>3, <4>2 DEF HasProcessedPayment
      <4>3. QED
        BY <1>1, <1>7, <4>1, <4>2 DEF PaymentTypeOK
    <3>4. (\A y \in Busy(q) : \/ stage[y] = "claim" /\ transaction[y].status = "received"
                              \/ stage[y] = "credit"
                              => credited[q] = 0)'
      BY <1>1, <2>3, <3>1, <3>3
    <3>5. (credited[q] > 0 =>
             \E y \in Callbacks : /\ transaction[y].payment = q
                                  /\ \/ stage[y] \in {"pay", "mark"}
                                     \/ transaction[y].status = "processed")'
      BY <1>1, <2>1, <2>3, <3>2 DEF OneRun
    <3>6. QED
      BY <1>1, <2>1, <3>1, <3>4, <3>5 DEF OneRun
  <2>4. QED
    BY <1>2, <1>7, <2>2, <2>3
<1>8. \A q \in Payments \ excused' : OneRun(q)'
  BY <1>1, <1>3, <1>4, <1>7, OtherPayments
<1>9. QED
  BY <1>5, <1>6, <1>8 DEF PaymentInv

(* Steps of the busy run, which is the only one of its payment.            *)
LEMMA ClaimKeeps ==
  ASSUME PaymentInv, NEW x \in Callbacks, Claim(x)
  PROVE  PaymentInv'
<1>1. /\ stage[x] = "claim" /\ transaction[x] \in Transactions
      /\ transaction[x].payment \in Payments /\ PaymentTypeOK
      /\ UNCHANGED <<payment, runs, credited, paid, told, excused>>
  BY BusyFacts DEF Claim, PaymentInv, StageInv, Transactions
<1>2. \/ /\ transaction[x].status = "received" /\ stage'[x] = "credit"
         /\ transaction'[x].status = "processing"
      \/ stage'[x] = "idle" /\ transaction' = transaction
  BY <1>1, GoesFacts, StatusFacts DEF Claim
<1>3. /\ transaction' \in [Callbacks -> {NoTransaction} \cup Transactions]
      /\ transaction'[x] \in Transactions
      /\ transaction'[x].payment = transaction[x].payment
      /\ \A y \in Callbacks \ {x} : transaction'[y] = transaction[y] /\ stage'[y] = stage[y]
      /\ stage' \in [Callbacks -> {"idle", "ask", "check", "claim", "credit", "pay",
                                   "mark", "tell"}]
  BY <1>1, GoesFacts, StatusFacts DEF Claim, PaymentTypeOK
<1>4. PaymentTypeOK' /\ CreditedOnce'
  BY <1>1, <1>3 DEF PaymentInv, PaymentTypeOK, CreditedOnce
<1>5. StageInv'
  BY <1>1, <1>2, <1>3 DEF PaymentInv, StageInv
<1>6. ASSUME NEW q \in Payments \ excused, q = transaction[x].payment PROVE OneRun(q)'
  <2>1. OneRun(q) /\ Busy(q) = {x}
    BY <1>1, <1>6, BusyFacts DEF PaymentInv, OneRun
  <2>2. Busy(q)' \subseteq {x}
    BY <1>3, <2>1 DEF Busy
  <2>3. CASE /\ transaction[x].status = "received" /\ stage'[x] = "credit"
    <3>1. credited[q] = 0
      BY <1>1, <2>1, <2>3 DEF OneRun
    <3>2. QED
      BY <1>1, <2>1, <2>2, <3>1 DEF OneRun
  <2>4. CASE stage'[x] = "idle" /\ transaction' = transaction
    <3>1. Busy(q)' = {}
      BY <2>2, <2>4 DEF Busy
    <3>2. ASSUME NEW y \in Callbacks, stage[y] \in {"pay", "mark"}
          PROVE  stage'[y] = stage[y]
      BY <1>1, <1>3, <3>2
    <3>3. QED
      BY <1>1, <2>1, <2>4, <3>1, <3>2 DEF OneRun
  <2>5. QED
    BY <1>2, <2>3, <2>4
<1>7. \A q \in Payments \ excused : OneRun(q)'
  BY <1>1, <1>3, <1>6, OtherPayments
<1>8. QED
  BY <1>1, <1>4, <1>5, <1>7 DEF PaymentInv

LEMMA CreditKeeps ==
  ASSUME PaymentInv, NEW x \in Callbacks, AddFunds(x)
  PROVE  PaymentInv'
<1>1. /\ stage[x] = "credit" /\ transaction[x] \in Transactions
      /\ transaction[x].payment \in Payments /\ PaymentTypeOK
      /\ payment[transaction[x].payment] = "succeeded"
      /\ UNCHANGED <<payment, transaction, runs, paid, told, excused>>
  BY BusyFacts DEF AddFunds, PaymentInv, StageInv, Transactions
<1>2. /\ stage'[x] = "pay" /\ \A y \in Callbacks \ {x} : stage'[y] = stage[y]
      /\ stage' \in [Callbacks -> {"idle", "ask", "check", "claim", "credit", "pay",
                                   "mark", "tell"}]
  BY <1>1, GoesFacts DEF AddFunds
<1>3. /\ credited' \in [Payments -> Nat]
      /\ credited'[transaction[x].payment] = credited[transaction[x].payment] + 1
      /\ \A q \in Payments : q # transaction[x].payment => credited'[q] = credited[q]
      /\ \A q \in Payments : credited[q] \in Nat
  BY <1>1 DEF AddFunds, PaymentTypeOK
<1>4. ASSUME NEW q \in Payments \ excused, q = transaction[x].payment
      PROVE  OneRun(q)' /\ credited'[q] = 1
  <2>1. OneRun(q) /\ Busy(q) = {x} /\ credited[q] = 0
    BY <1>1, <1>4, BusyFacts DEF PaymentInv, OneRun
  <2>2. Busy(q)' = {x}
    BY <1>1, <1>2, <1>4, <2>1 DEF Busy
  <2>3. credited'[q] = 1
    BY <1>3, <1>4, <2>1
  <2>4. (\E y \in Callbacks : transaction[y].payment = q /\ stage[y] \in {"pay", "mark"})'
    BY <1>1, <1>2, <1>4
  <2>5. QED
    BY <1>2, <2>2, <2>3, <2>4 DEF OneRun
<1>5. PaymentTypeOK'
  BY <1>1, <1>2, <1>3 DEF PaymentTypeOK
<1>6. CreditedOnce'
  BY <1>1, <1>3, <1>4 DEF PaymentInv, PaymentTypeOK, CreditedOnce
<1>7. StageInv'
  <2>1. ASSUME NEW y \in Callbacks, stage'[y] # "idle"
        PROVE  transaction[y] \in Transactions /\ transaction[y].payment \in Payments
    BY <1>1, <1>2, <2>1, BusyFacts
  <2>2. ASSUME NEW y \in Callbacks, stage'[y] \in {"pay", "mark", "tell"}
        PROVE  credited'[transaction[y].payment] > 0
    BY <1>1, <1>2, <1>3, <2>1, <2>2 DEF PaymentInv, StageInv
  <2>3. QED
    BY <1>1, <1>2, <2>1, <2>2 DEF PaymentInv, StageInv
<1>8. \A q \in Payments \ excused : OneRun(q)'
  BY <1>1, <1>2, <1>3, <1>4, OtherPayments
<1>9. QED
  BY <1>1, <1>5, <1>6, <1>7, <1>8 DEF PaymentInv

LEMMA PayKeeps ==
  ASSUME PaymentInv, NEW x \in Callbacks, PayInvoice(x)
  PROVE  PaymentInv'
<1>1. /\ stage[x] = "pay" /\ transaction[x] \in Transactions
      /\ transaction[x].payment \in Payments /\ PaymentTypeOK
      /\ credited[transaction[x].payment] > 0
      /\ paid' = paid \cup {transaction[x].payment}
      /\ UNCHANGED <<payment, transaction, runs, credited, told, excused>>
  BY BusyFacts DEF PayInvoice, PaymentInv, StageInv, Transactions
<1>2. /\ stage'[x] = "mark" /\ \A y \in Callbacks \ {x} : stage'[y] = stage[y]
      /\ stage' \in [Callbacks -> {"idle", "ask", "check", "claim", "credit", "pay",
                                   "mark", "tell"}]
  BY <1>1, GoesFacts DEF PayInvoice
<1>3. PaymentTypeOK' /\ CreditedOnce'
  BY <1>1, <1>2 DEF PaymentInv, PaymentTypeOK, CreditedOnce
<1>4. StageInv'
  BY <1>1, <1>2 DEF PaymentInv, StageInv
<1>5. ASSUME NEW q \in Payments \ excused, q = transaction[x].payment PROVE OneRun(q)'
  <2>1. OneRun(q) /\ Busy(q) = {x} /\ x \in Callbacks
    BY <1>1, <1>5, BusyFacts DEF PaymentInv, OneRun
  <2>2. Busy(q)' = {x}
    BY <1>1, <1>2, <1>5, <2>1 DEF Busy
  <2>3. (\E y \in Callbacks : transaction[y].payment = q /\ stage[y] \in {"pay", "mark"})'
    BY <1>1, <1>2, <1>5
  <2>4. QED
    BY <1>1, <1>2, <2>1, <2>2, <2>3 DEF OneRun
<1>6. \A q \in Payments \ excused : OneRun(q)'
  BY <1>1, <1>2, <1>5, OtherPayments
<1>7. QED
  BY <1>1, <1>3, <1>4, <1>6 DEF PaymentInv

LEMMA MarkKeeps ==
  ASSUME PaymentInv, NEW x \in Callbacks, MarkProcessed(x)
  PROVE  PaymentInv'
<1>1. /\ stage[x] = "mark" /\ transaction[x] \in Transactions
      /\ transaction[x].payment \in Payments /\ PaymentTypeOK
      /\ UNCHANGED <<payment, runs, credited, paid, told, excused>>
  BY BusyFacts DEF MarkProcessed, PaymentInv, StageInv, Transactions
<1>2. /\ stage'[x] = "tell" /\ transaction'[x].status = "processed"
      /\ transaction' \in [Callbacks -> {NoTransaction} \cup Transactions]
      /\ transaction'[x] \in Transactions
      /\ transaction'[x].payment = transaction[x].payment
      /\ \A y \in Callbacks \ {x} : transaction'[y] = transaction[y] /\ stage'[y] = stage[y]
      /\ stage' \in [Callbacks -> {"idle", "ask", "check", "claim", "credit", "pay",
                                   "mark", "tell"}]
  BY <1>1, GoesFacts, StatusFacts DEF MarkProcessed
<1>3. PaymentTypeOK' /\ CreditedOnce'
  BY <1>1, <1>2 DEF PaymentInv, PaymentTypeOK, CreditedOnce
<1>4. StageInv'
  BY <1>1, <1>2 DEF PaymentInv, StageInv
<1>5. ASSUME NEW q \in Payments \ excused, q = transaction[x].payment PROVE OneRun(q)'
  <2>1. OneRun(q) /\ Busy(q) = {x}
    BY <1>1, <1>5, BusyFacts DEF PaymentInv, OneRun
  <2>2. Busy(q)' = {}
    BY <1>2, <2>1 DEF Busy
  <2>3. (\E y \in Callbacks : transaction[y].payment = q
                              /\ transaction[y].status = "processed")'
    BY <1>2, <1>5
  <2>4. QED
    BY <1>1, <2>1, <2>2, <2>3 DEF OneRun
<1>6. \A q \in Payments \ excused : OneRun(q)'
  BY <1>1, <1>2, <1>5, OtherPayments
<1>7. QED
  BY <1>1, <1>3, <1>4, <1>6 DEF PaymentInv

LEMMA TellKeeps ==
  ASSUME PaymentInv, NEW x \in Callbacks, SendPaymentPaid(x)
  PROVE  PaymentInv'
<1>1. /\ stage[x] = "tell" /\ transaction[x] \in Transactions
      /\ transaction[x].payment \in paid /\ PaymentTypeOK
      /\ told' = told \cup {transaction[x].payment}
      /\ UNCHANGED <<payment, transaction, runs, credited, paid, excused>>
  BY BusyFacts DEF SendPaymentPaid, PaymentInv, StageInv
<1>2. /\ stage'[x] = "idle" /\ \A y \in Callbacks \ {x} : stage'[y] = stage[y]
      /\ stage' \in [Callbacks -> {"idle", "ask", "check", "claim", "credit", "pay",
                                   "mark", "tell"}]
  BY <1>1, GoesFacts DEF SendPaymentPaid
<1>3. PaymentTypeOK' /\ CreditedOnce'
  BY <1>1, <1>2 DEF PaymentInv, PaymentTypeOK, CreditedOnce
<1>4. StageInv'
  BY <1>1, <1>2 DEF PaymentInv, StageInv
<1>5. ASSUME NEW q \in Payments \ excused PROVE OneRun(q)'
  <2>1. OneRun(q)
    BY DEF PaymentInv
  <2>2. Busy(q)' = Busy(q) /\ \A y \in Busy(q) : stage'[y] = stage[y]
    BY <1>1, <1>2 DEF Busy
  <2>3. \A y \in Callbacks : stage[y] \in {"pay", "mark"} => stage'[y] = stage[y]
    BY <1>1, <1>2
  <2>4. QED
    BY <1>1, <2>1, <2>2, <2>3 DEF OneRun
<1>6. QED
  BY <1>1, <1>3, <1>4, <1>5 DEF PaymentInv

(* A run that breaks off after the credit excuses its payment; one that    *)
(* breaks off before leaves no credit behind.                              *)
LEMMA BreakKeeps ==
  ASSUME PaymentInv, NEW x \in Callbacks, BreakRun(x)
  PROVE  PaymentInv'
<1>1. /\ stage[x] # "idle" /\ transaction[x] \in Transactions
      /\ transaction[x].payment \in Payments /\ PaymentTypeOK
      /\ UNCHANGED <<payment, runs, credited, paid, told>>
  BY BusyFacts DEF BreakRun, PaymentInv, StageInv, Transactions
<1>2. /\ stage'[x] = "idle" /\ \A y \in Callbacks \ {x} : stage'[y] = stage[y]
      /\ stage' \in [Callbacks -> {"idle", "ask", "check", "claim", "credit", "pay",
                                   "mark", "tell"}]
  BY <1>1, GoesFacts DEF BreakRun
<1>3. /\ transaction' \in [Callbacks -> {NoTransaction} \cup Transactions]
      /\ transaction'[x] \in Transactions
      /\ transaction'[x].payment = transaction[x].payment
      /\ \A y \in Callbacks \ {x} : transaction'[y] = transaction[y]
      /\ stage[x] \notin {"credit", "pay", "mark", "tell"} => transaction' = transaction
  <2>1. CASE stage[x] \in {"credit", "pay", "mark", "tell"}
    <3>1. PICK status \in {transaction[x].status, "received"} :
            transaction' = [transaction EXCEPT ![x].status = status]
      BY <2>1 DEF BreakRun
    <3>2. status \in {"received", "processing", "processed"}
      BY <1>1 DEF Transactions
    <3>3. QED
      BY <1>1, <2>1, <3>1, <3>2, StatusFacts
  <2>2. CASE stage[x] \notin {"credit", "pay", "mark", "tell"}
    BY <1>1, <2>2 DEF BreakRun, PaymentTypeOK
  <2>3. QED
    BY <2>1, <2>2
<1>4. /\ excused \subseteq excused' /\ excused' \subseteq Payments
      /\ stage[x] \in {"pay", "mark", "tell"} => transaction[x].payment \in excused'
  BY <1>1 DEF BreakRun, PaymentTypeOK
<1>5. PaymentTypeOK' /\ CreditedOnce'
  BY <1>1, <1>2, <1>3, <1>4 DEF PaymentInv, PaymentTypeOK, CreditedOnce
<1>6. StageInv'
  BY <1>1, <1>2, <1>3 DEF PaymentInv, StageInv
<1>7. ASSUME NEW q \in Payments \ excused', q = transaction[x].payment PROVE OneRun(q)'
  <2>1. OneRun(q) /\ stage[x] \notin {"pay", "mark", "tell"}
    BY <1>4, <1>7 DEF PaymentInv
  <2>2. Busy(q)' \subseteq Busy(q) /\ x \notin Busy(q)'
    BY <1>2, <1>3 DEF Busy
  <2>3. \A y \in Busy(q)' : transaction'[y] = transaction[y] /\ stage'[y] = stage[y]
    BY <1>2, <1>3, <2>2 DEF Busy
  <2>4. CASE stage[x] = "credit"
    <3>1. credited[q] = 0
      BY <1>7, <2>1, <2>4 DEF OneRun, Busy
    <3>2. QED
      BY <1>1, <2>1, <2>2, <2>3, <3>1 DEF OneRun
  <2>5. CASE stage[x] # "credit"
    <3>1. transaction' = transaction
      BY <1>3, <2>1, <2>5
    <3>2. \A y \in Callbacks : stage[y] \in {"pay", "mark"} => stage'[y] = stage[y]
      BY <1>2, <2>1
    <3>3. QED
      BY <1>1, <2>1, <2>2, <2>3, <3>1, <3>2 DEF OneRun
  <2>6. QED
    BY <2>4, <2>5
<1>8. \A q \in Payments \ excused' : OneRun(q)'
  BY <1>1, <1>2, <1>3, <1>4, <1>7, OtherPayments
<1>9. QED
  BY <1>5, <1>6, <1>8 DEF PaymentInv
-----------------------------------------------------------------------------
LEMMA PaymentInvHolds == PaymentSpec => []PaymentInv
<1>1. PaymentInit => PaymentInv
  <2> SUFFICES ASSUME PaymentInit PROVE PaymentInv
    OBVIOUS
  <2>1. PaymentTypeOK
    BY PaymentAssumption DEF PaymentInit, PaymentTypeOK
  <2>2. CreditedOnce /\ StageInv
    BY DEF PaymentInit, CreditedOnce, StageInv
  <2>3. \A p \in Payments : OneRun(p)
    BY DEF PaymentInit, OneRun, Busy
  <2>4. QED
    BY <2>1, <2>2, <2>3 DEF PaymentInv
<1>2. PaymentInv /\ [PaymentNext]_paymentVars => PaymentInv'
  <2>1. ASSUME PaymentInv, UNCHANGED paymentVars PROVE PaymentInv'
    <3>1. PaymentTypeOK' /\ CreditedOnce' /\ StageInv'
      BY <2>1 DEF paymentVars, PaymentInv, PaymentTypeOK, CreditedOnce, StageInv
    <3>2. \A p \in Payments \ excused' : OneRun(p)'
      BY <2>1, OneRunKept DEF paymentVars, PaymentInv
    <3>3. QED
      BY <3>1, <3>2 DEF PaymentInv
  <2>2. QED
    BY <2>1, OutsideKeeps, AskKeeps, CheckKeeps, ClaimKeeps, CreditKeeps, PayKeeps,
       MarkKeeps, TellKeeps, BreakKeeps
    DEF PaymentNext
<1>3. QED
  BY <1>1, <1>2, PTL DEF PaymentSpec

(* Payments, transactions, runs and their books keep their types           *)
(* (processTransaction).                                                   *)
THEOREM PaymentTypeCorrect == PaymentSpec => []PaymentTypeOK
<1>1. PaymentInv => PaymentTypeOK
  BY DEF PaymentInv
<1>2. QED
  BY <1>1, PaymentInvHolds, PTL

(* For any number of callbacks and runs, a payment no two runs of which    *)
(* overlapped and none broke off after its credit is credited once, after  *)
(* it succeeded and before its invoice is paid and the Orchestrator told   *)
(* (processTransaction, hasProcessedPayment).                              *)
THEOREM PaymentIsCreditedOnce == PaymentSpec => []CreditedOnce
<1>1. PaymentInv => CreditedOnce
  BY DEF PaymentInv
<1>2. QED
  BY <1>1, PaymentInvHolds, PTL
-----------------------------------------------------------------------------
(* The admin page.                                                         *)

AnyKey == [page : 1 .. Pages, filter : BOOLEAN, refreshed : Nat, reloaded : Nat]
AnyAsk == [kind : {"list"}, key : AnyKey, from : Nat]
AnyRead == [kind : {"details"}, id : Items, from : Nat]

PanelHooks ==
  [page : 1 .. Pages, pages : 0 .. Pages, filter : BOOLEAN, refreshed : Nat, reloaded : Nat,
   items : Lists \cup {<<>>}, listError : BOOLEAN, shown : AnyKey, listFrom : Nat,
   selected : Items \cup {NoItem}, details : Items \cup {NoItem}, detailsFrom : Nat,
   detailsLoading : BOOLEAN, detailsError : BOOLEAN]

(* The request in flight is about what the panel is to show; if none is,   *)
(* it is what the panel shows.                                             *)
ListFits(q, a) ==
  /\ a # NoRequest => a \in AnyAsk /\ a.key = ListKey(q) /\ a.from <= written
  /\ a = NoRequest /\ ~q.listError => q.shown = ListKey(q)

DetailsFit(q, r) ==
  /\ r # NoRequest => r \in AnyRead /\ r.id = q.selected /\ r.from <= written
  /\ r = NoRequest /\ q.selected # NoItem /\ ~q.detailsError => q.details = q.selected

(* It is not older than the last action reported as done.                  *)
ListFresh(q, a) ==
  /\ a # NoRequest => a.from >= done
  /\ a = NoRequest /\ ~q.listError => q.listFrom >= done

DetailsFresh(q, r) ==
  /\ r # NoRequest => r.from >= done
  /\ r = NoRequest /\ q.selected # NoItem /\ ~q.detailsError => q.detailsFrom >= done

(* No action is under way and none has failed since the last one began.    *)
Calm == Quiet /\ ~app.error

PanelFits ==
  /\ panel \in PanelHooks
  /\ ListFits(panel, ask) /\ DetailsFit(panel, read)
  /\ Calm => ListFresh(panel, ask) /\ DetailsFresh(panel, read)

(* Until two refreshes overlap, the one under way shows what was done.     *)
ViewFits ==
  ~overlapped /\ panel.reloaded = 0 =>
    /\ \A a \in Acts : act[a].stage = "refreshing" => act[a].from >= done
    /\ Calm => app.view >= done

ConsoleTypes ==
  /\ written \in Nat /\ done \in Nat /\ done <= written
  /\ act \in [Acts -> [stage : {"idle", "sent", "written", "refreshing"}, from : Nat]]
  /\ \A a \in Acts : act[a].from <= written
  /\ app \in [error : BOOLEAN, isLoading : BOOLEAN, view : Nat]
  /\ overlapped \in BOOLEAN
  /\ regenerate \in Items \cup {NoItem}

ConsoleInv == ConsoleTypes /\ PanelFits /\ ViewFits

LEMMA PageFacts ==
  ASSUME NEW q \in PanelHooks
  PROVE  /\ CurrentPage(q) \in 1 .. Pages /\ CurrentPage(q) <= q.page
         /\ q.pages > 0 => CurrentPage(q) <= q.pages
         /\ ListKey(q) \in AnyKey
<1>1. /\ q.page \in 1 .. Pages /\ q.pages \in 0 .. Pages /\ q.filter \in BOOLEAN
      /\ q.refreshed \in Nat /\ q.reloaded \in Nat
  BY DEF PanelHooks
<1>2. CurrentPage(q) \in 1 .. Pages /\ CurrentPage(q) <= q.page
      /\ (q.pages > 0 => CurrentPage(q) <= q.pages)
  BY <1>1, ConsoleAssumption DEF CurrentPage
<1>3. QED
  BY <1>1, <1>2 DEF ListKey, AnyKey

LEMMA KeyDepends ==
  ASSUME NEW p, NEW q,
         p.page = q.page, p.pages = q.pages, p.filter = q.filter,
         p.refreshed = q.refreshed, p.reloaded = q.reloaded
  PROVE  ListKey(p) = ListKey(q)
BY DEF ListKey, CurrentPage

(* What the effects of a handler leave.                                    *)
LEMMA EffectsSay ==
  ASSUME NEW q \in PanelHooks, NEW a, NEW r, NEW l, Effects(q, a, r, l)
  PROVE  /\ panel' \in PanelHooks
         /\ panel'.shown = q.shown /\ panel'.listFrom = q.listFrom
         /\ panel'.selected = q.selected /\ panel'.details = q.details
         /\ panel'.detailsFrom = q.detailsFrom /\ panel'.reloaded = q.reloaded
         /\ ListKey(panel)' = ListKey(q)
         /\ ListKey(q) = ListKey(panel) =>
              ask' = a /\ (panel'.listError <=> q.listError)
         /\ ListKey(q) # ListKey(panel) =>
              ask' = [kind |-> "list", key |-> ListKey(q), from |-> written]
         /\ DetailsKey(q) = DetailsKey(panel) =>
              read' = r /\ (panel'.detailsError <=> q.detailsError)
         /\ DetailsKey(q) # DetailsKey(panel) =>
              read' = IF q.selected = NoItem THEN NoRequest
                      ELSE [kind |-> "details", id |-> q.selected, from |-> written]
<1>1. PICK asks \in BOOLEAN : asks <=> ListKey(q) # ListKey(panel)
  OBVIOUS
<1>2. PICK changes \in BOOLEAN : changes <=> DetailsKey(q) # DetailsKey(panel)
  OBVIOUS
<1>3. PICK reads \in BOOLEAN : reads <=> changes /\ q.selected # NoItem
  OBVIOUS
<1>4. /\ panel' = [q EXCEPT !.listError = q.listError /\ ~asks,
                            !.detailsLoading = q.detailsLoading \/ reads,
                            !.detailsError = q.detailsError /\ ~reads]
      /\ ask' = IF asks THEN [kind |-> "list", key |-> ListKey(q), from |-> written] ELSE a
      /\ read' = IF reads THEN [kind |-> "details", id |-> q.selected, from |-> written]
                 ELSE IF changes THEN NoRequest ELSE r
  BY <1>1, <1>2, <1>3, Zenon DEF Effects
<1>5. PICK e \in BOOLEAN : e = (q.listError /\ ~asks)
  OBVIOUS
<1>6. PICK f \in BOOLEAN : f = (q.detailsLoading \/ reads)
  OBVIOUS
<1>7. PICK g \in BOOLEAN : g = (q.detailsError /\ ~reads)
  OBVIOUS
<1>8. panel' = [q EXCEPT !.listError = e, !.detailsLoading = f, !.detailsError = g]
  BY <1>4, <1>5, <1>6, <1>7
<1>9. panel' \in PanelHooks /\ panel'.listError = e /\ panel'.detailsError = g
  BY <1>8 DEF PanelHooks
<1>10. /\ panel'.shown = q.shown /\ panel'.listFrom = q.listFrom
       /\ panel'.selected = q.selected /\ panel'.details = q.details
       /\ panel'.detailsFrom = q.detailsFrom /\ panel'.page = q.page
       /\ panel'.pages = q.pages /\ panel'.filter = q.filter
       /\ panel'.refreshed = q.refreshed /\ panel'.reloaded = q.reloaded
  BY <1>8 DEF PanelHooks
<1>11. ListKey(panel)' = ListKey(q)
  BY <1>10 DEF ListKey, CurrentPage
<1>12. ListKey(q) = ListKey(panel) => ask' = a /\ (panel'.listError <=> q.listError)
  BY <1>1, <1>4, <1>5, <1>9
<1>13. DetailsKey(q) = DetailsKey(panel) => read' = r /\ (panel'.detailsError <=> q.detailsError)
  BY <1>2, <1>3, <1>4, <1>7, <1>9
<1>14. /\ ListKey(q) # ListKey(panel) =>
            ask' = [kind |-> "list", key |-> ListKey(q), from |-> written]
       /\ DetailsKey(q) # DetailsKey(panel) =>
            read' = IF q.selected = NoItem THEN NoRequest
                    ELSE [kind |-> "details", id |-> q.selected, from |-> written]
  BY <1>1, <1>2, <1>3, <1>4
<1>15. QED
  BY <1>9, <1>10, <1>11, <1>12, <1>13, <1>14

(* They keep the panel as it should be, if what they do not ask for again  *)
(* is.                                                                     *)
LEMMA EffectsKeep ==
  ASSUME ConsoleInv, NEW q \in PanelHooks, NEW a, NEW r, NEW l, Effects(q, a, r, l),
         UNCHANGED <<written, done>>,
         ListKey(q) = ListKey(panel) => ListFits(q, a) /\ (Calm' => ListFresh(q, a)),
         DetailsKey(q) = DetailsKey(panel) => DetailsFit(q, r) /\ (Calm' => DetailsFresh(q, r))
  PROVE  PanelFits'
<1>1. written \in Nat /\ done \in Nat /\ done <= written /\ written' = written /\ done' = done
  BY DEF ConsoleInv, ConsoleTypes
<1>2. ListFits(panel, ask)' /\ (Calm' => ListFresh(panel, ask)')
  <2>1. CASE ListKey(q) = ListKey(panel)
    <3>1. ask' = a /\ (panel'.listError <=> q.listError) /\ ListKey(panel)' = ListKey(q)
          /\ panel'.shown = q.shown /\ panel'.listFrom = q.listFrom
      BY <2>1, EffectsSay
    <3>2. QED
      BY <1>1, <2>1, <3>1 DEF ListFits, ListFresh
  <2>2. CASE ListKey(q) # ListKey(panel)
    <3>1. PICK s : s = [kind |-> "list", key |-> ListKey(q), from |-> written]
      OBVIOUS
    <3>2. ask' = s /\ ListKey(panel)' = ListKey(q)
      BY <2>2, <3>1, EffectsSay
    <3>3. s \in AnyAsk /\ s.key = ListKey(q) /\ s.from = written
      BY <1>1, <3>1, PageFacts DEF AnyAsk
    <3>4. s # NoRequest
      BY <3>3, MarkersAssumption DEF AnyAsk, AnyKey
    <3>5. QED
      BY <1>1, <3>2, <3>3, <3>4 DEF ListFits, ListFresh
  <2>3. QED
    BY <2>1, <2>2
<1>3. DetailsFit(panel, read)' /\ (Calm' => DetailsFresh(panel, read)')
  <2>1. panel'.selected = q.selected /\ panel'.details = q.details
        /\ panel'.detailsFrom = q.detailsFrom
    BY EffectsSay
  <2>2. CASE DetailsKey(q) = DetailsKey(panel)
    <3>1. read' = r /\ (panel'.detailsError <=> q.detailsError)
      BY <2>2, EffectsSay
    <3>2. QED
      BY <1>1, <2>1, <2>2, <3>1 DEF DetailsFit, DetailsFresh
  <2>3. CASE DetailsKey(q) # DetailsKey(panel) /\ q.selected = NoItem
    <3>1. read' = NoRequest
      BY <2>3, EffectsSay
    <3>2. QED
      BY <2>1, <2>3, <3>1 DEF DetailsFit, DetailsFresh
  <2>4. CASE DetailsKey(q) # DetailsKey(panel) /\ q.selected # NoItem
    <3>1. PICK s : s = [kind |-> "details", id |-> q.selected, from |-> written]
      OBVIOUS
    <3>2. read' = s
      BY <2>4, <3>1, EffectsSay
    <3>3. s \in AnyRead /\ s.id = q.selected /\ s.from = written
      BY <1>1, <2>4, <3>1 DEF AnyRead, PanelHooks
    <3>4. s # NoRequest
      BY <3>3, MarkersAssumption DEF AnyRead
    <3>5. QED
      BY <1>1, <2>1, <3>2, <3>3, <3>4 DEF DetailsFit, DetailsFresh
  <2>5. QED
    BY <2>2, <2>3, <2>4
<1>4. panel' \in PanelHooks
  BY EffectsSay
<1>5. QED
  BY <1>2, <1>3, <1>4 DEF PanelFits

(* The selection follows the list.                                         *)
LEMMA SelectionSays ==
  ASSUME NEW q \in PanelHooks, NEW p, p = Selection(q)
  PROVE  /\ p \in PanelHooks
         /\ p.page = q.page /\ p.pages = q.pages /\ p.filter = q.filter
         /\ p.refreshed = q.refreshed /\ p.reloaded = q.reloaded
         /\ p.shown = q.shown /\ p.listFrom = q.listFrom /\ p.listError = q.listError
         /\ q.items = <<>> => p.selected = NoItem
         /\ q.items # <<>> => /\ p.selected \in Items /\ p.details = q.details
                              /\ p.detailsFrom = q.detailsFrom
                              /\ p.detailsError = q.detailsError
<1>1. CASE q.items = <<>>
  <2>1. p = [q EXCEPT !.selected = NoItem, !.details = NoItem, !.detailsError = FALSE]
    BY <1>1 DEF Selection
  <2>2. QED
    BY <1>1, <2>1 DEF PanelHooks
<1>2. CASE q.items # <<>>
  <2>1. q.items \in Lists
    BY <1>2 DEF PanelHooks
  <2>2. Range(q.items) \subseteq Items
    BY <2>1 DEF Items
  <2>3. q.items[1] \in Range(q.items)
    BY <2>1, ConsoleAssumption DEF Range
  <2>4. CASE q.selected \in Range(q.items)
    BY <1>2, <2>2, <2>4 DEF Selection
  <2>5. CASE q.selected \notin Range(q.items)
    <3>1. p = [q EXCEPT !.selected = q.items[1]]
      BY <1>2, <2>5 DEF Selection
    <3>2. q.items[1] \in Items
      BY <2>2, <2>3
    <3>3. QED
      BY <1>2, <3>1, <3>2 DEF PanelHooks
  <2>6. QED
    BY <2>4, <2>5
<1>3. QED
  BY <1>1, <1>2

(* What no action or refresh is about: the handlers of the panel alone.    *)
Elsewhere == UNCHANGED <<regenerate, act, app, written, done, overlapped>>

LEMMA PanelAlone ==
  ASSUME ConsoleInv, Elsewhere, panel' \in PanelHooks, panel'.reloaded = panel.reloaded,
         PanelFits'
  PROVE  ConsoleInv'
<1>1. ConsoleTypes'
  BY DEF ConsoleInv, ConsoleTypes, Elsewhere
<1>2. Calm' <=> Calm
  BY DEF Calm, Quiet, Elsewhere
<1>3. ViewFits'
  BY <1>2 DEF ConsoleInv, ViewFits, Elsewhere
<1>4. QED
  BY <1>1, <1>3 DEF ConsoleInv

(* Nothing more is asked for than the effects see.                         *)
LEMMA PanelMoves ==
  ASSUME ConsoleInv, Elsewhere, NEW q \in PanelHooks, NEW a, NEW r, NEW l, Effects(q, a, r, l),
         q.reloaded = panel.reloaded,
         ListKey(q) = ListKey(panel) => ListFits(q, a) /\ (Calm => ListFresh(q, a)),
         DetailsKey(q) = DetailsKey(panel) => DetailsFit(q, r) /\ (Calm => DetailsFresh(q, r))
  PROVE  ConsoleInv'
<1>1. Calm' <=> Calm
  BY DEF Calm, Quiet, Elsewhere
<1>2. PanelFits'
  BY <1>1, EffectsKeep DEF Elsewhere
<1>3. panel' \in PanelHooks /\ panel'.reloaded = panel.reloaded
  BY EffectsSay
<1>4. QED
  BY <1>2, <1>3, PanelAlone

(* A panel like this one to the requests.                                  *)
LEMMA SameList ==
  ASSUME PanelFits, NEW q, ListKey(q) = ListKey(panel), q.shown = panel.shown,
         q.listFrom = panel.listFrom, q.listError <=> panel.listError
  PROVE  ListFits(q, ask) /\ (Calm => ListFresh(q, ask))
BY DEF PanelFits, ListFits, ListFresh

LEMMA SameDetails ==
  ASSUME PanelFits, NEW q, q.selected = panel.selected, q.details = panel.details,
         q.detailsFrom = panel.detailsFrom, q.detailsError <=> panel.detailsError
  PROVE  DetailsFit(q, read) /\ (Calm => DetailsFresh(q, read))
BY DEF PanelFits, DetailsFit, DetailsFresh

(* The operator filters, turns a page, selects a row.                      *)
LEMMA FilterSet ==
  ASSUME ConsoleInv, SetFilter
  PROVE  ConsoleInv'
<1>1. PICK f \in BOOLEAN : f = ~panel.filter
  OBVIOUS
<1>2. PICK q : q = [panel EXCEPT !.filter = f, !.page = 1]
  OBVIOUS
<1>3. panel \in PanelHooks /\ PanelFits
  BY DEF ConsoleInv, PanelFits
<1>4. f # panel.filter
  BY <1>1, <1>3 DEF PanelHooks
<1>5. /\ q \in PanelHooks
      /\ q.reloaded = panel.reloaded /\ q.selected = panel.selected /\ q.details = panel.details
      /\ q.detailsFrom = panel.detailsFrom /\ q.detailsError = panel.detailsError
  <2>1. 1 \in 1 .. Pages
    BY ConsoleAssumption
  <2>2. QED
    BY <1>2, <1>3, <2>1 DEF PanelHooks
<1>6. Effects(q, ask, read, late) /\ Elsewhere
  BY <1>1, <1>2 DEF SetFilter, Elsewhere
<1>7. ListKey(q) # ListKey(panel)
  <2>1. q.filter = f
    BY <1>2, <1>3 DEF PanelHooks
  <2>2. QED
    BY <1>4, <2>1 DEF ListKey
<1>8. QED
  BY <1>3, <1>5, <1>6, <1>7, SameDetails, PanelMoves

LEMMA PageSet ==
  ASSUME ConsoleInv, SetPage
  PROVE  ConsoleInv'
<1>1. PICK page \in {CurrentPage(panel) - 1, CurrentPage(panel) + 1} \cap 1 .. panel.pages :
        Effects([panel EXCEPT !.page = page], ask, read, late)
  BY DEF SetPage
<1>2. PICK q : q = [panel EXCEPT !.page = page]
  OBVIOUS
<1>3. panel \in PanelHooks /\ PanelFits
  BY DEF ConsoleInv, PanelFits
<1>4. page \in 1 .. Pages
  BY <1>1, <1>3, ConsoleAssumption DEF PanelHooks
<1>5. /\ q \in PanelHooks
      /\ q.reloaded = panel.reloaded /\ q.selected = panel.selected /\ q.details = panel.details
      /\ q.detailsFrom = panel.detailsFrom /\ q.detailsError = panel.detailsError
      /\ q.shown = panel.shown /\ q.listFrom = panel.listFrom /\ q.listError = panel.listError
  BY <1>2, <1>3, <1>4 DEF PanelHooks
<1>6. Effects(q, ask, read, late) /\ Elsewhere
  BY <1>1, <1>2 DEF SetPage, Elsewhere
<1>7. QED
  BY <1>3, <1>5, <1>6, SameList, SameDetails, PanelMoves

LEMMA RowSelected ==
  ASSUME ConsoleInv, Select
  PROVE  ConsoleInv'
<1>1. PICK id \in Range(panel.items) \ {panel.selected} :
        Effects(Selection([panel EXCEPT !.selected = id]), ask, read, late)
  BY DEF Select
<1>2. panel \in PanelHooks /\ PanelFits
  BY DEF ConsoleInv, PanelFits
<1>3. panel.items \in Lists /\ id \in Items
  BY <1>1, <1>2 DEF PanelHooks, Items, Range
<1>4. PICK p : p = [panel EXCEPT !.selected = id]
  OBVIOUS
<1>5. /\ p \in PanelHooks /\ p.selected = id /\ p.items = panel.items
      /\ p.page = panel.page /\ p.pages = panel.pages /\ p.filter = panel.filter
      /\ p.refreshed = panel.refreshed /\ p.reloaded = panel.reloaded
      /\ p.shown = panel.shown /\ p.listFrom = panel.listFrom /\ p.listError = panel.listError
  BY <1>2, <1>3, <1>4 DEF PanelHooks
<1>6. Selection(p) = p
  BY <1>1, <1>3, <1>5, ConsoleAssumption DEF Selection
<1>7. Effects(p, ask, read, late) /\ Elsewhere
  BY <1>1, <1>4, <1>6 DEF Select, Elsewhere
<1>8. DetailsKey(p) # DetailsKey(panel)
  BY <1>1, <1>5 DEF DetailsKey
<1>9. ListKey(p) = ListKey(panel)
  BY <1>5, KeyDepends
<1>10. QED
  BY <1>2, <1>5, <1>7, <1>8, <1>9, SameList, PanelMoves

(* An answer that comes too late changes nothing the operator sees.        *)
LEMMA LateAnswer ==
  ASSUME ConsoleInv, NEW l, Effects(panel, ask, read, l), Elsewhere
  PROVE  ConsoleInv'
<1>1. panel \in PanelHooks /\ PanelFits
  BY DEF ConsoleInv, PanelFits
<1>2. QED
  BY <1>1, SameList, SameDetails, PanelMoves

(* The details that stay over a new list.                                  *)
LEMMA SelectionKeepsDetails ==
  ASSUME ConsoleInv, NEW p \in PanelHooks, NEW q, q = Selection(p),
         p.selected = panel.selected, p.details = panel.details,
         p.detailsFrom = panel.detailsFrom, p.detailsError <=> panel.detailsError,
         DetailsKey(q) = DetailsKey(panel)
  PROVE  DetailsFit(q, read) /\ (Calm => DetailsFresh(q, read))
<1>1. panel \in PanelHooks /\ PanelFits
  BY DEF ConsoleInv, PanelFits
<1>2. q.selected = panel.selected
  BY DEF DetailsKey
<1>3. CASE p.items = <<>>
  <2>1. q.selected = NoItem
    BY <1>3, SelectionSays
  <2>2. read = NoRequest
    BY <1>1, <1>2, <2>1, MarkersAssumption DEF PanelFits, DetailsFit, AnyRead
  <2>3. QED
    BY <2>1, <2>2 DEF DetailsFit, DetailsFresh
<1>4. CASE p.items # <<>>
  <2>1. q.details = p.details /\ q.detailsFrom = p.detailsFrom /\ q.detailsError = p.detailsError
    BY <1>4, SelectionSays
  <2>2. QED
    BY <1>1, <1>2, <2>1, SameDetails
<1>5. QED
  BY <1>3, <1>4

(* A list answer that is not cancelled is to the request in flight, and    *)
(* unless it makes the panel ask again, it is what the panel shows.        *)
LEMMA ListLands ==
  ASSUME ConsoleInv, NEW r \in late \cup {ask, read}, ListAnswer(r)
  PROVE  ConsoleInv'
<1>1. Elsewhere /\ r \in Asks
  BY DEF ListAnswer, Elsewhere
<1>2. panel \in PanelHooks /\ PanelFits /\ written \in Nat
  BY DEF ConsoleInv, ConsoleTypes, PanelFits
<1>3. PICK l : l = late \ {r}
  OBVIOUS
<1>4. CASE Cancelled(r)
  <2>1. Effects(panel, ask, read, l)
    BY <1>3, <1>4 DEF ListAnswer
  <2>2. QED
    BY <1>1, <2>1, LateAnswer
<1>5. CASE ~Cancelled(r)
  <2>1. r = ask /\ ask # NoRequest
    <3>1. r.kind = "list" /\ r # NoRequest
      <4>1. r.kind = "list"
        BY <1>1 DEF Asks
      <4>2. r \in AnyAsk
        BY <1>1 DEF Asks, AnyAsk, AnyKey, ListKeys, Versions
      <4>3. QED
        BY <4>1, <4>2, MarkersAssumption DEF AnyAsk, AnyKey
    <3>2. r # read
      BY <1>2, <3>1 DEF PanelFits, DetailsFit, AnyRead
    <3>3. QED
      BY <1>5, <3>1, <3>2 DEF Cancelled
  <2>2. /\ r \in AnyAsk /\ r.key = ListKey(panel) /\ r.from \in Nat /\ r.from <= written
        /\ Calm => r.from >= done
    BY <1>2, <2>1 DEF PanelFits, ListFits, ListFresh, AnyAsk
  <2>3. r.key.page = CurrentPage(panel)
    BY <2>2 DEF ListKey
  <2>4. \/ Effects(Selection([panel EXCEPT !.items = <<>>, !.pages = 0, !.listError = TRUE]),
                   NoRequest, read, l)
        \/ \E pages \in 1 .. r.key.page - 1 :
             Effects([panel EXCEPT !.page = pages], NoRequest, read, l)
        \/ \E items \in Lists \cup {<<>>}, pages \in 0 .. Pages, version \in r.from .. written :
             /\ IF items = <<>> THEN pages = 0 ELSE pages >= r.key.page
             /\ Effects(Selection([panel EXCEPT !.items = items, !.pages = pages,
                                                !.shown = r.key, !.listFrom = version]),
                        NoRequest, read, l)
    BY <1>3, <1>5, <2>1 DEF ListAnswer, Landed
  <2>5. CASE Effects(Selection([panel EXCEPT !.items = <<>>, !.pages = 0, !.listError = TRUE]),
                     NoRequest, read, l)
    <3>1. PICK p : p = [panel EXCEPT !.items = <<>>, !.pages = 0, !.listError = TRUE]
      OBVIOUS
    <3>2. /\ p \in PanelHooks /\ p.listError
          /\ p.reloaded = panel.reloaded /\ p.selected = panel.selected
          /\ p.details = panel.details /\ p.detailsFrom = panel.detailsFrom
          /\ p.detailsError = panel.detailsError
      <4>1. 0 \in 0 .. Pages /\ <<>> \in Lists \cup {<<>>} /\ TRUE \in BOOLEAN
        BY ConsoleAssumption
      <4>2. PICK none : none = <<>>
        OBVIOUS
      <4>3. p = [panel EXCEPT !.items = none, !.pages = 0, !.listError = TRUE]
        BY <3>1, <4>2
      <4>4. none \in Lists \cup {<<>>}
        BY <4>1, <4>2
      <4>5. QED
        BY <1>2, <4>1, <4>3, <4>4 DEF PanelHooks
    <3>3. PICK q : q = Selection(p)
      OBVIOUS
    <3>4. q \in PanelHooks /\ q.listError = p.listError /\ q.reloaded = p.reloaded
      BY <3>2, <3>3, SelectionSays
    <3>5. ListFits(q, NoRequest) /\ ListFresh(q, NoRequest)
      BY <3>2, <3>4 DEF ListFits, ListFresh
    <3>6. Effects(q, NoRequest, read, l)
      BY <2>5, <3>1, <3>3
    <3>7. QED
      BY <1>1, <3>2, <3>3, <3>4, <3>5, <3>6, SelectionKeepsDetails, PanelMoves
  <2>6. CASE \E pages \in 1 .. r.key.page - 1 :
               Effects([panel EXCEPT !.page = pages], NoRequest, read, l)
    <3>1. PICK pages \in 1 .. r.key.page - 1 :
            Effects([panel EXCEPT !.page = pages], NoRequest, read, l)
      BY <2>6
    <3>2. PICK q : q = [panel EXCEPT !.page = pages]
      OBVIOUS
    <3>3. CurrentPage(panel) \in 1 .. Pages
      BY <1>2, PageFacts
    <3>4. pages \in 1 .. Pages /\ pages < CurrentPage(panel)
      BY <2>3, <3>1, <3>3, ConsoleAssumption
    <3>5. /\ q \in PanelHooks /\ q.page = pages
          /\ q.reloaded = panel.reloaded /\ q.selected = panel.selected
          /\ q.details = panel.details /\ q.detailsFrom = panel.detailsFrom
          /\ q.detailsError = panel.detailsError
      BY <1>2, <3>2, <3>4 DEF PanelHooks
    <3>6. CurrentPage(q) # CurrentPage(panel)
      BY <3>3, <3>4, <3>5, PageFacts, ConsoleAssumption
    <3>7. ListKey(q) # ListKey(panel)
      BY <3>6 DEF ListKey
    <3>8. Effects(q, NoRequest, read, l)
      BY <3>1, <3>2
    <3>9. QED
      BY <1>1, <1>2, <3>5, <3>7, <3>8, SameDetails, PanelMoves
  <2>7. CASE \E items \in Lists \cup {<<>>}, pages \in 0 .. Pages, version \in r.from .. written :
               /\ IF items = <<>> THEN pages = 0 ELSE pages >= r.key.page
               /\ Effects(Selection([panel EXCEPT !.items = items, !.pages = pages,
                                                  !.shown = r.key, !.listFrom = version]),
                          NoRequest, read, l)
    <3>1. PICK items \in Lists \cup {<<>>}, pages \in 0 .. Pages, version \in r.from .. written :
            Effects(Selection([panel EXCEPT !.items = items, !.pages = pages,
                                            !.shown = r.key, !.listFrom = version]),
                    NoRequest, read, l)
      BY <2>7
    <3>2. PICK p : p = [panel EXCEPT !.items = items, !.pages = pages,
                                     !.shown = r.key, !.listFrom = version]
      OBVIOUS
    <3>3. version \in Nat /\ version >= r.from /\ r.key \in AnyKey
      BY <1>2, <2>2, <3>1 DEF AnyAsk
    <3>4. /\ p \in PanelHooks /\ p.shown = r.key /\ p.listFrom = version
          /\ p.reloaded = panel.reloaded /\ p.selected = panel.selected
          /\ p.details = panel.details /\ p.detailsFrom = panel.detailsFrom
          /\ p.detailsError = panel.detailsError
      BY <1>2, <3>1, <3>2, <3>3 DEF PanelHooks
    <3>5. PICK q : q = Selection(p)
      OBVIOUS
    <3>6. /\ q \in PanelHooks /\ q.reloaded = p.reloaded
          /\ q.shown = p.shown /\ q.listFrom = p.listFrom
      BY <3>4, <3>5, SelectionSays
    <3>7. ASSUME ListKey(q) = ListKey(panel)
          PROVE  ListFits(q, NoRequest) /\ (Calm => ListFresh(q, NoRequest))
      <4>1. Calm => version >= done
        BY <2>2, <3>3 DEF ConsoleInv, ConsoleTypes
      <4>2. QED
        BY <2>2, <3>4, <3>6, <3>7, <4>1 DEF ListFits, ListFresh
    <3>8. Effects(q, NoRequest, read, l)
      BY <3>1, <3>2, <3>5
    <3>9. QED
      BY <1>1, <3>4, <3>5, <3>6, <3>7, <3>8, SelectionKeepsDetails, PanelMoves
  <2>8. QED
    BY <2>4, <2>5, <2>6, <2>7
<1>6. QED
  BY <1>4, <1>5

(* The same for the details.                                               *)
LEMMA DetailsLand ==
  ASSUME ConsoleInv, NEW r \in late \cup {ask, read}, DetailsAnswer(r)
  PROVE  ConsoleInv'
<1>1. Elsewhere /\ r \in Reads
  BY DEF DetailsAnswer, Elsewhere
<1>2. panel \in PanelHooks /\ PanelFits /\ written \in Nat
  BY DEF ConsoleInv, ConsoleTypes, PanelFits
<1>3. PICK l : l = late \ {r}
  OBVIOUS
<1>4. CASE Cancelled(r)
  <2>1. Effects(panel, ask, read, l)
    BY <1>3, <1>4 DEF DetailsAnswer
  <2>2. QED
    BY <1>1, <2>1, LateAnswer
<1>5. CASE ~Cancelled(r)
  <2>1. r = read /\ read # NoRequest
    <3>1. r.kind = "details" /\ r # NoRequest
      <4>1. r.kind = "details" /\ r \in AnyRead
        BY <1>1 DEF Reads, AnyRead, Versions
      <4>2. QED
        BY <4>1, MarkersAssumption DEF AnyRead
    <3>2. r # ask
      BY <1>2, <3>1 DEF PanelFits, ListFits, AnyAsk
    <3>3. QED
      BY <1>5, <3>1, <3>2 DEF Cancelled
  <2>2. /\ r.id = panel.selected /\ r.id \in Items /\ r.from \in Nat /\ r.from <= written
        /\ Calm => r.from >= done
    BY <1>2, <2>1 DEF PanelFits, DetailsFit, DetailsFresh, AnyRead
  <2>3. \/ Effects([panel EXCEPT !.details = NoItem, !.detailsError = TRUE,
                                 !.detailsLoading = FALSE], ask, NoRequest, l)
        \/ \E version \in r.from .. written :
             Effects([panel EXCEPT !.details = r.id, !.detailsFrom = version,
                                   !.detailsLoading = FALSE], ask, NoRequest, l)
    BY <1>3, <1>5, <2>1 DEF DetailsAnswer, Landed
  <2>4. CASE Effects([panel EXCEPT !.details = NoItem, !.detailsError = TRUE,
                                   !.detailsLoading = FALSE], ask, NoRequest, l)
    <3>1. PICK q : q = [panel EXCEPT !.details = NoItem, !.detailsError = TRUE,
                                     !.detailsLoading = FALSE]
      OBVIOUS
    <3>2. /\ q \in PanelHooks /\ q.detailsError
          /\ q.page = panel.page /\ q.pages = panel.pages /\ q.filter = panel.filter
          /\ q.refreshed = panel.refreshed /\ q.reloaded = panel.reloaded
          /\ q.shown = panel.shown /\ q.listFrom = panel.listFrom
          /\ q.listError = panel.listError
      BY <1>2, <3>1 DEF PanelHooks
    <3>3. DetailsFit(q, NoRequest) /\ DetailsFresh(q, NoRequest)
      BY <3>2 DEF DetailsFit, DetailsFresh
    <3>4. ListKey(q) = ListKey(panel)
      BY <3>2, KeyDepends
    <3>5. Effects(q, ask, NoRequest, l)
      BY <2>4, <3>1
    <3>6. QED
      BY <1>1, <1>2, <3>2, <3>3, <3>4, <3>5, SameList, PanelMoves
  <2>5. CASE \E version \in r.from .. written :
               Effects([panel EXCEPT !.details = r.id, !.detailsFrom = version,
                                     !.detailsLoading = FALSE], ask, NoRequest, l)
    <3>1. PICK version \in r.from .. written :
            Effects([panel EXCEPT !.details = r.id, !.detailsFrom = version,
                                  !.detailsLoading = FALSE], ask, NoRequest, l)
      BY <2>5
    <3>2. PICK q : q = [panel EXCEPT !.details = r.id, !.detailsFrom = version,
                                     !.detailsLoading = FALSE]
      OBVIOUS
    <3>3. version \in Nat /\ (Calm => version >= done)
      BY <1>2, <2>2, <3>1 DEF ConsoleInv, ConsoleTypes
    <3>4. /\ q \in PanelHooks
          /\ q.selected = panel.selected /\ q.details = r.id /\ q.detailsFrom = version
          /\ q.page = panel.page /\ q.pages = panel.pages /\ q.filter = panel.filter
          /\ q.refreshed = panel.refreshed /\ q.reloaded = panel.reloaded
          /\ q.shown = panel.shown /\ q.listFrom = panel.listFrom
          /\ q.listError = panel.listError
      BY <1>2, <2>2, <3>2, <3>3 DEF PanelHooks
    <3>5. DetailsFit(q, NoRequest) /\ (Calm => DetailsFresh(q, NoRequest))
      BY <2>2, <3>3, <3>4 DEF DetailsFit, DetailsFresh
    <3>6. ListKey(q) = ListKey(panel)
      BY <3>4, KeyDepends
    <3>7. Effects(q, ask, NoRequest, l)
      BY <3>1, <3>2
    <3>8. QED
      BY <1>1, <1>2, <3>4, <3>5, <3>6, <3>7, SameList, PanelMoves
  <2>6. QED
    BY <2>3, <2>4, <2>5
<1>6. QED
  BY <1>4, <1>5

(* A regenerate makes the panel load again, whatever it showed.            *)
LEMMA Regenerated ==
  ASSUME ConsoleInv, RegenerateAnswer
  PROVE  ConsoleInv'
<1>1. panel \in PanelHooks /\ PanelFits /\ ConsoleTypes
  BY DEF ConsoleInv, PanelFits
<1>2. regenerate \in Items /\ regenerate' = NoItem /\ UNCHANGED <<act, app, overlapped>>
  BY <1>1 DEF RegenerateAnswer, ConsoleTypes
<1>3. Calm' <=> Calm
  BY <1>2 DEF Calm, Quiet
<1>4. CASE Effects(panel, ask, read, late) /\ UNCHANGED <<written, done>>
  <2>1. PanelFits'
    BY <1>1, <1>3, <1>4, SameList, SameDetails, EffectsKeep
  <2>2. panel'.reloaded = panel.reloaded
    BY <1>1, <1>4, EffectsSay
  <2>3. ConsoleTypes'
    BY <1>1, <1>2, <1>4 DEF ConsoleTypes
  <2>4. ViewFits'
    BY <1>2, <1>3, <1>4, <2>2 DEF ConsoleInv, ViewFits
  <2>5. QED
    BY <2>1, <2>3, <2>4 DEF ConsoleInv
<1>5. CASE ~(Effects(panel, ask, read, late) /\ UNCHANGED <<written, done>>)
  <2>1. PICK q : q = [panel EXCEPT !.details = regenerate, !.detailsFrom = written',
                                   !.reloaded = panel.reloaded + 1]
    OBVIOUS
  <2>2. /\ written' = written + 1 /\ done' = written'
        /\ panel' = [q EXCEPT !.listError = FALSE,
                              !.detailsError = q.detailsError /\ q.selected = NoItem,
                              !.detailsLoading = q.detailsLoading \/ q.selected # NoItem]
        /\ ask' = [kind |-> "list", key |-> ListKey(q), from |-> written']
        /\ read' = IF q.selected = NoItem THEN NoRequest
                   ELSE [kind |-> "details", id |-> q.selected, from |-> written']
    BY <1>5, <2>1, Zenon DEF RegenerateAnswer
  <2>3. written \in Nat /\ written' \in Nat /\ done' \in Nat /\ done' <= written'
    BY <1>1, <2>2 DEF ConsoleTypes
  <2>4. q \in PanelHooks /\ q.reloaded > 0
    <3>1. PICK n \in Nat : n = panel.reloaded + 1 /\ n > 0
      BY <1>1 DEF PanelHooks
    <3>2. q = [panel EXCEPT !.details = regenerate, !.detailsFrom = written', !.reloaded = n]
      BY <2>1, <3>1
    <3>3. QED
      BY <1>1, <1>2, <2>3, <3>1, <3>2 DEF PanelHooks
  <2>5. PICK f \in BOOLEAN : f = (q.detailsError /\ q.selected = NoItem)
    OBVIOUS
  <2>6. PICK g \in BOOLEAN : g = (q.detailsLoading \/ q.selected # NoItem)
    OBVIOUS
  <2>7. panel' = [q EXCEPT !.listError = FALSE, !.detailsError = f, !.detailsLoading = g]
    BY <2>2, <2>5, <2>6
  <2>8. /\ panel' \in PanelHooks /\ panel'.reloaded > 0 /\ panel'.selected = q.selected
        /\ panel'.page = q.page /\ panel'.pages = q.pages /\ panel'.filter = q.filter
        /\ panel'.refreshed = q.refreshed /\ panel'.reloaded = q.reloaded
    BY <2>4, <2>7 DEF PanelHooks
  <2>9. ListKey(panel)' = ListKey(q)
    BY <2>8 DEF ListKey, CurrentPage
  <2>10. ListFits(panel, ask)' /\ ListFresh(panel, ask)'
    <3>1. PICK s : s = [kind |-> "list", key |-> ListKey(q), from |-> written']
      OBVIOUS
    <3>2. s \in AnyAsk /\ s.key = ListKey(q) /\ s.from = written' /\ ask' = s
      BY <2>2, <2>3, <2>4, <3>1, PageFacts DEF AnyAsk
    <3>3. s # NoRequest
      BY <3>2, MarkersAssumption DEF AnyAsk, AnyKey
    <3>4. QED
      BY <2>2, <2>3, <2>9, <3>2, <3>3 DEF ListFits, ListFresh
  <2>11. DetailsFit(panel, read)' /\ DetailsFresh(panel, read)'
    <3>1. CASE q.selected = NoItem
      BY <2>2, <2>8, <3>1 DEF DetailsFit, DetailsFresh
    <3>2. CASE q.selected # NoItem
      <4>1. PICK s : s = [kind |-> "details", id |-> q.selected, from |-> written']
        OBVIOUS
      <4>2. s \in AnyRead /\ s.id = q.selected /\ s.from = written' /\ read' = s
        BY <2>2, <2>3, <2>4, <3>2, <4>1 DEF AnyRead, PanelHooks
      <4>3. s # NoRequest
        BY <4>2, MarkersAssumption DEF AnyRead
      <4>4. QED
        BY <2>2, <2>3, <2>8, <4>2, <4>3 DEF DetailsFit, DetailsFresh
    <3>3. QED
      BY <3>1, <3>2
  <2>12. ConsoleTypes'
    <3>1. \A a \in Acts : act[a].from \in Nat /\ act[a].from <= written'
      BY <1>1, <2>2, <2>3 DEF ConsoleTypes
    <3>2. QED
      BY <1>1, <1>2, <2>3, <3>1 DEF ConsoleTypes
  <2>13. PanelFits' /\ ViewFits'
    BY <2>8, <2>10, <2>11 DEF PanelFits, ViewFits
  <2>14. QED
    BY <2>12, <2>13 DEF ConsoleInv
<1>6. QED
  BY <1>4, <1>5

(* Actions and refreshes, whose answers reach the panel with the next      *)
(* version only: until then nothing is promised, or what was stays.        *)
LEMMA ActionsMove ==
  ASSUME ConsoleInv, ConsoleTypes', UNCHANGED <<panel, ask, read>>,
         written' >= written, Calm' => Calm /\ done' = done, ViewFits'
  PROVE  ConsoleInv'
<1>1. panel' = panel /\ ask' = ask /\ read' = read /\ ListKey(panel)' = ListKey(panel)
  BY DEF ListKey, CurrentPage
<1>2. ask # NoRequest => ask.from \in Nat /\ ask.from <= written'
  BY DEF ConsoleInv, PanelFits, ListFits, AnyAsk, ConsoleTypes
<1>3. read # NoRequest => read.from \in Nat /\ read.from <= written'
  BY DEF ConsoleInv, PanelFits, DetailsFit, AnyRead, ConsoleTypes
<1>4. ListFits(panel, ask)' /\ DetailsFit(panel, read)'
  BY <1>1, <1>2, <1>3 DEF ConsoleInv, PanelFits, ListFits, DetailsFit
<1>5. Calm' => ListFresh(panel, ask)' /\ DetailsFresh(panel, read)'
  BY <1>1 DEF ConsoleInv, PanelFits, ListFresh, DetailsFresh
<1>6. QED
  BY <1>1, <1>4, <1>5 DEF ConsoleInv, PanelFits

(* A refresh begins: it will show what is written by now.                  *)
LEMMA RefreshBegins ==
  ASSUME ConsoleInv, NEW a \in Acts, Refreshing(a),
         UNCHANGED <<panel, ask, read, regenerate, written>>,
         app' = [app EXCEPT !.error = FALSE, !.isLoading = TRUE],
         done' \in Nat, done' <= written
  PROVE  ConsoleInv'
<1>1. ConsoleTypes /\ ViewFits
  BY DEF ConsoleInv
<1>2. act' = [act EXCEPT ![a] = [stage |-> "refreshing", from |-> written]]
  BY DEF Refreshing
<1>3. /\ act' \in [Acts -> [stage : {"idle", "sent", "written", "refreshing"}, from : Nat]]
      /\ act'[a].stage = "refreshing" /\ act'[a].from = written
      /\ \A b \in Acts \ {a} : act'[b] = act[b]
  BY <1>1, <1>2 DEF ConsoleTypes
<1>4. overlapped' \in BOOLEAN
      /\ (~overlapped' => ~overlapped /\ \A b \in Acts \ {a} : act[b].stage # "refreshing")
  BY <1>1 DEF Refreshing, ConsoleTypes
<1>5. app' \in [error : BOOLEAN, isLoading : BOOLEAN, view : Nat]
  BY <1>1 DEF ConsoleTypes
<1>6. ConsoleTypes'
  BY <1>1, <1>3, <1>4, <1>5 DEF ConsoleTypes
<1>7. ~Calm'
  BY <1>3 DEF Calm, Quiet
<1>8. ViewFits'
  BY <1>1, <1>3, <1>4, <1>7 DEF ViewFits, ConsoleTypes
<1>9. QED
  BY <1>1, <1>6, <1>7, <1>8, ActionsMove DEF ConsoleTypes

(* An action's request, its write and its failure.                         *)
LEMMA ActionStages ==
  ASSUME ConsoleInv, NEW a \in Acts, RunAction(a) \/ ServerWrites(a) \/ ActionFails(a)
  PROVE  ConsoleInv'
<1>1. ConsoleTypes /\ ViewFits
  BY DEF ConsoleInv
<1>2. UNCHANGED <<panel, ask, read, regenerate, done, overlapped>>
  BY DEF RunAction, ServerWrites, ActionFails
<1>3. written \in Nat /\ done \in Nat /\ done <= written
  BY <1>1 DEF ConsoleTypes
<1>4. CASE RunAction(a)
  <2>1. /\ act[a].stage = "idle" /\ act' = [act EXCEPT ![a].stage = "sent"]
        /\ app' = [app EXCEPT !.error = FALSE, !.isLoading = TRUE] /\ written' = written
    BY <1>4 DEF RunAction
  <2>2. /\ act' \in [Acts -> [stage : {"idle", "sent", "written", "refreshing"}, from : Nat]]
        /\ act'[a].stage = "sent" /\ act'[a].from = act[a].from
        /\ \A b \in Acts \ {a} : act'[b] = act[b]
    BY <1>1, <2>1 DEF ConsoleTypes
  <2>3. app' \in [error : BOOLEAN, isLoading : BOOLEAN, view : Nat]
    BY <1>1, <2>1 DEF ConsoleTypes
  <2>4. ConsoleTypes'
    BY <1>1, <1>2, <2>1, <2>2, <2>3 DEF ConsoleTypes
  <2>5. ~Calm'
    BY <2>2 DEF Calm, Quiet
  <2>6. ViewFits'
    BY <1>1, <1>2, <2>2, <2>5 DEF ViewFits
  <2>7. QED
    BY <1>2, <1>3, <2>1, <2>4, <2>5, <2>6, ActionsMove
<1>5. CASE ServerWrites(a)
  <2>1. /\ written' = written + 1
        /\ act' = [act EXCEPT ![a] = [stage |-> "written", from |-> written']]
        /\ app' = app
    BY <1>5 DEF ServerWrites
  <2>2. written' \in Nat /\ written' >= written
    BY <1>3, <2>1
  <2>3. /\ act' \in [Acts -> [stage : {"idle", "sent", "written", "refreshing"}, from : Nat]]
        /\ act'[a].stage = "written" /\ act'[a].from = written'
        /\ \A b \in Acts \ {a} : act'[b] = act[b]
    BY <1>1, <2>1, <2>2 DEF ConsoleTypes
  <2>4. \A b \in Acts : act'[b].from <= written'
    BY <1>1, <1>3, <2>1, <2>2, <2>3 DEF ConsoleTypes
  <2>5. ConsoleTypes'
    BY <1>1, <1>2, <1>3, <2>1, <2>2, <2>3, <2>4 DEF ConsoleTypes
  <2>6. ~Calm'
    BY <2>3 DEF Calm, Quiet
  <2>7. ViewFits'
    BY <1>1, <1>2, <2>3, <2>6 DEF ViewFits
  <2>8. QED
    BY <1>2, <2>2, <2>5, <2>6, <2>7, ActionsMove
<1>6. CASE ActionFails(a)
  <2>1. /\ act' = [act EXCEPT ![a] = [stage |-> "idle", from |-> 0]]
        /\ app' = [app EXCEPT !.error = TRUE, !.isLoading = FALSE] /\ written' = written
    BY <1>6 DEF ActionFails
  <2>2. /\ act' \in [Acts -> [stage : {"idle", "sent", "written", "refreshing"}, from : Nat]]
        /\ act'[a].stage = "idle" /\ act'[a].from = 0
        /\ \A b \in Acts \ {a} : act'[b] = act[b]
    BY <1>1, <2>1 DEF ConsoleTypes
  <2>3. app' \in [error : BOOLEAN, isLoading : BOOLEAN, view : Nat] /\ app'.error
    BY <1>1, <2>1 DEF ConsoleTypes
  <2>4. ConsoleTypes'
    BY <1>1, <1>2, <1>3, <2>1, <2>2, <2>3 DEF ConsoleTypes
  <2>5. ~Calm'
    BY <2>3 DEF Calm
  <2>6. ViewFits'
    BY <1>1, <1>2, <2>2, <2>5 DEF ViewFits
  <2>7. QED
    BY <1>2, <1>3, <2>1, <2>4, <2>5, <2>6, ActionsMove
<1>7. QED
  BY <1>4, <1>5, <1>6

LEMMA RefreshStarts ==
  ASSUME ConsoleInv, NEW a \in Acts, PressRefresh(a) \/ ActionDone(a)
  PROVE  ConsoleInv'
<1>1. /\ Refreshing(a) /\ UNCHANGED <<panel, ask, read, regenerate, written>>
      /\ app' = [app EXCEPT !.error = FALSE, !.isLoading = TRUE]
  BY DEF PressRefresh, ActionDone
<1>2. done \in Nat /\ done <= written /\ act[a].from \in Nat /\ act[a].from <= written
  BY DEF ConsoleInv, ConsoleTypes
<1>3. done' = done \/ done' = act[a].from
  BY DEF PressRefresh, ActionDone
<1>4. QED
  BY <1>1, <1>2, <1>3, RefreshBegins

(* A refresh ends: the lists are loaded again, or the page has an error.   *)
LEMMA RefreshEnds ==
  ASSUME ConsoleInv, NEW a \in Acts, RefreshAnswer(a)
  PROVE  ConsoleInv'
<1>1. ConsoleTypes /\ ViewFits /\ PanelFits /\ panel \in PanelHooks
  BY DEF ConsoleInv, PanelFits
<1>2. /\ act[a].stage = "refreshing"
      /\ act' = [act EXCEPT ![a] = [stage |-> "idle", from |-> 0]]
      /\ UNCHANGED <<regenerate, written, done, overlapped>>
  BY DEF RefreshAnswer
<1>3. /\ act' \in [Acts -> [stage : {"idle", "sent", "written", "refreshing"}, from : Nat]]
      /\ act'[a].stage = "idle" /\ act'[a].from = 0
      /\ \A b \in Acts \ {a} : act'[b] = act[b]
  BY <1>1, <1>2 DEF ConsoleTypes
<1>4. app' \in [error : BOOLEAN, isLoading : BOOLEAN, view : Nat] => ConsoleTypes'
  BY <1>1, <1>2, <1>3 DEF ConsoleTypes
<1>5. CASE /\ \E version \in act[a].from .. written :
                app' = [app EXCEPT !.view = version, !.isLoading = FALSE]
           /\ Effects([panel EXCEPT !.refreshed = panel.refreshed + 1], ask, read, late)
  <2>1. PICK version \in act[a].from .. written :
          app' = [app EXCEPT !.view = version, !.isLoading = FALSE]
    BY <1>5
  <2>2. version \in Nat /\ version >= act[a].from
    BY <1>1, <2>1 DEF ConsoleTypes
  <2>3. app' \in [error : BOOLEAN, isLoading : BOOLEAN, view : Nat] /\ app'.view = version
    BY <1>1, <2>1, <2>2 DEF ConsoleTypes
  <2>4. PICK n \in Nat : n = panel.refreshed + 1 /\ n # panel.refreshed
    BY <1>1 DEF PanelHooks
  <2>5. PICK q : q = [panel EXCEPT !.refreshed = n]
    OBVIOUS
  <2>6. q \in PanelHooks /\ q.refreshed # panel.refreshed /\ q.reloaded = panel.reloaded
    BY <1>1, <2>4, <2>5 DEF PanelHooks
  <2>7. ListKey(q) # ListKey(panel) /\ DetailsKey(q) # DetailsKey(panel)
    BY <2>6 DEF ListKey, DetailsKey
  <2>8. Effects(q, ask, read, late)
    BY <1>5, <2>4, <2>5
  <2>9. PanelFits'
    BY <1>2, <2>6, <2>7, <2>8, EffectsKeep
  <2>10. panel'.reloaded = panel.reloaded
    BY <2>6, <2>8, EffectsSay
  <2>11. ViewFits'
    <3>1. ~overlapped /\ panel.reloaded = 0 => version >= done
      BY <1>1, <1>2, <2>2 DEF ViewFits, ConsoleTypes
    <3>2. QED
      BY <1>1, <1>2, <1>3, <2>3, <2>10, <3>1 DEF ViewFits
  <2>12. QED
    BY <1>4, <2>3, <2>9, <2>11 DEF ConsoleInv
<1>6. CASE app' = [app EXCEPT !.error = TRUE, !.isLoading = FALSE] /\ UNCHANGED <<panel, ask, read>>
  <2>1. app' \in [error : BOOLEAN, isLoading : BOOLEAN, view : Nat] /\ app'.error
    BY <1>1, <1>6 DEF ConsoleTypes
  <2>2. ~Calm'
    BY <2>1 DEF Calm
  <2>3. ViewFits'
    BY <1>1, <1>2, <1>3, <1>6, <2>2 DEF ViewFits
  <2>4. written \in Nat /\ written' = written
    BY <1>1, <1>2 DEF ConsoleTypes
  <2>5. QED
    BY <1>4, <1>6, <2>1, <2>2, <2>3, <2>4, ActionsMove
<1>7. QED
  BY <1>5, <1>6 DEF RefreshAnswer

(* The invariant, for any actions, pages and lists.                        *)
LEMMA ConsoleInvariance == ConsoleSpec => []ConsoleInv
<1>1. ConsoleInit => ConsoleInv
  <2>1. SUFFICES ASSUME ConsoleInit PROVE ConsoleInv
    OBVIOUS
  <2>2. FirstKey \in AnyKey
    BY ConsoleAssumption DEF FirstKey, AnyKey
  <2>3. /\ panel \in PanelHooks /\ panel.selected = NoItem /\ panel.page = 1 /\ panel.pages = 0
        /\ panel.filter = FALSE /\ panel.refreshed = 0 /\ panel.reloaded = 0
    <3>1. 1 \in 1 .. Pages /\ 0 \in 0 .. Pages
      BY ConsoleAssumption
    <3>2. PICK none \in Lists \cup {<<>>} : none = <<>>
      OBVIOUS
    <3>3. panel = [page |-> 1, pages |-> 0, filter |-> FALSE, refreshed |-> 0, reloaded |-> 0,
                   items |-> none, listError |-> FALSE, shown |-> FirstKey, listFrom |-> 0,
                   selected |-> NoItem, details |-> NoItem, detailsFrom |-> 0,
                   detailsLoading |-> FALSE, detailsError |-> FALSE]
      BY <2>1, <3>2 DEF ConsoleInit
    <3>4. QED
      BY <2>2, <3>1, <3>3 DEF PanelHooks
  <2>4. ListKey(panel) = FirstKey
    BY <2>3 DEF ListKey, CurrentPage, FirstKey
  <2>5. written = 0 /\ done = 0 /\ read = NoRequest
    BY <2>1 DEF ConsoleInit
  <2>6. ListFits(panel, ask) /\ ListFresh(panel, ask)
    <3>1. PICK s : s = [kind |-> "list", key |-> FirstKey, from |-> 0]
      OBVIOUS
    <3>2. ask = s /\ s \in AnyAsk /\ s.key = FirstKey /\ s.from = 0
      BY <2>1, <2>2, <3>1 DEF ConsoleInit, AnyAsk
    <3>3. s # NoRequest
      BY <3>2, MarkersAssumption DEF AnyAsk, AnyKey
    <3>4. QED
      BY <2>4, <2>5, <3>2, <3>3 DEF ListFits, ListFresh
  <2>7. DetailsFit(panel, read) /\ DetailsFresh(panel, read)
    BY <2>3, <2>5 DEF DetailsFit, DetailsFresh
  <2>8. ConsoleTypes /\ ViewFits
    <3>1. \A a \in Acts : act[a] = [stage |-> "idle", from |-> 0]
      BY <2>1 DEF ConsoleInit
    <3>2. act \in [Acts -> [stage : {"idle", "sent", "written", "refreshing"}, from : Nat]]
      BY <2>1 DEF ConsoleInit
    <3>3. app \in [error : BOOLEAN, isLoading : BOOLEAN, view : Nat] /\ app.view = 0
      BY <2>1 DEF ConsoleInit
    <3>4. overlapped \in BOOLEAN /\ regenerate \in Items \cup {NoItem}
      BY <2>1 DEF ConsoleInit
    <3>5. ConsoleTypes
      <4>1. \A a \in Acts : act[a].from <= written
        BY <2>5, <3>1
      <4>2. written \in Nat /\ done \in Nat /\ done <= written
        BY <2>5
      <4>3. app \in [error : BOOLEAN, isLoading : BOOLEAN, view : Nat]
        BY <3>3
      <4>4. QED
        BY <3>2, <3>4, <4>1, <4>2, <4>3 DEF ConsoleTypes
    <3>6. ViewFits
      BY <2>5, <3>1, <3>3 DEF ViewFits
    <3>7. QED
      BY <3>5, <3>6
  <2>9. QED
    BY <2>3, <2>6, <2>7, <2>8 DEF ConsoleInv, PanelFits
<1>2. ConsoleInv /\ [ConsoleNext]_consoleVars => ConsoleInv'
  <2>1. SUFFICES ASSUME ConsoleInv, [ConsoleNext]_consoleVars PROVE ConsoleInv'
    OBVIOUS
  <2>2. CASE Regenerate
    <3>1. /\ UNCHANGED <<panel, ask, read, act, app, written, done, overlapped>>
          /\ regenerate' = panel.selected
      BY <2>2 DEF Regenerate
    <3>2. panel.selected \in Items \cup {NoItem} /\ written \in Nat
      BY <2>1 DEF ConsoleInv, PanelFits, PanelHooks, ConsoleTypes
    <3>3. ConsoleTypes'
      BY <2>1, <3>1, <3>2 DEF ConsoleInv, ConsoleTypes
    <3>4. Calm' <=> Calm
      BY <3>1 DEF Calm, Quiet
    <3>5. ViewFits'
      BY <2>1, <3>1, <3>4 DEF ConsoleInv, ViewFits
    <3>6. QED
      BY <2>1, <3>1, <3>2, <3>3, <3>4, <3>5, ActionsMove
  <2>3. CASE UNCHANGED consoleVars
    <3>1. Elsewhere /\ UNCHANGED <<panel, ask, read>>
      BY <2>3 DEF consoleVars, Elsewhere
    <3>2. ConsoleTypes' /\ written \in Nat
      BY <2>1, <3>1 DEF ConsoleInv, ConsoleTypes, Elsewhere
    <3>3. Calm' <=> Calm
      BY <3>1 DEF Calm, Quiet, Elsewhere
    <3>4. ViewFits'
      BY <2>1, <3>1, <3>3 DEF ConsoleInv, ViewFits, Elsewhere
    <3>5. QED
      BY <2>1, <3>1, <3>2, <3>3, <3>4, ActionsMove DEF Elsewhere
  <2>4. QED
    BY <2>1, <2>2, <2>3, FilterSet, PageSet, RowSelected, Regenerated, ListLands, DetailsLand,
       ActionStages, RefreshStarts, RefreshEnds DEF ConsoleNext
<1>3. QED
  BY <1>1, <1>2, PTL DEF ConsoleSpec

(* However answers overtake each other, the panel settles on what the      *)
(* operator asked for, no older than the last action reported as done (the *)
(* effects of ProvisionsPanel, EventsPanel and ConfiguratorPanel,          *)
(* runAction, refreshAll).                                                 *)
THEOREM PanelsSettle == ConsoleSpec => []PanelSettles
<1>1. ConsoleInv => PanelSettles
  <2>1. SUFFICES ASSUME ConsoleInv PROVE PanelSettles
    OBVIOUS
  <2>2. ListFits(panel, ask) /\ DetailsFit(panel, read)
        /\ (Calm => ListFresh(panel, ask) /\ DetailsFresh(panel, read))
    BY <2>1 DEF ConsoleInv, PanelFits
  <2>3. panel.reloaded \in Nat /\ ViewFits
    BY <2>1 DEF ConsoleInv, PanelFits, PanelHooks
  <2>4. Quiet /\ ~app.error => Calm
    BY DEF Calm
  <2>5. Calm /\ ~overlapped => app.view >= done \/ panel.reloaded > 0
    BY <2>3 DEF ViewFits
  <2>6. QED
    BY <2>2, <2>4, <2>5 DEF PanelSettles, ListFits, DetailsFit, ListFresh, DetailsFresh
<1>2. QED
  BY <1>1, ConsoleInvariance, PTL

(* Every write and every new version of the panel was paid for by a move   *)
(* of the operator: what is on its way to one is counted with it.          *)
SentActs == {a \in Acts : act[a].stage = "sent"}
BusyActs == {a \in Acts : act[a].stage # "idle"}
Pending == IF regenerate # NoItem THEN 1 ELSE 0

MovesCover ==
  /\ moves \in 0 .. MaxMoves
  /\ IsFiniteSet(BusyActs)
  /\ written + Cardinality(SentActs) + Pending <= moves
  /\ panel.refreshed + Cardinality(BusyActs) <= moves
  /\ panel.reloaded + Pending <= moves
  /\ app.view <= written
  /\ late \subseteq Asks \cup Reads

(* One more, or one less.                                                  *)
LEMMA OneMoreOrLess ==
  ASSUME NEW S, IsFiniteSet(S), NEW a
  PROVE  /\ IsFiniteSet(S \cup {a}) /\ IsFiniteSet(S \ {a}) /\ Cardinality(S) \in Nat
         /\ Cardinality(S \cup {a}) = Cardinality(S) + (IF a \in S THEN 0 ELSE 1)
         /\ Cardinality(S \ {a}) = Cardinality(S) - (IF a \in S THEN 1 ELSE 0)
<1>1. Cardinality(S) \in Nat
  BY FS_CardinalityType
<1>2. /\ IsFiniteSet(S \cup {a})
      /\ Cardinality(S \cup {a}) = IF a \in S THEN Cardinality(S) ELSE Cardinality(S) + 1
  BY FS_AddElement
<1>3. /\ IsFiniteSet(S \ {a})
      /\ Cardinality(S \ {a}) = IF a \in S THEN Cardinality(S) - 1 ELSE Cardinality(S)
  BY FS_RemoveElement
<1>4. QED
  BY <1>1, <1>2, <1>3

(* What actions are under way when one of them goes on to a stage.         *)
LEMMA StageCounts ==
  ASSUME ConsoleTypes, IsFiniteSet(BusyActs), NEW a \in Acts, NEW x,
         act' = [act EXCEPT ![a] = x]
  PROVE  /\ IsFiniteSet(BusyActs)' /\ Cardinality(SentActs) \in Nat
         /\ Cardinality(BusyActs) \in Nat
         /\ Cardinality(SentActs)' = Cardinality(SentActs)
              + (IF x.stage = "sent" THEN 1 ELSE 0) - (IF act[a].stage = "sent" THEN 1 ELSE 0)
         /\ Cardinality(BusyActs)' = Cardinality(BusyActs)
              + (IF x.stage # "idle" THEN 1 ELSE 0) - (IF act[a].stage # "idle" THEN 1 ELSE 0)
<1>1. SentActs \subseteq BusyActs
  BY DEF SentActs, BusyActs
<1>2. IsFiniteSet(SentActs)
  BY <1>1, FS_Subset
<1>3. act'[a] = x /\ \A b \in Acts \ {a} : act'[b] = act[b]
  BY DEF ConsoleTypes
<1>4. SentActs' = IF x.stage = "sent" THEN SentActs \cup {a} ELSE SentActs \ {a}
  BY <1>3 DEF SentActs
<1>5. BusyActs' = IF x.stage # "idle" THEN BusyActs \cup {a} ELSE BusyActs \ {a}
  BY <1>3 DEF BusyActs
<1>6. a \in SentActs <=> act[a].stage = "sent"
  BY DEF SentActs
<1>7. a \in BusyActs <=> act[a].stage # "idle"
  BY DEF BusyActs
<1>8. PICK S, B : S = SentActs /\ B = BusyActs
  OBVIOUS
<1>9. /\ IsFiniteSet(B \cup {a}) /\ IsFiniteSet(B \ {a})
      /\ Cardinality(S) \in Nat /\ Cardinality(B) \in Nat
      /\ Cardinality(S \cup {a}) = Cardinality(S) + (IF a \in S THEN 0 ELSE 1)
      /\ Cardinality(S \ {a}) = Cardinality(S) - (IF a \in S THEN 1 ELSE 0)
      /\ Cardinality(B \cup {a}) = Cardinality(B) + (IF a \in B THEN 0 ELSE 1)
      /\ Cardinality(B \ {a}) = Cardinality(B) - (IF a \in B THEN 1 ELSE 0)
  BY <1>2, <1>8, OneMoreOrLess
<1>10. Cardinality(SentActs)' = Cardinality(S)
              + (IF x.stage = "sent" THEN 1 ELSE 0) - (IF act[a].stage = "sent" THEN 1 ELSE 0)
  BY <1>4, <1>6, <1>8, <1>9
<1>11. Cardinality(BusyActs)' = Cardinality(B)
              + (IF x.stage # "idle" THEN 1 ELSE 0) - (IF act[a].stage # "idle" THEN 1 ELSE 0)
  BY <1>5, <1>7, <1>8, <1>9
<1>12. IsFiniteSet(BusyActs)'
  BY <1>5, <1>8, <1>9
<1>13. QED
  BY <1>8, <1>9, <1>10, <1>11, <1>12

(* The panel's versions, and the requests still to be answered, of a       *)
(* handler that loads nothing again by itself.                             *)
HasVersions(q) == {"refreshed", "reloaded"} \subseteq DOMAIN q
LateAtMost == late' \subseteq late \cup ({ask, read} \ {NoRequest})
VersionsStay ==
  /\ panel'.refreshed = panel.refreshed /\ panel'.reloaded = panel.reloaded
  /\ LateAtMost

SameVersions(q) ==
  HasVersions(q) /\ q.refreshed = panel.refreshed /\ q.reloaded = panel.reloaded

(* What the effects make of versions and cancelled requests.               *)
LEMMA EffectsCount ==
  ASSUME NEW q, HasVersions(q), NEW a \in {ask, NoRequest}, NEW r \in {read, NoRequest},
         NEW l \in SUBSET late, Effects(q, a, r, l)
  PROVE  /\ panel'.refreshed = q.refreshed /\ panel'.reloaded = q.reloaded
         /\ LateAtMost
<1>1. PICK e, f, g : panel' = [q EXCEPT !.listError = e, !.detailsLoading = f, !.detailsError = g]
  BY DEF Effects
<1>2. panel'.refreshed = q.refreshed /\ panel'.reloaded = q.reloaded
  BY <1>1 DEF HasVersions
<1>3. late' \subseteq (l \cup {a} \cup {r}) \ {NoRequest}
  BY DEF Effects
<1>4. LateAtMost
  BY <1>3 DEF LateAtMost
<1>5. QED
  BY <1>2, <1>4

(* The selection is no version.                                            *)
LEMMA SelectionCounts ==
  ASSUME NEW q, HasVersions(q)
  PROVE  /\ HasVersions(Selection(q))
         /\ Selection(q).refreshed = q.refreshed /\ Selection(q).reloaded = q.reloaded
<1>1. PICK p : p = Selection(q)
  OBVIOUS
<1>2. \/ p = q
      \/ \E id : p = [q EXCEPT !.selected = id]
      \/ p = [q EXCEPT !.selected = NoItem, !.details = NoItem, !.detailsError = FALSE]
  BY <1>1 DEF Selection
<1>3. HasVersions(p) /\ p.refreshed = q.refreshed /\ p.reloaded = q.reloaded
  BY <1>2 DEF HasVersions
<1>4. QED
  BY <1>1, <1>3

(* The operator's moves about the panel, and the answers.                  *)
LEMMA HandlersCount ==
  ASSUME ConsoleInv
  PROVE  /\ SetFilter \/ SetPage \/ Select => VersionsStay
         /\ \A r \in late \cup {ask, read} : ListAnswer(r) \/ DetailsAnswer(r) => VersionsStay
<1>1. HasVersions(panel)
  BY DEF ConsoleInv, PanelFits, PanelHooks, HasVersions
<1>2. SetFilter => VersionsStay
  <2>1. PICK f, q : f = ~panel.filter /\ q = [panel EXCEPT !.filter = f, !.page = 1]
    OBVIOUS
  <2>2. SameVersions(q)
    BY <1>1, <2>1 DEF HasVersions, SameVersions
  <2>3. SetFilter => Effects(q, ask, read, late)
    BY <2>1 DEF SetFilter
  <2>4. QED
    BY <2>2, <2>3, EffectsCount DEF VersionsStay, SameVersions
<1>3. SetPage => VersionsStay
  <2>1. SUFFICES ASSUME SetPage PROVE VersionsStay
    OBVIOUS
  <2>2. PICK q : (\E page : q = [panel EXCEPT !.page = page]) /\ Effects(q, ask, read, late)
    BY <2>1 DEF SetPage
  <2>3. SameVersions(q)
    BY <1>1, <2>2 DEF HasVersions, SameVersions
  <2>4. QED
    BY <2>2, <2>3, EffectsCount DEF VersionsStay, SameVersions
<1>4. Select => VersionsStay
  <2>1. SUFFICES ASSUME Select PROVE VersionsStay
    OBVIOUS
  <2>2. PICK q : /\ \E id : q = [panel EXCEPT !.selected = id]
                 /\ Effects(Selection(q), ask, read, late)
    BY <2>1 DEF Select
  <2>3. SameVersions(q)
    BY <1>1, <2>2 DEF HasVersions, SameVersions
  <2>4. QED
    BY <2>2, <2>3, SelectionCounts, EffectsCount DEF VersionsStay, SameVersions
<1>5. ASSUME NEW r \in late \cup {ask, read}, ListAnswer(r) PROVE VersionsStay
  <2>1. PICK a, l : a = Landed(r, ask) /\ l = late \ {r}
    OBVIOUS
  <2>2. a \in {ask, NoRequest} /\ l \in SUBSET late /\ ask \in {ask, NoRequest}
    BY <2>1 DEF Landed
  <2>3. \/ Effects(panel, ask, read, l)
        \/ \E p : /\ p = [panel EXCEPT !.items = <<>>, !.pages = 0, !.listError = TRUE]
                  /\ Effects(Selection(p), a, read, l)
        \/ \E p, pages : p = [panel EXCEPT !.page = pages] /\ Effects(p, a, read, l)
        \/ \E p, items, pages, version :
             /\ p = [panel EXCEPT !.items = items, !.pages = pages,
                                  !.shown = r.key, !.listFrom = version]
             /\ Effects(Selection(p), a, read, l)
    BY <1>5, <2>1, Zenon DEF ListAnswer
  <2>4. CASE Effects(panel, ask, read, l)
    BY <1>1, <2>2, <2>4, EffectsCount DEF VersionsStay, SameVersions
  <2>5. ASSUME NEW p, p = [panel EXCEPT !.items = <<>>, !.pages = 0, !.listError = TRUE]
        PROVE  SameVersions(p)
    BY <1>1, <2>5 DEF HasVersions, SameVersions
  <2>6. ASSUME NEW p, NEW pages, p = [panel EXCEPT !.page = pages]
        PROVE  SameVersions(p)
    BY <1>1, <2>6 DEF HasVersions, SameVersions
  <2>7. ASSUME NEW p, NEW items, NEW pages, NEW version,
               p = [panel EXCEPT !.items = items, !.pages = pages,
                                 !.shown = r.key, !.listFrom = version]
        PROVE  SameVersions(p)
    BY <1>1, <2>7 DEF HasVersions, SameVersions
  <2>8. ASSUME NEW p, SameVersions(p),
               Effects(p, a, read, l) \/ Effects(Selection(p), a, read, l)
        PROVE  VersionsStay
    <3>1. SameVersions(Selection(p))
      BY <2>8, SelectionCounts DEF SameVersions
    <3>2. QED
      BY <2>2, <2>8, <3>1, EffectsCount DEF VersionsStay, SameVersions
  <2>9. CASE \E p : SameVersions(p) /\ (Effects(p, a, read, l) \/ Effects(Selection(p), a, read, l))
    BY <2>8, <2>9
  <2>10. CASE \E p : /\ p = [panel EXCEPT !.items = <<>>, !.pages = 0, !.listError = TRUE]
                     /\ Effects(Selection(p), a, read, l)
    BY <2>5, <2>9, <2>10, Zenon
  <2>11. CASE \E p, pages : p = [panel EXCEPT !.page = pages] /\ Effects(p, a, read, l)
    BY <2>6, <2>9, <2>11, Zenon
  <2>12. CASE \E p, items, pages, version :
               /\ p = [panel EXCEPT !.items = items, !.pages = pages,
                                    !.shown = r.key, !.listFrom = version]
               /\ Effects(Selection(p), a, read, l)
    BY <2>7, <2>9, <2>12, Zenon
  <2>13. QED
    BY <2>3, <2>4, <2>10, <2>11, <2>12
<1>6. ASSUME NEW r \in late \cup {ask, read}, DetailsAnswer(r) PROVE VersionsStay
  <2>1. PICK b, l : b = Landed(r, read) /\ l = late \ {r}
    OBVIOUS
  <2>2. b \in {read, NoRequest} /\ l \in SUBSET late
    BY <2>1 DEF Landed
  <2>3. \/ Effects(panel, ask, read, l)
        \/ \E q : /\ \/ q = [panel EXCEPT !.details = NoItem, !.detailsError = TRUE,
                                          !.detailsLoading = FALSE]
                     \/ \E version : q = [panel EXCEPT !.details = r.id, !.detailsFrom = version,
                                                       !.detailsLoading = FALSE]
                  /\ Effects(q, ask, b, l)
    BY <1>6, <2>1, Zenon DEF DetailsAnswer
  <2>4. CASE Effects(panel, ask, read, l)
    BY <1>1, <2>2, <2>4, EffectsCount DEF VersionsStay, SameVersions
  <2>5. ASSUME NEW q, Effects(q, ask, b, l),
               SameVersions(q)
        PROVE  VersionsStay
    BY <2>2, <2>5, EffectsCount DEF VersionsStay, SameVersions
  <2>6. ASSUME NEW q, q = [panel EXCEPT !.details = NoItem, !.detailsError = TRUE,
                                        !.detailsLoading = FALSE]
        PROVE  SameVersions(q)
    BY <1>1, <2>6 DEF HasVersions, SameVersions
  <2>7. ASSUME NEW q, NEW version,
               q = [panel EXCEPT !.details = r.id, !.detailsFrom = version,
                                 !.detailsLoading = FALSE]
        PROVE  SameVersions(q)
    BY <1>1, <2>7 DEF HasVersions, SameVersions
  <2>8. QED
    BY <2>3, <2>4, <2>5, <2>6, <2>7
<1>7. QED
  BY <1>2, <1>3, <1>4, <1>5, <1>6

(* The requests in flight are typed, as the moves bound the versions.      *)
LEMMA RequestsTyped ==
  ASSUME ConsoleInv, MovesCover
  PROVE  /\ written \in Versions /\ panel.refreshed \in Versions /\ panel.reloaded \in Versions
         /\ ask \in Asks \cup {NoRequest} /\ read \in Reads \cup {NoRequest}
<1>1. /\ moves \in 0 .. MaxMoves /\ MaxMoves \in Nat /\ written \in Nat
      /\ panel \in PanelHooks /\ Pending \in {0, 1}
  BY ConsoleAssumption
     DEF MovesCover, ConsoleInv, ConsoleTypes, PanelFits, Pending
<1>2. panel.refreshed \in Nat /\ panel.reloaded \in Nat
  BY <1>1 DEF PanelHooks
<1>3. Cardinality(SentActs) \in Nat /\ Cardinality(BusyActs) \in Nat
  <2>1. SentActs \subseteq BusyActs /\ IsFiniteSet(BusyActs)
    BY DEF SentActs, BusyActs, MovesCover
  <2>2. QED
    BY <2>1, FS_Subset, FS_CardinalityType
<1>4. /\ written \in Versions /\ panel.refreshed \in Versions /\ panel.reloaded \in Versions
  BY <1>1, <1>2, <1>3 DEF MovesCover, Versions
<1>5. ask \in Asks \cup {NoRequest}
  <2>1. ask # NoRequest => ask \in AnyAsk /\ ask.key = ListKey(panel) /\ ask.from <= written
    BY DEF ConsoleInv, PanelFits, ListFits
  <2>2. PICK k : k = ListKey(panel)
    OBVIOUS
  <2>3. k \in AnyKey /\ k.refreshed = panel.refreshed /\ k.reloaded = panel.reloaded
    BY <1>1, <2>2, PageFacts DEF ListKey
  <2>4. k \in ListKeys
    BY <1>4, <2>3 DEF AnyKey, ListKeys
  <2>5. ask # NoRequest => ask.from \in Versions
    BY <1>1, <1>4, <2>1 DEF AnyAsk, Versions
  <2>6. QED
    BY <2>1, <2>2, <2>4, <2>5 DEF AnyAsk, Asks
<1>6. read \in Reads \cup {NoRequest}
  <2>1. read # NoRequest => read \in AnyRead /\ read.from <= written
    BY DEF ConsoleInv, PanelFits, DetailsFit
  <2>2. read # NoRequest => read.from \in Versions
    BY <1>1, <1>4, <2>1 DEF AnyRead, Versions
  <2>3. QED
    BY <2>1, <2>2 DEF AnyRead, Reads
<1>7. QED
  BY <1>4, <1>5, <1>6

(* No request is late that was not one before.                             *)
LEMMA LateTyped ==
  ASSUME ConsoleInv, MovesCover, LateAtMost
  PROVE  late' \subseteq Asks \cup Reads
BY RequestsTyped DEF LateAtMost, MovesCover

(* Whatever the operator, the server and the answers do, no write and no   *)
(* load happens without a move for it (runAction, handleRegenerateConfig,  *)
(* refreshAll).                                                            *)
LEMMA MovesKept ==
  ConsoleInv /\ MovesCover /\ [ConsoleNext]_consoleVars => MovesCover'
<1>. SUFFICES ASSUME ConsoleInv, MovesCover, [ConsoleNext]_consoleVars PROVE MovesCover'
  OBVIOUS
<1>1. PICK m, w, s, b, p, f, d :
        /\ m = moves /\ w = written /\ s = Cardinality(SentActs) /\ b = Cardinality(BusyActs)
        /\ p = Pending /\ f = panel.refreshed /\ d = panel.reloaded
  OBVIOUS
<1>2. /\ m \in Nat /\ m <= MaxMoves /\ MaxMoves \in Nat /\ w \in Nat /\ s \in Nat /\ b \in Nat
      /\ p \in {0, 1} /\ f \in Nat /\ d \in Nat
      /\ w + s + p <= m /\ f + b <= m /\ d + p <= m
  <2>1. SentActs \subseteq BusyActs /\ IsFiniteSet(BusyActs)
    BY DEF SentActs, BusyActs, MovesCover
  <2>2. s \in Nat /\ b \in Nat
    BY <1>1, <2>1, FS_Subset, FS_CardinalityType
  <2>3. panel \in PanelHooks /\ w \in Nat
    BY <1>1 DEF ConsoleInv, ConsoleTypes, PanelFits
  <2>4. f \in Nat /\ d \in Nat
    BY <1>1, <2>3 DEF PanelHooks
  <2>5. m \in Nat /\ m <= MaxMoves /\ MaxMoves \in Nat
    BY <1>1, ConsoleAssumption DEF MovesCover
  <2>6. p \in {0, 1}
    BY <1>1 DEF Pending
  <2>7. w + s + p <= m /\ f + b <= m /\ d + p <= m
    BY <1>1 DEF MovesCover
  <2>8. QED
    BY <2>2, <2>3, <2>4, <2>5, <2>6, <2>7
<1>3. /\ ConsoleTypes /\ IsFiniteSet(BusyActs) /\ app.view \in Nat /\ app.view <= w
      /\ late \subseteq Asks \cup Reads
  BY <1>1 DEF ConsoleInv, ConsoleTypes, MovesCover
<1>4. Move => moves' = m + 1 /\ m < MaxMoves
  BY <1>1 DEF Move
<1>5. UNCHANGED act => /\ IsFiniteSet(BusyActs)'
                       /\ Cardinality(SentActs)' = s /\ Cardinality(BusyActs)' = b
  BY <1>1, <1>3 DEF SentActs, BusyActs
<1>6. UNCHANGED regenerate => Pending' = p
  BY <1>1 DEF Pending
<1>7. VersionsStay => panel'.refreshed = f /\ panel'.reloaded = d /\ late' \subseteq Asks \cup Reads
  BY <1>1, LateTyped DEF VersionsStay
<1>8. UNCHANGED <<panel, late>> => VersionsStay
  BY DEF VersionsStay, LateAtMost
<1>9. ASSUME NEW a \in Acts, NEW x, act' = [act EXCEPT ![a] = x]
       PROVE  /\ IsFiniteSet(BusyActs)'
              /\ x.stage = "refreshing" /\ act[a].stage = "idle" =>
                   Cardinality(SentActs)' = s /\ Cardinality(BusyActs)' = b + 1
              /\ x.stage = "sent" /\ act[a].stage = "idle" =>
                   Cardinality(SentActs)' = s + 1 /\ Cardinality(BusyActs)' = b + 1
              /\ x.stage = "written" /\ act[a].stage = "sent" =>
                   Cardinality(SentActs)' = s - 1 /\ Cardinality(BusyActs)' = b
              /\ x.stage = "refreshing" /\ act[a].stage = "written" =>
                   Cardinality(SentActs)' = s /\ Cardinality(BusyActs)' = b
              /\ x.stage = "idle" /\ act[a].stage = "sent" =>
                   Cardinality(SentActs)' = s - 1 /\ Cardinality(BusyActs)' = b - 1
              /\ x.stage = "idle" /\ act[a].stage \in {"written", "refreshing"} =>
                   Cardinality(SentActs)' = s /\ Cardinality(BusyActs)' = b - 1
  <2>1. PICK y, z, s2, b2 : /\ y = x.stage /\ z = act[a].stage
                            /\ s2 = Cardinality(SentActs)' /\ b2 = Cardinality(BusyActs)'
    OBVIOUS
  <2>2. /\ IsFiniteSet(BusyActs)'
        /\ s2 = s + (IF y = "sent" THEN 1 ELSE 0) - (IF z = "sent" THEN 1 ELSE 0)
        /\ b2 = b + (IF y # "idle" THEN 1 ELSE 0) - (IF z # "idle" THEN 1 ELSE 0)
    BY <1>1, <1>3, <1>9, <2>1, StageCounts
  <2>3. QED
    BY <1>2, <2>1, <2>2
<1>10. ASSUME SetFilter \/ SetPage \/ Select PROVE MovesCover'
  <2>1. VersionsStay /\ Move /\ UNCHANGED <<regenerate, act, app, written>>
    BY <1>10, HandlersCount DEF SetFilter, SetPage, Select
  <2>2. moves' = m + 1 /\ m < MaxMoves
    BY <1>4, <2>1
  <2>3. /\ written' = w /\ app' = app /\ Pending' = p
        /\ panel'.refreshed = f /\ panel'.reloaded = d /\ late' \subseteq Asks \cup Reads
        /\ IsFiniteSet(BusyActs)' /\ Cardinality(SentActs)' = s /\ Cardinality(BusyActs)' = b
    BY <1>1, <1>5, <1>6, <1>7, <2>1
  <2>4. QED
    BY <1>2, <1>3, <2>2, <2>3 DEF MovesCover
<1>11. ASSUME NEW r \in late \cup {ask, read}, ListAnswer(r) \/ DetailsAnswer(r)
       PROVE  MovesCover'
  <2>1. VersionsStay /\ UNCHANGED <<regenerate, act, app, written, moves>>
    BY <1>11, HandlersCount DEF ListAnswer, DetailsAnswer
  <2>2. /\ moves' = m /\ written' = w /\ app' = app /\ Pending' = p
        /\ panel'.refreshed = f /\ panel'.reloaded = d /\ late' \subseteq Asks \cup Reads
        /\ IsFiniteSet(BusyActs)' /\ Cardinality(SentActs)' = s /\ Cardinality(BusyActs)' = b
    BY <1>1, <1>5, <1>6, <1>7, <2>1
  <2>3. QED
    BY <1>2, <1>3, <2>2 DEF MovesCover
<1>12. ASSUME Regenerate PROVE MovesCover'
  <2>1. /\ Move /\ regenerate = NoItem /\ regenerate' # NoItem
        /\ UNCHANGED <<panel, late, act, app, written>>
    BY <1>12 DEF Regenerate
  <2>2. /\ moves' = m + 1 /\ m < MaxMoves /\ p = 0 /\ Pending' = 1
        /\ written' = w /\ app' = app
        /\ panel'.refreshed = f /\ panel'.reloaded = d /\ late' \subseteq Asks \cup Reads
        /\ IsFiniteSet(BusyActs)' /\ Cardinality(SentActs)' = s /\ Cardinality(BusyActs)' = b
    BY <1>1, <1>4, <1>5, <1>7, <1>8, <2>1 DEF Pending
  <2>3. QED
    BY <1>2, <1>3, <2>2 DEF MovesCover
<1>13. ASSUME RegenerateAnswer PROVE MovesCover'
  <2>1. /\ regenerate # NoItem /\ regenerate' = NoItem /\ UNCHANGED <<act, app, moves>>
    BY <1>13 DEF RegenerateAnswer
  <2>2. /\ moves' = m /\ app' = app /\ p = 1 /\ Pending' = 0
        /\ IsFiniteSet(BusyActs)' /\ Cardinality(SentActs)' = s /\ Cardinality(BusyActs)' = b
    BY <1>1, <1>5, <2>1 DEF Pending
  <2>3. HasVersions(panel)
    BY DEF ConsoleInv, PanelFits, PanelHooks, HasVersions
  <2>4. CASE Effects(panel, ask, read, late) /\ UNCHANGED <<written, done>>
    <3>1. VersionsStay /\ written' = w
      BY <1>1, <2>3, <2>4, EffectsCount DEF VersionsStay
    <3>2. QED
      BY <1>2, <1>3, <1>7, <2>2, <3>1 DEF MovesCover
  <2>5. CASE ~(Effects(panel, ask, read, late) /\ UNCHANGED <<written, done>>)
    <3>1. PICK q : q = [panel EXCEPT !.details = regenerate, !.detailsFrom = written',
                                     !.reloaded = panel.reloaded + 1]
      OBVIOUS
    <3>2. /\ written' = written + 1 /\ late' = (late \cup {ask, read}) \ {NoRequest}
          /\ panel' = [q EXCEPT !.listError = FALSE, !.detailsError =
                                      q.detailsError /\ q.selected = NoItem,
                                !.detailsLoading = q.detailsLoading \/ q.selected # NoItem]
      BY <1>13, <2>5, <3>1, Zenon DEF RegenerateAnswer
    <3>3. HasVersions(q) /\ q.refreshed = f /\ q.reloaded = d + 1
      BY <1>1, <2>3, <3>1 DEF HasVersions
    <3>4. panel'.refreshed = f /\ panel'.reloaded = d + 1
      <4>1. PICK x, y : panel' = [q EXCEPT !.listError = FALSE, !.detailsError = x,
                                           !.detailsLoading = y]
        BY <3>2
      <4>2. QED
        BY <3>3, <4>1 DEF HasVersions
    <3>5. late' \subseteq Asks \cup Reads
      BY <3>2, LateTyped DEF LateAtMost
    <3>6. written' = w + 1
      BY <1>1, <3>2
    <3>7. QED
      BY <1>2, <1>3, <2>2, <3>4, <3>5, <3>6 DEF MovesCover
  <2>6. QED
    BY <2>4, <2>5
<1>14. ASSUME NEW a \in Acts, PressRefresh(a) \/ RunAction(a) PROVE MovesCover'
  <2>1. PICK x : /\ act' = [act EXCEPT ![a] = x]
                 /\ x.stage \in {"refreshing", "sent"} /\ act[a].stage = "idle"
    <3>1. CASE PressRefresh(a)
      BY <3>1 DEF PressRefresh, Refreshing
    <3>2. CASE RunAction(a)
      <4>1. PICK x : x = [act[a] EXCEPT !.stage = "sent"]
        OBVIOUS
      <4>2. act' = [act EXCEPT ![a] = x] /\ x.stage = "sent"
        BY <1>3, <3>2, <4>1 DEF RunAction, ConsoleTypes
      <4>3. QED
        BY <3>2, <4>2 DEF RunAction
    <3>3. QED
      BY <1>14, <3>1, <3>2
  <2>2. /\ Move /\ UNCHANGED <<panel, late, regenerate, written>>
        /\ app' = [app EXCEPT !.error = FALSE, !.isLoading = TRUE]
    BY <1>14 DEF PressRefresh, RunAction
  <2>3. app'.view = app.view
    BY <1>3, <2>2 DEF ConsoleTypes
  <2>4. /\ IsFiniteSet(BusyActs)' /\ Cardinality(BusyActs)' = b + 1
        /\ Cardinality(SentActs)' \in {s, s + 1}
    BY <1>2, <1>9, <2>1
  <2>5. /\ moves' = m + 1 /\ m < MaxMoves /\ written' = w /\ Pending' = p
        /\ panel'.refreshed = f /\ panel'.reloaded = d /\ late' \subseteq Asks \cup Reads
    BY <1>1, <1>4, <1>6, <1>7, <1>8, <2>2
  <2>6. QED
    BY <1>2, <1>3, <2>3, <2>4, <2>5 DEF MovesCover
<1>15. ASSUME NEW a \in Acts, ServerWrites(a) PROVE MovesCover'
  <2>1. PICK x : /\ act' = [act EXCEPT ![a] = x]
                 /\ x.stage = "written" /\ act[a].stage = "sent"
    BY <1>15 DEF ServerWrites
  <2>2. written' = w + 1 /\ UNCHANGED <<panel, late, regenerate, app, moves>>
    BY <1>1, <1>15 DEF ServerWrites
  <2>3. /\ IsFiniteSet(BusyActs)' /\ Cardinality(BusyActs)' = b
        /\ Cardinality(SentActs)' = s - 1
    BY <1>2, <1>9, <2>1
  <2>4. /\ moves' = m /\ app' = app /\ Pending' = p
        /\ panel'.refreshed = f /\ panel'.reloaded = d /\ late' \subseteq Asks \cup Reads
    BY <1>1, <1>6, <1>7, <1>8, <2>2
  <2>5. QED
    BY <1>2, <1>3, <2>2, <2>3, <2>4 DEF MovesCover
<1>16. ASSUME NEW a \in Acts, ActionDone(a) PROVE MovesCover'
  <2>1. PICK x : /\ act' = [act EXCEPT ![a] = x]
                 /\ x.stage = "refreshing" /\ act[a].stage = "written"
    BY <1>16 DEF ActionDone, Refreshing
  <2>2. /\ UNCHANGED <<panel, late, regenerate, written, moves>>
        /\ app' = [app EXCEPT !.error = FALSE, !.isLoading = TRUE]
    BY <1>16 DEF ActionDone
  <2>3. app'.view = app.view
    BY <1>3, <2>2 DEF ConsoleTypes
  <2>4. /\ IsFiniteSet(BusyActs)' /\ Cardinality(BusyActs)' = b
        /\ Cardinality(SentActs)' = s
    BY <1>2, <1>9, <2>1
  <2>5. /\ moves' = m /\ written' = w /\ Pending' = p
        /\ panel'.refreshed = f /\ panel'.reloaded = d /\ late' \subseteq Asks \cup Reads
    BY <1>1, <1>6, <1>7, <1>8, <2>2
  <2>6. QED
    BY <1>2, <1>3, <2>3, <2>4, <2>5 DEF MovesCover
<1>17. ASSUME NEW a \in Acts, ActionFails(a) PROVE MovesCover'
  <2>1. PICK x : /\ act' = [act EXCEPT ![a] = x]
                 /\ x.stage = "idle" /\ act[a].stage \in {"sent", "written"}
    BY <1>17 DEF ActionFails
  <2>2. /\ UNCHANGED <<panel, late, regenerate, written, moves>>
        /\ app' = [app EXCEPT !.error = TRUE, !.isLoading = FALSE]
    BY <1>17 DEF ActionFails
  <2>3. app'.view = app.view
    BY <1>3, <2>2 DEF ConsoleTypes
  <2>4. /\ IsFiniteSet(BusyActs)' /\ Cardinality(BusyActs)' = b - 1
        /\ Cardinality(SentActs)' \in {s, s - 1}
    BY <1>2, <1>9, <2>1
  <2>5. /\ moves' = m /\ written' = w /\ Pending' = p
        /\ panel'.refreshed = f /\ panel'.reloaded = d /\ late' \subseteq Asks \cup Reads
    BY <1>1, <1>6, <1>7, <1>8, <2>2
  <2>6. QED
    BY <1>2, <1>3, <2>3, <2>4, <2>5 DEF MovesCover
<1>18. ASSUME NEW a \in Acts, RefreshAnswer(a) PROVE MovesCover'
  <2>1. PICK x : /\ act' = [act EXCEPT ![a] = x]
                 /\ x.stage = "idle" /\ act[a].stage = "refreshing"
    BY <1>18 DEF RefreshAnswer
  <2>2. /\ IsFiniteSet(BusyActs)' /\ Cardinality(BusyActs)' = b - 1
        /\ Cardinality(SentActs)' = s
    BY <1>2, <1>9, <2>1
  <2>3. /\ moves' = m /\ written' = w /\ Pending' = p
    BY <1>1, <1>6, <1>18 DEF RefreshAnswer
  <2>4. app'.view <= w
    <3>1. CASE \E version \in act[a].from .. written :
                 app' = [app EXCEPT !.view = version, !.isLoading = FALSE]
      <4>1. PICK version \in act[a].from .. written :
              app' = [app EXCEPT !.view = version, !.isLoading = FALSE]
        BY <3>1
      <4>2. app'.view = version /\ version <= w
        BY <1>1, <1>3, <4>1 DEF ConsoleTypes
      <4>3. QED
        BY <4>2
    <3>2. CASE app' = [app EXCEPT !.error = TRUE, !.isLoading = FALSE]
      <4>1. app'.view = app.view
        BY <1>3, <3>2 DEF ConsoleTypes
      <4>2. QED
        BY <1>3, <4>1
    <3>3. QED
      BY <1>18, <3>1, <3>2 DEF RefreshAnswer
  <2>5. panel'.refreshed \in {f, f + 1} /\ panel'.reloaded = d /\ late' \subseteq Asks \cup Reads
    <3>1. CASE Effects([panel EXCEPT !.refreshed = panel.refreshed + 1], ask, read, late)
      <4>1. PICK q : q = [panel EXCEPT !.refreshed = panel.refreshed + 1]
        OBVIOUS
      <4>2. HasVersions(panel)
        BY DEF ConsoleInv, PanelFits, PanelHooks, HasVersions
      <4>3. HasVersions(q) /\ q.refreshed = f + 1 /\ q.reloaded = d
        BY <1>1, <4>1, <4>2 DEF HasVersions
      <4>4. Effects(q, ask, read, late)
        BY <3>1, <4>1
      <4>5. panel'.refreshed = q.refreshed /\ panel'.reloaded = q.reloaded /\ LateAtMost
        BY <4>3, <4>4, EffectsCount
      <4>6. QED
        BY <4>3, <4>5, LateTyped
    <3>2. CASE UNCHANGED <<panel, late>>
      BY <1>7, <1>8, <3>2
    <3>3. QED
      BY <1>18, <3>1, <3>2 DEF RefreshAnswer
  <2>6. QED
    BY <1>2, <1>3, <2>2, <2>3, <2>4, <2>5 DEF MovesCover
<1>19. CASE UNCHANGED consoleVars
  <2>1. UNCHANGED <<panel, late, regenerate, act, app, written, moves>>
    BY <1>19 DEF consoleVars
  <2>2. /\ moves' = m /\ written' = w /\ app' = app /\ Pending' = p
        /\ panel'.refreshed = f /\ panel'.reloaded = d /\ late' \subseteq Asks \cup Reads
        /\ IsFiniteSet(BusyActs)' /\ Cardinality(SentActs)' = s /\ Cardinality(BusyActs)' = b
    BY <1>1, <1>5, <1>6, <1>7, <1>8, <2>1
  <2>3. QED
    BY <1>2, <1>3, <2>2 DEF MovesCover
<1>20. QED
  BY <1>10, <1>11, <1>12, <1>13, <1>14, <1>15, <1>16, <1>17, <1>18, <1>19 DEF ConsoleNext

(* No version the panel, a request or the dashboard may have is beyond     *)
(* what the operator's moves account for, however many actions are under   *)
(* way at once (App.tsx).                                                  *)
THEOREM ConsoleTypeCorrect == ConsoleSpec => []ConsoleTypeOK
<1>1. ConsoleInit => MovesCover
  <2>1. SUFFICES ASSUME ConsoleInit PROVE MovesCover
    OBVIOUS
  <2>2. SentActs = {} /\ BusyActs = {} /\ Pending = 0
    BY <2>1 DEF ConsoleInit, SentActs, BusyActs, Pending
  <2>3. /\ moves = 0 /\ written = 0 /\ late = {}
        /\ panel.refreshed = 0 /\ panel.reloaded = 0 /\ app.view = 0
    BY <2>1 DEF ConsoleInit
  <2>4. QED
    BY <2>2, <2>3, FS_EmptySet, ConsoleAssumption DEF MovesCover
<1>2. ConsoleInv /\ MovesCover => ConsoleTypeOK
  <2>1. SUFFICES ASSUME ConsoleInv, MovesCover PROVE ConsoleTypeOK
    OBVIOUS
  <2>2. /\ written \in Versions /\ ask \in Asks \cup {NoRequest}
        /\ read \in Reads \cup {NoRequest}
    BY <2>1, RequestsTyped
  <2>3. /\ panel \in PanelHooks /\ ConsoleTypes
    BY <2>1 DEF ConsoleInv, PanelFits
  <2>4. /\ panel.page \in 1 .. Pages /\ panel.pages \in 0 .. Pages /\ panel.filter \in BOOLEAN
        /\ panel.items \in Lists \cup {<<>>}
        /\ panel.selected \in Items \cup {NoItem} /\ panel.details \in Items \cup {NoItem}
    BY <2>3 DEF PanelHooks
  <2>5. act \in [Acts -> [stage : {"idle", "sent", "written", "refreshing"}, from : Versions]]
    <3>1. ASSUME NEW a \in Acts
          PROVE  act[a] \in [stage : {"idle", "sent", "written", "refreshing"}, from : Versions]
      <4>1. act[a].from \in Versions
        BY <2>2, <2>3, ConsoleAssumption DEF ConsoleTypes, Versions
      <4>2. act[a] \in [stage : {"idle", "sent", "written", "refreshing"}, from : Nat]
        BY <2>3 DEF ConsoleTypes
      <4>3. QED
        BY <4>1, <4>2
    <3>2. QED
      BY <2>3, <3>1 DEF ConsoleTypes
  <2>6. app \in [error : BOOLEAN, isLoading : BOOLEAN, view : Versions]
    <3>1. app.view \in Versions
      BY <2>1, <2>2, <2>3, ConsoleAssumption DEF ConsoleTypes, MovesCover, Versions
    <3>2. QED
      BY <2>3, <3>1 DEF ConsoleTypes
  <2>7. done \in 0 .. written /\ moves \in Versions /\ overlapped \in BOOLEAN
        /\ regenerate \in Items \cup {NoItem} /\ late \subseteq Asks \cup Reads
    BY <2>1, <2>3 DEF ConsoleTypes, MovesCover, Versions
  <2>8. QED
    BY <2>2, <2>4, <2>5, <2>6, <2>7 DEF ConsoleTypeOK
<1>3. QED
  BY <1>1, <1>2, MovesKept, ConsoleInvariance, PTL DEF ConsoleSpec
=============================================================================
