------------------------------ MODULE RateLimit ------------------------------
(***************************************************************************)
(* rate-limit.middleware.ts: one limiter, its store of counters by client  *)
(* and the pruning of expired counters every so many requests.  A window   *)
(* starts with a client's first request after its last one ended.          *)
(***************************************************************************)
EXTENDS Integers, Sequences, FiniteSets

CONSTANTS
  Senders,       \* clients, as the limiter tells them apart
  WindowLength,  \* windowMs
  MaxInWindow,   \* max
  PruneEvery,    \* 200: requests between two prunings
  LastMoment,    \* bound: how long the model runs
  MaxPassed      \* bound: requests each client gets through

ASSUME LimitAssumption ==
  /\ WindowLength \in Nat \ {0} /\ MaxInWindow \in Nat \ {0}
  /\ PruneEvery \in Nat \ {0}
  /\ LastMoment \in Nat /\ MaxPassed \in Nat

VARIABLES
  moment,        \* Date.now()
  store,         \* the counters
  sinceCleanup,  \* requestsSinceCleanup
  answered,      \* the last answer: to whom, and whether it passed
  passes         \* history: when each client's requests passed

limitVars == <<moment, store, sinceCleanup, answered, passes>>

NoCounter == [count |-> 0, resetAt |-> 0]
Counters == [count : Nat, resetAt : Nat]
Moments == 0 .. LastMoment

LimitTypeOK ==
  /\ moment \in Moments
  /\ store \in [Senders -> Counters]
  /\ sinceCleanup \in 0 .. PruneEvery - 1
  /\ answered.passed \in BOOLEAN
  /\ passes \in [Senders -> Seq(Moments)]

LimitInit ==
  /\ moment = 0
  /\ store = [s \in Senders |-> NoCounter]
  /\ sinceCleanup = 0
  /\ answered = [to |-> "nobody", passed |-> TRUE, state |-> NoCounter]
  /\ passes = [s \in Senders |-> <<>>]
-----------------------------------------------------------------------------
(* Faulty variants of Pruned, for mutation of the runs.                    *)
PrunedAll(counters) == [s \in Senders |-> NoCounter]
-----------------------------------------------------------------------------
(* pruneExpiredEntries; a counter that has expired is as good as none.     *)
Pruned(counters) ==
  [s \in Senders |-> IF counters[s].resetAt <= moment THEN NoCounter ELSE counters[s]]

(* The counter of a request: the client's own while its window lasts.      *)
Counter(counters, s) ==
  IF counters[s].resetAt > moment
  THEN [counters[s] EXCEPT !.count = @ + 1]
  ELSE [count |-> 1, resetAt |-> moment + WindowLength]

(* The middleware, for a request it does not skip.                         *)
Limit(s) ==
  LET due == sinceCleanup + 1 >= PruneEvery
      counters == IF due THEN Pruned(store) ELSE store
      state == Counter(counters, s)
      passed == state.count <= MaxInWindow IN
  /\ Len(passes[s]) < MaxPassed
  /\ state.count <= MaxInWindow + 1   \* bound: refusals told apart
  /\ sinceCleanup' = IF due THEN 0 ELSE sinceCleanup + 1
  /\ store' = [counters EXCEPT ![s] = state]
  /\ answered' = [to |-> s, passed |-> passed, state |-> state]
  /\ passes' = IF passed THEN [passes EXCEPT ![s] = Append(@, moment)] ELSE passes
  /\ UNCHANGED moment

TimePasses ==
  /\ moment < LastMoment
  /\ moment' = moment + 1
  /\ UNCHANGED <<store, sinceCleanup, answered, passes>>

LimitNext == TimePasses \/ \E s \in Senders : Limit(s)

LimitSpec == LimitInit /\ [][LimitNext]_limitVars
-----------------------------------------------------------------------------
PassedIn(s, from, to) ==
  Cardinality({k \in DOMAIN passes[s] : from <= passes[s][k] /\ passes[s][k] < to})

(* Through windows that end between two requests, pruning at any request   *)
(* and other clients' traffic: every span as long as a window lets at most *)
(* twice max of a client's requests through, each window at most max, and  *)
(* a request is refused only in a window that has let max through.         *)
LimitHolds ==
  \A s \in Senders :
    /\ \A from \in Moments : PassedIn(s, from, from + WindowLength) <= 2 * MaxInWindow
    /\ LET c == store[s] IN
         c.resetAt > 0 =>
           PassedIn(s, c.resetAt - WindowLength, c.resetAt) <= MaxInWindow
    /\ answered.to = s /\ ~answered.passed =>
         PassedIn(s, answered.state.resetAt - WindowLength, answered.state.resetAt)
           = MaxInWindow
=============================================================================
