------------------------------ MODULE NodeFleet ------------------------------
(***************************************************************************)
(* The rows of vpn_nodes under everything that writes them: the operator's *)
(* edits and purges, health checks by hand and by the sweep of the health  *)
(* job, and the load counter the device handlers move.  Edits and checks   *)
(* read an entity, await, and save the whole of it: TypeORM's save writes  *)
(* every column that differs from the row and inserts the row if it is     *)
(* gone.  failureCount, lastError and the timestamps go with healthStatus  *)
(* and are left out; "draining" stands for every status but active.        *)
(***************************************************************************)
EXTENDS Integers, FiniteSets

CONSTANTS
  Fleet,         \* the nodes, numbered in the order they were created
  Capacities,    \* what the operator gives nodes
  Hands,         \* requests that may check or edit nodes at once
  NoNode,
  MaxNodeCalls   \* bound: checks, edits, sweeps and device handlers started

ASSUME FleetAssumption ==
  /\ IsFiniteSet(Fleet) /\ Fleet \subseteq Nat
  /\ NoNode \notin Fleet \cup Hands /\ NoNode # "sweep"
  /\ "sweep" \notin Hands
  /\ Capacities \subseteq Nat /\ MaxNodeCalls \in Nat

VARIABLES
  nodeRow,     \* vpn_nodes
  home,        \* provisions.vpn_node_id of a subscription
  clients,     \* clients on each node's panel, in whichever inbound
  creating,    \* device handlers between counting a client in and its answer
  giving,      \* device handlers that are going to count a client out
  nodeCall,    \* what each request, and the sweep, is doing
  sweepLog,    \* what the last sweep listed, counted and ended as
  nodeCalls,   \* requests started
  wanted,      \* history: the operator's last word on each node
  raced,       \* history: nodes where a save overlapped another one
  outdated,    \* history: calls that hold a load a handler has left since
  inflated     \* history: nodes such a load was saved to, or a loss befell

handlerVars == <<clients, creating, giving>>
loadHistory == <<outdated, inflated>>
fleetVars == <<nodeRow, home, handlerVars, nodeCall, sweepLog,
               nodeCalls, wanted, raced, loadHistory>>

Health == {"online", "degraded", "offline"}
Setup == [cap : Capacities, away : BOOLEAN]  \* capacity and usage scope
NodeRow == [active : BOOLEAN, status : {"active", "draining"}, load : Nat,
            health : Health \cup {"unknown"}, setup : Setup]
NoRow == [active |-> FALSE, status |-> "none", load |-> 0, health |-> "none",
          setup |-> "none"]
Callers == Hands \cup {"sweep"}

(* copy is the entity as read (an edit's with its change made); found and  *)
(* count are the panel's answer.                                           *)
NodeCall == [pc : {"editing", "asking", "answered", "rereading"},
             node : Fleet, copy : NodeRow, word : {"serving", "drained", "same"},
             found : Health, count : Nat]
NoCall == [pc |-> "idle", node |-> NoNode]
NextCall == [pc |-> "next", node |-> NoNode]  \* the sweep between two nodes
Sweep == [ended : {"no", "done", "aborted"}, listed : SUBSET Fleet,
          todo : SUBSET Fleet, counted : [Fleet -> Health \cup {"none"}],
          found : [Fleet -> Health \cup {"none"}]]
Unlogged == [ended |-> "done", listed |-> {}, todo |-> {},
             counted |-> [n \in Fleet |-> "none"],
             found |-> [n \in Fleet |-> "none"]]

FleetTypeOK ==
  /\ nodeRow \in [Fleet -> NodeRow \cup {NoRow}]
  /\ home \in Fleet \cup {NoNode}
  /\ clients \in [Fleet -> Nat]
  /\ creating \in [Fleet -> Nat] /\ giving \in [Fleet -> Nat]
  /\ nodeCall \in [Callers -> NodeCall \cup {NoCall, NextCall}]
  /\ sweepLog \in Sweep
  /\ nodeCalls \in 0 .. MaxNodeCalls
  /\ wanted \in [Fleet -> {"new", "serving", "drained", "gone"}]
  /\ raced \subseteq Fleet
  /\ outdated \subseteq Callers /\ inflated \subseteq Fleet

FleetInit ==
  /\ nodeRow = [n \in Fleet |-> NoRow]
  /\ home = NoNode
  /\ clients = [n \in Fleet |-> 0]
  /\ creating = [n \in Fleet |-> 0] /\ giving = [n \in Fleet |-> 0]
  /\ nodeCall = [c \in Callers |-> NoCall]
  /\ sweepLog = Unlogged
  /\ nodeCalls = 0
  /\ wanted = [n \in Fleet |-> "new"]
  /\ raced = {} /\ outdated = {} /\ inflated = {}
-----------------------------------------------------------------------------
(* Faulty variants of definitions below, for mutation of the runs.         *)
EditForgetsStatus(row, word) ==
  CASE word = "serving" -> [row EXCEPT !.active = TRUE, !.status = "active"]
    [] word = "drained" -> [row EXCEPT !.active = FALSE]
    [] OTHER -> row

CheckKeepsLoad(row, found, count) == [row EXCEPT !.health = found]

RereadCountsOnline(log, n, row) ==
  [log EXCEPT !.counted[n] = IF row.health = "degraded" THEN "offline"
                             ELSE "degraded"]
-----------------------------------------------------------------------------
Exists(n) == nodeRow[n] # NoRow

(* The entity as update, disable and checkNode leave it before saving.     *)
Edited(row, word) ==
  CASE word = "serving" -> [row EXCEPT !.active = TRUE, !.status = "active"]
    [] word = "drained" -> [row EXCEPT !.active = FALSE, !.status = "draining"]
    [] OTHER -> row

Checked(row, found, count) ==
  IF found = "online" THEN [row EXCEPT !.health = found, !.load = count]
  ELSE [row EXCEPT !.health = found]

(* What a node's row may be asked for: the guards shared by the selection  *)
(* of a node and by incrementLoad.                                         *)
Admits(n) ==
  /\ nodeRow[n].active /\ nodeRow[n].status = "active"
  /\ nodeRow[n].load < nodeRow[n].setup.cap

LeastLoaded(away) ==
  LET Free == {n \in Fleet : Admits(n) /\ nodeRow[n].setup.away = away} IN
  {n \in Free : \A m \in Free : \/ nodeRow[n].load < nodeRow[m].load
                                \/ nodeRow[n].load = nodeRow[m].load /\ n <= m}

(* A caller other than c holds a copy of n's row: a write now may be lost. *)
Holders(n) == {o \in Callers : nodeCall[o].node = n}
Write(n, c) == raced' = IF Holders(n) \ {c} # {} THEN raced \cup {n} ELSE raced

(* What c saves to n's row is a load as it is, or one left since.          *)
SaveLoad(n, c) ==
  /\ inflated' = IF c \in outdated THEN inflated \cup {n} ELSE inflated \ {n}
  /\ outdated' = outdated \ {c}
(* A call that begins takes over a load that was left before.              *)
ReadLoad(n, c) ==
  /\ outdated' = IF n \in inflated THEN outdated \cup {c} ELSE outdated
  /\ inflated' = inflated

NewRequest == nodeCalls < MaxNodeCalls /\ nodeCalls' = nodeCalls + 1
StartCall(h) == nodeCall[h] = NoCall /\ NewRequest

(* POST /nodes.                                                            *)
CreateNode(n, setup) ==
  /\ wanted[n] = "new"
  /\ \A m \in Fleet : m < n => wanted[m] # "new"
  /\ nodeRow' = [nodeRow EXCEPT ![n] = [active |-> TRUE, status |-> "active",
                                        load |-> 0, health |-> "unknown",
                                        setup |-> setup]]
  /\ wanted' = [wanted EXCEPT ![n] = "serving"]
  /\ UNCHANGED <<home, handlerVars, nodeCall, sweepLog, nodeCalls, raced, loadHistory>>

(* PATCH and DELETE /nodes/:id: update and disable read the entity ...     *)
EditNode(h, n, word, setup) ==
  /\ StartCall(h)
  /\ Exists(n)
  /\ word # "same" => setup = nodeRow[n].setup
  /\ nodeCall' = [nodeCall EXCEPT ![h] =
       [pc |-> "editing", node |-> n,
        copy |-> [Edited(nodeRow[n], word) EXCEPT !.setup = setup],
        word |-> word, found |-> "offline", count |-> 0]]
  /\ ReadLoad(n, h)
  /\ UNCHANGED <<nodeRow, home, handlerVars, sweepLog, wanted, raced>>

(* ... and save all of it.                                                 *)
SaveEdit(h) ==
  LET call == nodeCall[h] n == call.node IN
  /\ call.pc = "editing"
  /\ nodeRow' = [nodeRow EXCEPT ![n] = call.copy]
  /\ nodeCall' = [nodeCall EXCEPT ![h] = NoCall]
  /\ wanted' = IF call.word = "same" THEN wanted
               ELSE [wanted EXCEPT ![n] = call.word]
  /\ Write(n, h) /\ SaveLoad(n, h)
  /\ UNCHANGED <<home, handlerVars, sweepLog, nodeCalls>>

(* DELETE /nodes/:id/purge: refused while a provision links to the node.   *)
PurgeNode(n) ==
  /\ Exists(n)
  /\ home # n
  /\ nodeRow' = [nodeRow EXCEPT ![n] = NoRow]
  /\ wanted' = [wanted EXCEPT ![n] = "gone"]
  /\ Write(n, NoNode)
  /\ UNCHANGED <<home, handlerVars, nodeCall, sweepLog, nodeCalls, loadHistory>>
-----------------------------------------------------------------------------
Asking(n) == [pc |-> "asking", node |-> n, copy |-> nodeRow[n], word |-> "same",
              found |-> "offline", count |-> 0]

(* POST /nodes/:id/check.                                                  *)
CheckNode(h, n) ==
  /\ StartCall(h)
  /\ Exists(n)
  /\ nodeCall' = [nodeCall EXCEPT ![h] = Asking(n)]
  /\ ReadLoad(n, h)
  /\ UNCHANGED <<nodeRow, home, handlerVars, sweepLog, wanted, raced>>

(* vpnClient.checkNode: the panel counts the clients of the one inbound    *)
(* the copy names, lacks the inbound, or does not answer.  Which clients   *)
(* are in it depends on the transport profiles that were selected for them *)
(* and on edits of inboundId: any part of the panel's.                     *)
PanelAnswers(c, found, count) ==
  LET n == nodeCall[c].node IN
  /\ nodeCall[c].pc = "asking"
  /\ count <= (IF found = "online" THEN clients[n] ELSE 0)
  /\ nodeCall' = [nodeCall EXCEPT ![c] =
       [nodeCall[c] EXCEPT !.pc = "answered", !.found = found, !.count = count]]
  /\ outdated' = IF found = "online" THEN outdated \ {c} ELSE outdated
  /\ UNCHANGED <<nodeRow, home, handlerVars, sweepLog, nodeCalls, wanted, raced,
                 inflated>>

(* The entity read before the call is saved with what the call found.      *)
SaveCheck(c) ==
  LET call == nodeCall[c] n == call.node IN
  /\ call.pc = "answered"
  /\ nodeRow' = [nodeRow EXCEPT ![n] = Checked(call.copy, call.found, call.count)]
  /\ Write(n, c) /\ SaveLoad(n, c)
  /\ IF c # "sweep"
     THEN /\ nodeCall' = [nodeCall EXCEPT ![c] = NoCall]
          /\ UNCHANGED sweepLog
     ELSE IF call.found = "online"
     THEN /\ nodeCall' = [nodeCall EXCEPT ![c] = NextCall]
          /\ sweepLog' = [sweepLog EXCEPT !.counted[n] = "online",
                                          !.found[n] = "online"]
     ELSE /\ nodeCall' = [nodeCall EXCEPT ![c] = [call EXCEPT !.pc = "rereading"]]
          /\ sweepLog' = [sweepLog EXCEPT !.found[n] = call.found]
  /\ UNCHANGED <<home, handlerVars, nodeCalls, wanted>>
-----------------------------------------------------------------------------
(* checkAllNodes, started by the health job.                               *)
StartSweep ==
  LET listed == {n \in Fleet : Exists(n)} IN
  /\ StartCall("sweep")
  /\ nodeCall' = [nodeCall EXCEPT !["sweep"] = NextCall]
  /\ sweepLog' = [Unlogged EXCEPT !.ended = "no", !.listed = listed, !.todo = listed]
  /\ UNCHANGED <<nodeRow, home, handlerVars, wanted, raced, loadHistory>>

EndSweep(how) ==
  /\ nodeCall' = [nodeCall EXCEPT !["sweep"] = NoCall]
  /\ sweepLog' = [sweepLog EXCEPT !.ended = how]
  /\ UNCHANGED <<nodeRow, home, handlerVars, nodeCalls, wanted, raced, loadHistory>>

(* The next node in the order of creation; one that is gone makes findById *)
(* throw in the check and again in its catch, which ends the sweep.        *)
SweepNext ==
  /\ nodeCall["sweep"] = NextCall
  /\ \/ sweepLog.todo = {} /\ EndSweep("done")
     \/ \E n \in sweepLog.todo :
          /\ \A m \in sweepLog.todo : n <= m
          /\ \/ ~Exists(n) /\ EndSweep("aborted")
             \/ /\ Exists(n)
                /\ nodeCall' = [nodeCall EXCEPT !["sweep"] = Asking(n)]
                /\ sweepLog' = [sweepLog EXCEPT !.todo = @ \ {n}]
                /\ ReadLoad(n, "sweep")
                /\ UNCHANGED <<nodeRow, home, handlerVars, nodeCalls, wanted, raced>>

(* A failed node is counted by the health its fresh row shows.             *)
Counted(log, n, row) ==
  [log EXCEPT !.counted[n] = IF row.health = "degraded" THEN "degraded"
                             ELSE "offline"]

Reread ==
  LET n == nodeCall["sweep"].node IN
  /\ nodeCall["sweep"].pc = "rereading"
  /\ \/ ~Exists(n) /\ EndSweep("aborted")
     \/ /\ Exists(n)
        /\ sweepLog' = Counted(sweepLog, n, nodeRow[n])
        /\ nodeCall' = [nodeCall EXCEPT !["sweep"] = NextCall]
        /\ UNCHANGED <<nodeRow, home, handlerVars, nodeCalls, wanted, raced,
                       loadHistory>>
-----------------------------------------------------------------------------
(* provisionOrRenew links the subscription to the least loaded node.       *)
AssignHome ==
  /\ home = NoNode
  /\ home' \in LeastLoaded(FALSE)
  /\ UNCHANGED <<nodeRow, handlerVars, nodeCall, sweepLog, nodeCalls, wanted,
                 raced, loadHistory>>

(* incrementLoad: a device handler counts a client in before it makes it,  *)
(* on its subscription's node or the away node that was least loaded.      *)
IncrementLoad(n) ==
  /\ NewRequest
  /\ Admits(n)
  /\ nodeRow' = [nodeRow EXCEPT ![n].load = @ + 1]
  /\ creating' = [creating EXCEPT ![n] = @ + 1]
  /\ UNCHANGED <<home, clients, giving, nodeCall, sweepLog, wanted, raced, loadHistory>>

(* createClient: the panel makes the client or refuses; the handler that   *)
(* hears of no success counts it out again, made or not.                   *)
PanelCreates(n, made, heard) ==
  /\ creating[n] > 0
  /\ heard => made
  /\ creating' = [creating EXCEPT ![n] = @ - 1]
  /\ clients' = IF made THEN [clients EXCEPT ![n] = @ + 1] ELSE clients
  /\ giving' = IF heard THEN giving ELSE [giving EXCEPT ![n] = @ + 1]
  /\ UNCHANGED <<nodeRow, home, nodeCall, sweepLog, nodeCalls, wanted, raced, loadHistory>>

(* deleteCreatedClientQuietly: the panel drops the client, or has none, or *)
(* fails; whichever it was, the handler goes on to count it out.           *)
PanelDeletes(n, dropped) ==
  /\ NewRequest
  /\ dropped => clients[n] > 0
  /\ clients' = IF dropped THEN [clients EXCEPT ![n] = @ - 1] ELSE clients
  /\ giving' = [giving EXCEPT ![n] = @ + 1]
  /\ UNCHANGED <<nodeRow, home, creating, nodeCall, sweepLog, wanted, raced, loadHistory>>

(* decrementLoad: GREATEST(current_load - 1, 0) where there is a row.      *)
DecrementLoad(n) ==
  /\ giving[n] > 0
  /\ giving' = [giving EXCEPT ![n] = @ - 1]
  /\ nodeRow' = IF Exists(n) /\ nodeRow[n].load > 0
                THEN [nodeRow EXCEPT ![n].load = @ - 1] ELSE nodeRow
  /\ outdated' = outdated \cup Holders(n)
  /\ UNCHANGED <<home, clients, creating, nodeCall, sweepLog, nodeCalls, wanted,
                 raced, inflated>>

(* The decrement throws, or the process dies before it; or the panel      *)
(* loses a client to an apply that lists its inbound before it is made and *)
(* writes that list back after it (InboundMapping).                        *)
LoseBacking(n) ==
  /\ \/ /\ giving[n] > 0
        /\ giving' = [giving EXCEPT ![n] = @ - 1]
        /\ UNCHANGED <<clients, creating>>
     \/ /\ creating[n] > 0
        /\ creating' = [creating EXCEPT ![n] = @ - 1]
        /\ UNCHANGED <<clients, giving>>
     \/ /\ clients[n] > 0
        /\ clients' = [clients EXCEPT ![n] = @ - 1]
        /\ UNCHANGED <<creating, giving>>
  /\ outdated' = outdated \cup Holders(n)
  /\ inflated' = inflated \cup {n}
  /\ UNCHANGED <<nodeRow, home, nodeCall, sweepLog, nodeCalls, wanted, raced>>

FleetNext ==
  \/ \E n \in Fleet :
       \/ \E setup \in Setup : CreateNode(n, setup)
       \/ PurgeNode(n)
       \/ IncrementLoad(n)
       \/ \E made, heard \in BOOLEAN : PanelCreates(n, made, heard)
       \/ \E dropped \in BOOLEAN : PanelDeletes(n, dropped)
       \/ DecrementLoad(n)
       \/ LoseBacking(n)
       \/ \E h \in Hands :
            \/ \E word \in {"serving", "drained", "same"}, setup \in Setup :
                 EditNode(h, n, word, setup)
            \/ CheckNode(h, n)
  \/ \E h \in Hands : SaveEdit(h)
  \/ \E c \in Callers :
       \/ \E found \in Health, count \in 0 .. MaxNodeCalls :
            PanelAnswers(c, found, count)
       \/ SaveCheck(c)
  \/ StartSweep \/ SweepNext \/ Reread
  \/ AssignHome

FleetSpec == FleetInit /\ [][FleetNext]_fleetVars
-----------------------------------------------------------------------------
(* A row says what the operator last said of the node, through any number  *)
(* of checks, sweeps and counter updates: a drained node stays drained and *)
(* a purged one gone, unless that word overlapped another call's copy of   *)
(* the row, which puts the old row back (vpn-nodes.service.ts, checkNode). *)
NodeObeysOperator ==
  \A n \in Fleet \ raced :
    CASE wanted[n] = "serving" -> Exists(n) /\ nodeRow[n].active /\ nodeRow[n].status = "active"
      [] wanted[n] = "drained" -> Exists(n) /\ ~nodeRow[n].active /\ nodeRow[n].status = "draining"
      [] OTHER -> ~Exists(n)

(* current_load counts nobody who is not there: no more units than the     *)
(* panel has clients and handlers are about to make one or count one out,  *)
(* although these are counted one step early or late, panels refuse, lose  *)
(* answers and keep clients a handler takes for deleted, checks see one    *)
(* inbound only and saves bring whole rows back.  A handler that breaks    *)
(* off, a client an apply overwrites, and a call that saves the load it    *)
(* read or was told before another handler counted out, leave a surplus;   *)
(* the next check that finds the panel, with no counting out since its     *)
(* answer, takes it away (incrementLoad, decrementLoad, checkNode).        *)
LoadIsBacked ==
  \A n \in Fleet \ inflated :
    Exists(n) => nodeRow[n].load <= clients[n] + creating[n] + giving[n]

(* A sweep that ends has counted every node it listed, each under what its *)
(* check found unless another call wrote the row in between; it breaks off *)
(* only when a node it had listed was purged, and perhaps put back by an   *)
(* overlapping save (checkAllNodes).                                       *)
SweepCountsAll ==
  /\ sweepLog.ended = "done" =>
       \A n \in sweepLog.listed :
         /\ sweepLog.counted[n] # "none"
         /\ n \notin raced => sweepLog.counted[n] = sweepLog.found[n]
  /\ sweepLog.ended = "aborted" =>
       \E n \in sweepLog.listed : wanted[n] = "gone" \/ n \in raced
=============================================================================
