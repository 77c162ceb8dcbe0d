-------------------------- MODULE NodeFleetProofs --------------------------
(***************************************************************************)
(* Machine-checked facts about NodeFleet, for any number of nodes, of      *)
(* requests that edit and check them and of device handlers, any           *)
(* capacities and any bound.                                               *)
(***************************************************************************)
EXTENDS NodeFleet, TLAPS

(* What NodeObeysOperator says of one node.                                *)
Obeys(n) ==
  /\ Exists(n) <=> wanted[n] \in {"serving", "drained"}
  /\ wanted[n] = "serving" => nodeRow[n].active = TRUE /\ nodeRow[n].status = "active"
  /\ wanted[n] = "drained" => nodeRow[n].active = FALSE /\ nodeRow[n].status = "draining"

(* A call on a node holds what the operator says as it is, or as its edit  *)
(* leaves it.                                                              *)
Words(a, b) == a.active = b.active /\ a.status = b.status

Fits(call, n) ==
  /\ Exists(n)
  /\ call.pc = "editing" => Words(call.copy, Edited(nodeRow[n], call.word))
  /\ call.pc \in {"asking", "answered"} => Words(call.copy, nodeRow[n])
  /\ call.pc = "rereading" => /\ nodeRow[n].health = call.found
                              /\ call.found # "online"

NodeKnown(n) ==
  /\ Obeys(n)
  /\ \A c \in Callers : nodeCall[c].node = n => Fits(nodeCall[c], n)

AllKnown == \A n \in Fleet \ raced : NodeKnown(n)

(* The sweep's books: a listed node waits, is the current one or is        *)
(* counted.                                                                *)
CountedRight(n) == /\ sweepLog.counted[n] # "none"
                   /\ n \notin raced => sweepLog.counted[n] = sweepLog.found[n]

SweepInv ==
  /\ nodeCall["sweep"] # NoCall => sweepLog.ended = "no"
  /\ sweepLog.ended = "done" => sweepLog.todo = {}
  /\ sweepLog.todo \subseteq sweepLog.listed
  /\ nodeCall["sweep"].node \in Fleet => nodeCall["sweep"].node \in sweepLog.listed
  /\ nodeCall["sweep"].pc = "rereading" =>
       sweepLog.found[nodeCall["sweep"].node] = nodeCall["sweep"].found
  /\ \A n \in sweepLog.listed : wanted[n] # "new" \/ n \in raced
  /\ \A n \in sweepLog.listed \ sweepLog.todo :
       CountedRight(n) \/ nodeCall["sweep"].node = n \/ sweepLog.ended = "aborted"
  /\ sweepLog.ended = "aborted" =>
       \E n \in sweepLog.listed : wanted[n] = "gone" \/ n \in raced

(* Units of load with a client or a handler behind them.                   *)
Backing(n) == clients[n] + creating[n] + giving[n]

(* What a call that is not out of date is going to save for its node.      *)
Current(call) ==
  /\ call.pc \in {"editing", "asking"} => call.copy.load <= Backing(call.node)
  /\ call.pc = "answered" =>
       (IF call.found = "online" THEN call.count ELSE call.copy.load)
         <= Backing(call.node)

LoadInv ==
  /\ \A n \in Fleet \ inflated : Exists(n) => nodeRow[n].load <= Backing(n)
  /\ \A c \in Callers \ outdated : Current(nodeCall[c])

FleetInv == FleetTypeOK /\ AllKnown /\ SweepInv /\ LoadInv
-----------------------------------------------------------------------------
(* Rows, calls and the entities calls hold.                                *)

LEMMA RowFacts ==
  ASSUME FleetTypeOK, NEW n \in Fleet
  PROVE  /\ Exists(n) <=> nodeRow[n] \in NodeRow
         /\ Admits(n) => Exists(n)
         /\ clients[n] \in Nat /\ creating[n] \in Nat /\ giving[n] \in Nat
BY DEF FleetTypeOK, Exists, NodeRow, NoRow, Admits

LEMMA FleetCallFacts ==
  ASSUME FleetTypeOK, NEW c \in Callers
  PROVE  /\ nodeCall[c].pc \in {"editing", "asking", "answered", "rereading"} =>
              nodeCall[c] \in NodeCall
         /\ nodeCall[c].node \in Fleet => nodeCall[c] \in NodeCall
         /\ nodeCall[c] \in NodeCall =>
              nodeCall[c].node \in Fleet /\ nodeCall[c].copy \in NodeRow
BY FleetAssumption DEF FleetTypeOK, NoCall, NextCall, NodeCall

LEMMA EditedFacts ==
  ASSUME NEW row \in NodeRow, NEW word \in {"serving", "drained", "same"}
  PROVE  /\ Edited(row, word) \in NodeRow /\ Edited(row, word) # NoRow
         /\ \A setup \in Setup : [Edited(row, word) EXCEPT !.setup = setup] \in NodeRow
         /\ Edited(row, word).load = row.load
         /\ word = "serving" => /\ Edited(row, word).active = TRUE
                                /\ Edited(row, word).status = "active"
         /\ word = "drained" => /\ Edited(row, word).active = FALSE
                                /\ Edited(row, word).status = "draining"
         /\ word = "same" => Edited(row, word) = row
<1>1. \A r \in NodeRow : r # NoRow
  BY DEF NodeRow, NoRow
<1>2. CASE word = "serving" BY <1>1, <1>2 DEF Edited, NodeRow
<1>3. CASE word = "drained" BY <1>1, <1>3 DEF Edited, NodeRow
<1>4. CASE word = "same" BY <1>1, <1>4 DEF Edited, NodeRow
<1>5. QED
  BY <1>2, <1>3, <1>4

LEMMA CheckedFacts ==
  ASSUME NEW row \in NodeRow, NEW found \in Health, NEW count \in Nat
  PROVE  /\ Checked(row, found, count) \in NodeRow
         /\ Checked(row, found, count) # NoRow
         /\ Checked(row, found, count).active = row.active
         /\ Checked(row, found, count).status = row.status
         /\ Checked(row, found, count).health = found
         /\ Checked(row, found, count).load = IF found = "online" THEN count
                                              ELSE row.load
<1>1. \A r \in NodeRow : r # NoRow
  BY DEF NodeRow, NoRow
<1>2. QED
  BY <1>1 DEF Checked, NodeRow, Health

(* A write that leaves a node out of raced is by the only call that holds  *)
(* a copy of the row.                                                      *)
LEMMA WriteFacts ==
  ASSUME FleetTypeOK, NEW n \in Fleet, NEW c \in Callers \cup {NoNode}, Write(n, c)
  PROVE  /\ raced \subseteq raced' /\ raced' \subseteq raced \cup {n}
         /\ n \notin raced' => \A o \in Callers \ {c} : nodeCall[o].node # n
BY DEF Write, Holders

(* What the operator has said of n, and a check of it, is as it was.       *)
SameWords(n) ==
  /\ Exists(n)' <=> Exists(n)
  /\ Words(nodeRow'[n], nodeRow[n]) /\ nodeRow'[n].health = nodeRow[n].health

LEMMA EditedWords ==
  ASSUME NEW a, NEW b, Words(a, b), a \in NodeRow \cup {NoRow}, b \in NodeRow \cup {NoRow},
         NEW word \in {"serving", "drained", "same"}
  PROVE  Words(Edited(a, word), Edited(b, word))
BY DEF Words, Edited, NodeRow, NoRow

LEMMA FitsKept ==
  ASSUME FleetTypeOK, FleetTypeOK', NEW n \in Fleet, SameWords(n), NEW c \in Callers,
         nodeCall[c].node = n, Fits(nodeCall[c], n), nodeCall'[c] = nodeCall[c]
  PROVE  Fits(nodeCall[c], n)'
<1>1. PICK call : call = nodeCall[c]
  OBVIOUS
<1>2. call \in NodeCall
  BY <1>1, FleetCallFacts
<1>3. call.word \in {"serving", "drained", "same"}
  BY <1>2 DEF NodeCall
<1>4. nodeRow[n] \in NodeRow \cup {NoRow} /\ nodeRow'[n] \in NodeRow \cup {NoRow}
  BY DEF FleetTypeOK
<1>5. Words(Edited(nodeRow'[n], call.word), Edited(nodeRow[n], call.word))
  BY <1>3, <1>4, EditedWords DEF SameWords
<1>6. QED
  BY <1>1, <1>5 DEF Fits, SameWords, Words

(* A node nobody touches stays known.                                      *)
LEMMA KnownKept ==
  ASSUME FleetTypeOK, FleetTypeOK', NEW n \in Fleet, NodeKnown(n),
         SameWords(n), wanted'[n] = wanted[n],
         \A c \in Callers : nodeCall'[c] = nodeCall[c] \/ nodeCall'[c].node # n
  PROVE  NodeKnown(n)'
<1>1. Obeys(n)'
  BY DEF NodeKnown, Obeys, SameWords, Words
<1>2. ASSUME NEW c \in Callers, nodeCall'[c].node = n
      PROVE  Fits(nodeCall[c], n)'
  BY <1>2, FitsKept DEF NodeKnown
<1>3. QED
  BY <1>1, <1>2 DEF NodeKnown
-----------------------------------------------------------------------------
(* The types, action by action.                                            *)

LEMMA RequestTypes ==
  ASSUME FleetTypeOK, NewRequest
  PROVE  nodeCalls' \in 0 .. MaxNodeCalls
BY FleetAssumption DEF FleetTypeOK, NewRequest

LEMMA HistoryTypes ==
  ASSUME FleetTypeOK, NEW n \in Fleet, NEW c \in Callers
  PROVE  /\ SaveLoad(n, c) => outdated' \subseteq Callers /\ inflated' \subseteq Fleet
         /\ ReadLoad(n, c) => outdated' \subseteq Callers /\ inflated' \subseteq Fleet
BY DEF FleetTypeOK, SaveLoad, ReadLoad

LEMMA TypesOfEdits ==
  ASSUME FleetTypeOK, NEW n \in Fleet
  PROVE  /\ \A setup \in Setup : CreateNode(n, setup) => FleetTypeOK'
         /\ PurgeNode(n) => FleetTypeOK'
         /\ \A h \in Hands, word \in {"serving", "drained", "same"}, setup \in Setup :
              EditNode(h, n, word, setup) => FleetTypeOK'
<1>1. ASSUME NEW setup \in Setup, CreateNode(n, setup) PROVE FleetTypeOK'
  <2>1. [active |-> TRUE, status |-> "active", load |-> 0,
         health |-> "unknown", setup |-> setup] \in NodeRow
    BY DEF NodeRow
  <2>2. nodeRow' \in [Fleet -> NodeRow \cup {NoRow}]
        /\ wanted' \in [Fleet -> {"new", "serving", "drained", "gone"}]
    BY <1>1, <2>1 DEF FleetTypeOK, CreateNode
  <2>3. QED
    BY <1>1, <2>2 DEF FleetTypeOK, CreateNode, handlerVars, loadHistory
<1>2. ASSUME PurgeNode(n) PROVE FleetTypeOK'
  <2>1. raced' \subseteq Fleet
    BY <1>2, WriteFacts DEF PurgeNode, FleetTypeOK
  <2>2. QED
    BY <1>2, <2>1 DEF FleetTypeOK, PurgeNode, handlerVars, loadHistory
<1>3. ASSUME NEW h \in Hands, NEW word \in {"serving", "drained", "same"},
             NEW setup \in Setup, EditNode(h, n, word, setup)
      PROVE  FleetTypeOK'
  <2>0. h \in Callers
    BY DEF Callers
  <2> DEFINE copy == [Edited(nodeRow[n], word) EXCEPT !.setup = setup]
  <2>1. copy \in NodeRow
    BY <1>3, RowFacts, EditedFacts DEF EditNode
  <2> HIDE DEF copy
  <2>2. [pc |-> "editing", node |-> n, copy |-> copy, word |-> word,
         found |-> "offline", count |-> 0] \in NodeCall
    BY <2>1 DEF NodeCall, Health
  <2>3. nodeCall' \in [Callers -> NodeCall \cup {NoCall, NextCall}]
    BY <1>3, <2>2 DEF copy, FleetTypeOK, EditNode
  <2>4. outdated' \subseteq Callers /\ inflated' \subseteq Fleet
    BY <1>3, <2>0, HistoryTypes DEF EditNode
  <2>5. nodeCalls' \in 0 .. MaxNodeCalls
    BY <1>3, RequestTypes DEF EditNode, StartCall
  <2>6. QED
    BY <1>3, <2>3, <2>4, <2>5 DEF FleetTypeOK, EditNode, handlerVars
<1>4. QED
  BY <1>1, <1>2, <1>3

LEMMA TypesOfSaves ==
  ASSUME FleetTypeOK, NEW c \in Callers
  PROVE  /\ c \in Hands /\ SaveEdit(c) => FleetTypeOK'
         /\ SaveCheck(c) => FleetTypeOK'
<1> DEFINE call == nodeCall[c]
           n == call.node
<1>1. ASSUME c \in Hands, SaveEdit(c) PROVE FleetTypeOK'
  <2>1. call \in NodeCall /\ n \in Fleet /\ call.copy \in NodeRow
    BY <1>1, FleetCallFacts DEF SaveEdit
  <2>2. call.word \in {"serving", "drained", "same"}
    BY <2>1 DEF NodeCall
  <2>3. raced' \subseteq Fleet
    BY <1>1, <2>1, WriteFacts DEF SaveEdit, FleetTypeOK
  <2>4. nodeCall' \in [Callers -> NodeCall \cup {NoCall, NextCall}]
    BY <1>1 DEF FleetTypeOK, SaveEdit
  <2>5. nodeRow' \in [Fleet -> NodeRow \cup {NoRow}]
        /\ wanted' \in [Fleet -> {"new", "serving", "drained", "gone"}]
    BY <1>1, <2>1, <2>2 DEF FleetTypeOK, SaveEdit
  <2>6. outdated' \subseteq Callers /\ inflated' \subseteq Fleet
    BY <1>1, <2>1, HistoryTypes DEF SaveEdit
  <2>7. QED
    BY <1>1, <2>3, <2>4, <2>5, <2>6 DEF FleetTypeOK, SaveEdit, handlerVars
<1>2. ASSUME SaveCheck(c) PROVE FleetTypeOK'
  <2>1. call \in NodeCall /\ n \in Fleet /\ call.copy \in NodeRow
    BY <1>2, FleetCallFacts DEF SaveCheck
  <2>2. call.found \in Health /\ call.count \in Nat
    BY <2>1 DEF NodeCall
  <2>3. raced' \subseteq Fleet
    BY <1>2, <2>1, WriteFacts DEF SaveCheck, FleetTypeOK
  <2>4. Checked(call.copy, call.found, call.count) \in NodeRow
    BY <2>1, <2>2, CheckedFacts
  <2>5. nodeRow' \in [Fleet -> NodeRow \cup {NoRow}]
    BY <1>2, <2>1, <2>4 DEF FleetTypeOK, SaveCheck
  <2>6. [call EXCEPT !.pc = "rereading"] \in NodeCall
    BY <2>1 DEF NodeCall
  <2>7. nodeCall' \in [Callers -> NodeCall \cup {NoCall, NextCall}]
    BY <1>2, <2>6 DEF FleetTypeOK, SaveCheck
  <2>8. sweepLog' \in Sweep
    <3>1. CASE sweepLog' = sweepLog
      BY <3>1 DEF FleetTypeOK
    <3>2. CASE sweepLog' = [sweepLog EXCEPT !.found[n] = call.found]
      BY <3>2, <2>1, <2>2 DEF FleetTypeOK, Sweep
    <3>3. CASE sweepLog' = [sweepLog EXCEPT !.counted[n] = "online",
                                            !.found[n] = "online"]
      <4>1. sweepLog' = [[sweepLog EXCEPT !.counted[n] = "online"]
                                   EXCEPT !.found[n] = "online"]
        BY <3>3 DEF FleetTypeOK, Sweep
      <4>2. [sweepLog EXCEPT !.counted[n] = "online"] \in Sweep
        BY <2>1 DEF FleetTypeOK, Sweep, Health
      <4>3. QED
        BY <2>1, <4>1, <4>2 DEF Sweep, Health
    <3>4. QED
      BY <1>2, <3>1, <3>2, <3>3 DEF SaveCheck
  <2>9. outdated' \subseteq Callers /\ inflated' \subseteq Fleet
    BY <1>2, <2>1, HistoryTypes DEF SaveCheck
  <2>10. QED
    <3>1. UNCHANGED <<home, clients, creating, giving, nodeCalls, wanted>>
      BY <1>2 DEF SaveCheck, handlerVars
    <3>2. QED
      BY <3>1, <2>3, <2>5, <2>7, <2>8, <2>9 DEF FleetTypeOK
<1>3. QED
  BY <1>1, <1>2

LEMMA TypesOfChecks ==
  ASSUME FleetTypeOK
  PROVE  /\ \A h \in Hands, n \in Fleet : CheckNode(h, n) => FleetTypeOK'
         /\ \A c \in Callers, found \in Health, count \in 0 .. MaxNodeCalls :
              PanelAnswers(c, found, count) => FleetTypeOK'
<1>1. ASSUME NEW h \in Hands, NEW n \in Fleet, CheckNode(h, n) PROVE FleetTypeOK'
  <2>0. h \in Callers
    BY DEF Callers
  <2>1. Asking(n) \in NodeCall
    BY <1>1, RowFacts DEF CheckNode, Asking, NodeCall, Health
  <2>2. outdated' \subseteq Callers /\ inflated' \subseteq Fleet
    BY <1>1, <2>0, HistoryTypes DEF CheckNode
  <2>3. nodeCalls' \in 0 .. MaxNodeCalls
    BY <1>1, RequestTypes DEF CheckNode, StartCall
  <2>4. QED
    BY <1>1, <2>1, <2>2, <2>3 DEF FleetTypeOK, CheckNode, handlerVars
<1>2. ASSUME NEW c \in Callers, NEW found \in Health, NEW count \in 0 .. MaxNodeCalls,
             PanelAnswers(c, found, count)
      PROVE  FleetTypeOK'
  <2>1. nodeCall[c] \in NodeCall /\ nodeCall[c].node \in Fleet
    BY <1>2, FleetCallFacts DEF PanelAnswers
  <2> DEFINE answered == [nodeCall[c] EXCEPT !.pc = "answered", !.found = found,
                                             !.count = count]
  <2>2. answered \in NodeCall
    <3>1. count \in Nat
      BY FleetAssumption
    <3>2. QED
      BY <2>1, <3>1 DEF NodeCall
  <2>3. nodeCall' = [nodeCall EXCEPT ![c] = answered]
    BY <1>2, Zenon DEF PanelAnswers
  <2> HIDE DEF answered
  <2>4. nodeCall' \in [Callers -> NodeCall \cup {NoCall, NextCall}]
    BY <2>2, <2>3 DEF FleetTypeOK
  <2>5. UNCHANGED <<nodeRow, home, clients, creating, giving, sweepLog, nodeCalls,
                    wanted, raced, inflated>>
        /\ outdated' \subseteq outdated
    BY <1>2 DEF PanelAnswers, handlerVars
  <2>6. QED
    BY <2>4, <2>5 DEF FleetTypeOK
<1>3. QED
  BY <1>1, <1>2

LEMMA TypesOfSweep ==
  ASSUME FleetTypeOK
  PROVE  /\ StartSweep => FleetTypeOK'
         /\ SweepNext => FleetTypeOK'
         /\ Reread => FleetTypeOK'
<1> USE DEF handlerVars, loadHistory
<1>0. "sweep" \in Callers /\ Unlogged \in Sweep
  BY DEF Callers, Unlogged, Sweep
<1>1. ASSUME StartSweep PROVE FleetTypeOK'
  <2>1. sweepLog' \in Sweep
    BY <1>0, <1>1 DEF StartSweep, Sweep
  <2>2. QED
    BY <1>0, <1>1, <2>1, RequestTypes
    DEF FleetTypeOK, StartSweep, StartCall
<1>2. ASSUME NEW how \in {"done", "aborted"}, EndSweep(how) PROVE FleetTypeOK'
  BY <1>0, <1>2 DEF FleetTypeOK, EndSweep, Sweep
<1>3. ASSUME SweepNext PROVE FleetTypeOK'
  <2>1. CASE \E how \in {"done", "aborted"} : EndSweep(how)
    BY <1>2, <2>1
  <2>2. CASE ~\E how \in {"done", "aborted"} : EndSweep(how)
    <3>1. PICK n \in sweepLog.todo :
            /\ Exists(n)
            /\ nodeCall' = [nodeCall EXCEPT !["sweep"] = Asking(n)]
            /\ sweepLog' = [sweepLog EXCEPT !.todo = @ \ {n}]
            /\ ReadLoad(n, "sweep")
            /\ UNCHANGED <<nodeRow, home, handlerVars, nodeCalls, wanted, raced>>
      BY <1>3, <2>2 DEF SweepNext
    <3>2. n \in Fleet
      BY DEF FleetTypeOK, Sweep
    <3>3. Asking(n) \in NodeCall
      BY <3>1, <3>2, RowFacts DEF Asking, NodeCall, Health
    <3>4. sweepLog' \in Sweep
      BY <3>1 DEF FleetTypeOK, Sweep
    <3>5. outdated' \subseteq Callers /\ inflated' \subseteq Fleet
      BY <1>0, <3>1, <3>2, HistoryTypes
    <3>6. QED
      BY <1>0, <3>1, <3>3, <3>4, <3>5 DEF FleetTypeOK
  <2>3. QED
    BY <2>1, <2>2
<1>4. ASSUME Reread PROVE FleetTypeOK'
  <2> DEFINE n == nodeCall["sweep"].node
  <2>1. CASE EndSweep("aborted")
    BY <1>2, <2>1
  <2>2. CASE /\ sweepLog' = Counted(sweepLog, n, nodeRow[n])
             /\ nodeCall' = [nodeCall EXCEPT !["sweep"] = NextCall]
             /\ UNCHANGED <<nodeRow, home, handlerVars, nodeCalls, wanted, raced,
                            loadHistory>>
    <3>1. sweepLog' \in Sweep
      BY <2>2 DEF FleetTypeOK, Sweep, Counted, Health
    <3>2. QED
      BY <1>0, <2>2, <3>1 DEF FleetTypeOK
  <2>3. QED
    BY <1>4, <2>1, <2>2 DEF Reread
<1>5. QED
  BY <1>1, <1>3, <1>4

LEMMA LoadTyped ==
  ASSUME FleetTypeOK, NEW n \in Fleet, Exists(n), NEW load \in Nat,
         nodeRow' = [nodeRow EXCEPT ![n].load = load]
  PROVE  nodeRow' \in [Fleet -> NodeRow \cup {NoRow}]
<1>1. nodeRow[n] \in NodeRow
  BY RowFacts
<1>2. [nodeRow[n] EXCEPT !.load = load] \in NodeRow
  BY <1>1 DEF NodeRow
<1>3. nodeRow' = [nodeRow EXCEPT ![n] = [nodeRow[n] EXCEPT !.load = load]]
  BY DEF FleetTypeOK
<1>4. QED
  BY <1>2, <1>3 DEF FleetTypeOK

LEMMA TypesOfLoads ==
  ASSUME FleetTypeOK, NEW n \in Fleet
  PROVE  /\ IncrementLoad(n) => FleetTypeOK'
         /\ \A made, heard \in BOOLEAN : PanelCreates(n, made, heard) => FleetTypeOK'
         /\ \A dropped \in BOOLEAN : PanelDeletes(n, dropped) => FleetTypeOK'
         /\ DecrementLoad(n) => FleetTypeOK'
         /\ LoseBacking(n) => FleetTypeOK'
<1> USE DEF handlerVars, loadHistory
<1>1. ASSUME IncrementLoad(n) PROVE FleetTypeOK'
  <2>1. Exists(n) /\ nodeRow[n] \in NodeRow
    BY <1>1, RowFacts DEF IncrementLoad
  <2>2. nodeRow[n].load + 1 \in Nat
    BY <2>1 DEF NodeRow
  <2>3. nodeRow' = [nodeRow EXCEPT ![n].load = nodeRow[n].load + 1]
    BY <1>1 DEF IncrementLoad
  <2>4. nodeRow' \in [Fleet -> NodeRow \cup {NoRow}]
    BY <2>1, <2>2, <2>3, LoadTyped
  <2>5. nodeCalls' \in 0 .. MaxNodeCalls
    BY <1>1, RequestTypes DEF IncrementLoad
  <2>6. creating' \in [Fleet -> Nat]
    BY <1>1 DEF IncrementLoad, FleetTypeOK
  <2>7. QED
    BY <1>1, <2>4, <2>5, <2>6 DEF IncrementLoad, FleetTypeOK
<1>2. ASSUME NEW made \in BOOLEAN, NEW heard \in BOOLEAN, PanelCreates(n, made, heard)
      PROVE  FleetTypeOK'
  <2>1. creating' \in [Fleet -> Nat]
    BY <1>2 DEF PanelCreates, FleetTypeOK
  <2>2. clients' \in [Fleet -> Nat] /\ giving' \in [Fleet -> Nat]
    BY <1>2 DEF PanelCreates, FleetTypeOK
  <2>3. QED
    BY <1>2, <2>1, <2>2 DEF PanelCreates, FleetTypeOK
<1>3. ASSUME NEW dropped \in BOOLEAN, PanelDeletes(n, dropped) PROVE FleetTypeOK'
  <2>1. clients' \in [Fleet -> Nat] /\ giving' \in [Fleet -> Nat]
    BY <1>3 DEF PanelDeletes, FleetTypeOK
  <2>2. nodeCalls' \in 0 .. MaxNodeCalls
    BY <1>3, RequestTypes DEF PanelDeletes
  <2>3. QED
    BY <1>3, <2>1, <2>2 DEF PanelDeletes, FleetTypeOK
<1>4. ASSUME DecrementLoad(n) PROVE FleetTypeOK'
  <2>1. nodeRow' \in [Fleet -> NodeRow \cup {NoRow}]
    <3>1. CASE Exists(n) /\ nodeRow[n].load > 0
      <4>1. nodeRow[n].load - 1 \in Nat
        BY <3>1, RowFacts DEF NodeRow
      <4>2. nodeRow' = [nodeRow EXCEPT ![n].load = nodeRow[n].load - 1]
        BY <1>4, <3>1 DEF DecrementLoad
      <4>3. QED
        BY <3>1, <4>1, <4>2, LoadTyped
    <3>2. CASE ~(Exists(n) /\ nodeRow[n].load > 0)
      BY <1>4, <3>2 DEF DecrementLoad, FleetTypeOK
    <3>3. QED
      BY <3>1, <3>2
  <2>2. giving' \in [Fleet -> Nat] /\ outdated' \subseteq Callers
    BY <1>4 DEF DecrementLoad, FleetTypeOK, Holders
  <2>3. QED
    BY <1>4, <2>1, <2>2 DEF DecrementLoad, FleetTypeOK
<1>5. ASSUME LoseBacking(n) PROVE FleetTypeOK'
  <2>1. /\ giving' \in [Fleet -> Nat] /\ creating' \in [Fleet -> Nat]
        /\ clients' \in [Fleet -> Nat]
        /\ outdated' \subseteq Callers /\ inflated' \subseteq Fleet
    BY <1>5 DEF LoseBacking, FleetTypeOK, Holders
  <2>2. QED
    BY <1>5, <2>1 DEF LoseBacking, FleetTypeOK
<1>6. QED
  BY <1>1, <1>2, <1>3, <1>4, <1>5

(* What the operator, the checks and the handlers leave in a row.          *)

(* A row, the calls on it and the operator's word as they were.            *)
LEMMA RowKept ==
  ASSUME NEW n \in Fleet, nodeRow'[n] = nodeRow[n]
  PROVE  SameWords(n)
BY DEF SameWords, Exists, Words

(* A call that takes up, goes on with or lets go of a node only has to fit *)
(* it.                                                                     *)
LEMMA KnownFits ==
  ASSUME FleetTypeOK, FleetTypeOK', NEW n \in Fleet, NEW c \in Callers, NodeKnown(n),
         SameWords(n), wanted'[n] = wanted[n],
         \A o \in Callers \ {c} : nodeCall'[o] = nodeCall[o],
         nodeCall'[c].node = n => Fits(nodeCall[c], n)'
  PROVE  NodeKnown(n)'
<1>1. Obeys(n)'
  BY DEF NodeKnown, Obeys, SameWords, Words
<1>2. ASSUME NEW o \in Callers \ {c}, nodeCall'[o].node = n
      PROVE  Fits(nodeCall[o], n)'
  BY <1>2, FitsKept DEF NodeKnown
<1>3. QED
  BY <1>1, <1>2 DEF NodeKnown

(* So does a write to a row nobody holds.                                  *)
LEMMA KnownAlone ==
  ASSUME NEW n \in Fleet, Obeys(n)', \A c \in Callers : nodeCall'[c].node # n
  PROVE  NodeKnown(n)'
BY DEF NodeKnown

LEMMA EditsKnown ==
  ASSUME FleetInv, FleetTypeOK', NEW n \in Fleet
  PROVE  /\ \A setup \in Setup : CreateNode(n, setup) => AllKnown'
         /\ PurgeNode(n) => AllKnown'
         /\ \A h \in Hands, word \in {"serving", "drained", "same"}, setup \in Setup :
              EditNode(h, n, word, setup) => AllKnown'
         /\ \A h \in Hands : CheckNode(h, n) => AllKnown'
<1> USE DEF FleetInv
<1>1. ASSUME NEW setup \in Setup, CreateNode(n, setup) PROVE AllKnown'
  <2> SUFFICES ASSUME NEW m \in Fleet \ raced PROVE NodeKnown(m)'
    BY <1>1 DEF AllKnown, CreateNode
  <2>1. NodeKnown(m)
    BY DEF AllKnown
  <2>2. CASE m # n
    BY <1>1, <2>1, <2>2, RowKept, KnownKept DEF CreateNode, FleetTypeOK
  <2>3. CASE m = n
    <3>1. ~Exists(n) /\ \A c \in Callers : nodeCall[c].node # n
      BY <1>1, <2>1, <2>3 DEF CreateNode, NodeKnown, Obeys, Fits
    <3>2. /\ nodeRow'[n] = [active |-> TRUE, status |-> "active", load |-> 0,
                            health |-> "unknown", setup |-> setup]
          /\ wanted'[n] = "serving"
      BY <1>1 DEF CreateNode, FleetTypeOK
    <3>3. nodeRow'[n] # NoRow
      BY <3>2 DEF NoRow
    <3>4. Obeys(n)'
      BY <3>2, <3>3 DEF Obeys, Exists
    <3>5. QED
      BY <1>1, <2>3, <3>1, <3>4, KnownAlone DEF CreateNode
  <2>4. QED
    BY <2>2, <2>3
<1>2. ASSUME PurgeNode(n) PROVE AllKnown'
  <2>1. Write(n, NoNode)
    BY <1>2 DEF PurgeNode
  <2> SUFFICES ASSUME NEW m \in Fleet \ raced' PROVE NodeKnown(m)'
    BY DEF AllKnown
  <2>2. NodeKnown(m)
    BY <2>1, WriteFacts DEF AllKnown
  <2>3. CASE m # n
    BY <1>2, <2>2, <2>3, RowKept, KnownKept DEF PurgeNode, FleetTypeOK
  <2>4. CASE m = n
    <3>1. \A c \in Callers : nodeCall'[c].node # n
      BY <1>2, <2>1, <2>4, WriteFacts, FleetAssumption DEF PurgeNode, Callers
    <3>2. nodeRow'[n] = NoRow /\ wanted'[n] = "gone"
      BY <1>2 DEF PurgeNode, FleetTypeOK
    <3>3. QED
      BY <2>4, <3>1, <3>2, KnownAlone DEF Obeys, Exists
  <2>5. QED
    BY <2>3, <2>4
<1>3. ASSUME NEW h \in Hands, NEW word \in {"serving", "drained", "same"},
             NEW setup \in Setup, EditNode(h, n, word, setup)
      PROVE  AllKnown'
  <2> SUFFICES ASSUME NEW m \in Fleet \ raced PROVE NodeKnown(m)'
    BY <1>3 DEF AllKnown, EditNode
  <2> DEFINE edited == Edited(nodeRow[n], word)
             copy == [edited EXCEPT !.setup = setup]
  <2>1. edited \in NodeRow
    BY <1>3, RowFacts, EditedFacts DEF EditNode
  <2>2. Words(copy, edited)
    BY <2>1 DEF Words, NodeRow
  <2> HIDE DEF copy
  <2>3. /\ \A o \in Callers \ {h} : nodeCall'[o] = nodeCall[o]
        /\ nodeCall'[h] = [pc |-> "editing", node |-> n, copy |-> copy,
                           word |-> word, found |-> "offline", count |-> 0]
    BY <1>3 DEF copy, EditNode, FleetTypeOK, Callers
  <2>4. nodeRow' = nodeRow /\ wanted' = wanted /\ Exists(n)
    BY <1>3 DEF EditNode
  <2>5. nodeCall'[h].node = m => Fits(nodeCall[h], m)'
    BY <2>2, <2>3, <2>4 DEF Fits, Exists
  <2>6. NodeKnown(m) /\ h \in Callers
    BY DEF AllKnown, Callers
  <2>7. QED
    BY <2>3, <2>4, <2>5, <2>6, RowKept, KnownFits
<1>4. ASSUME NEW h \in Hands, CheckNode(h, n) PROVE AllKnown'
  <2> SUFFICES ASSUME NEW m \in Fleet \ raced PROVE NodeKnown(m)'
    BY <1>4 DEF AllKnown, CheckNode
  <2>1. /\ \A o \in Callers \ {h} : nodeCall'[o] = nodeCall[o]
        /\ nodeCall'[h] = Asking(n)
    BY <1>4 DEF CheckNode, FleetTypeOK, Callers
  <2>2. nodeCall'[h].node = m => Fits(nodeCall[h], m)'
    BY <1>4, <2>1 DEF CheckNode, Fits, Exists, Asking, Words
  <2>3. NodeKnown(m) /\ h \in Callers
    BY DEF AllKnown, Callers
  <2>4. QED
    BY <1>4, <2>1, <2>2, <2>3, RowKept, KnownFits DEF CheckNode
<1>5. QED
  BY <1>1, <1>2, <1>3, <1>4

(* Saves of an entity that fits the row.                                   *)
LEMMA EditObeys ==
  ASSUME FleetTypeOK, NEW n \in Fleet, NodeKnown(n), Exists(n),
         NEW word \in {"serving", "drained", "same"}, NEW copy \in NodeRow,
         Words(copy, Edited(nodeRow[n], word)), nodeRow'[n] = copy,
         wanted'[n] = IF word = "same" THEN wanted[n] ELSE word
  PROVE  Obeys(n)'
<1>1. nodeRow[n] \in NodeRow /\ copy # NoRow
  BY RowFacts DEF NodeRow, NoRow
<1> DEFINE saved == Edited(nodeRow[n], word)
<1>2. /\ word = "serving" => saved.active = TRUE /\ saved.status = "active"
      /\ word = "drained" => saved.active = FALSE /\ saved.status = "draining"
      /\ word = "same" => saved = nodeRow[n]
  BY <1>1, EditedFacts
<1>3. Exists(n)' /\ copy.active = saved.active /\ copy.status = saved.status
  BY <1>1 DEF Exists, Words
<1>4. Obeys(n) /\ Exists(n)
  BY DEF NodeKnown
<1> HIDE DEF saved
<1>5. CASE word = "same"
  BY <1>2, <1>3, <1>4, <1>5 DEF Obeys
<1>6. CASE word # "same"
  BY <1>2, <1>3, <1>4, <1>6 DEF Obeys
<1>7. QED
  BY <1>5, <1>6

LEMMA CheckObeys ==
  ASSUME FleetTypeOK, NEW n \in Fleet, NodeKnown(n), Exists(n),
         NEW found \in Health, NEW count \in Nat, NEW copy \in NodeRow,
         Words(copy, nodeRow[n]), nodeRow'[n] = Checked(copy, found, count),
         wanted'[n] = wanted[n]
  PROVE  Obeys(n)' /\ Exists(n)' /\ nodeRow'[n].health = found
<1>1. /\ Exists(n)' /\ nodeRow'[n].health = found
      /\ nodeRow'[n].active = copy.active /\ nodeRow'[n].status = copy.status
  BY CheckedFacts DEF Exists
<1>2. QED
  BY <1>1 DEF NodeKnown, Obeys, Words

(* An edit nobody overlapped writes the row it read with its word in it,   *)
(* and a check what it read with what the panel said.                      *)
LEMMA SavesKnown ==
  ASSUME FleetInv, FleetTypeOK', NEW c \in Callers
  PROVE  /\ c \in Hands /\ SaveEdit(c) => AllKnown'
         /\ SaveCheck(c) => AllKnown'
<1> DEFINE call == nodeCall[c]
           n == call.node
<1> USE DEF FleetInv
<1>1. ASSUME c \in Hands, SaveEdit(c) PROVE AllKnown'
  <2>1. call \in NodeCall /\ n \in Fleet /\ Write(n, c) /\ call.copy \in NodeRow
    BY <1>1, FleetCallFacts DEF SaveEdit
  <2>2. call.word \in {"serving", "drained", "same"}
    BY <2>1 DEF NodeCall
  <2>3. /\ nodeCall' = [nodeCall EXCEPT ![c] = NoCall]
        /\ \A m \in Fleet \ {n} : nodeRow'[m] = nodeRow[m] /\ wanted'[m] = wanted[m]
        /\ nodeRow'[n] = call.copy
        /\ wanted'[n] = IF call.word = "same" THEN wanted[n] ELSE call.word
    BY <1>1, <2>1 DEF SaveEdit, FleetTypeOK
  <2> SUFFICES ASSUME NEW m \in Fleet \ raced' PROVE NodeKnown(m)'
    BY DEF AllKnown
  <2>4. NodeKnown(m)
    BY <2>1, WriteFacts DEF AllKnown
  <2>5. nodeCall'[c].node # m /\ \A o \in Callers \ {c} : nodeCall'[o] = nodeCall[o]
    BY <2>3, FleetAssumption DEF FleetTypeOK, NoCall
  <2>6. CASE m # n
    BY <2>3, <2>4, <2>5, <2>6, RowKept, KnownKept
  <2>7. CASE m = n
    <3>1. /\ \A o \in Callers \ {c} : nodeCall[o].node # m
      BY <2>1, <2>7, WriteFacts
    <3>2. Exists(m) /\ Words(call.copy, Edited(nodeRow[m], call.word))
      BY <1>1, <2>4, <2>7 DEF NodeKnown, Fits, SaveEdit
    <3>3. Obeys(m)'
      BY <2>1, <2>2, <2>3, <2>4, <2>7, <3>2, EditObeys
    <3>4. \A o \in Callers : nodeCall'[o].node # m
      BY <2>5, <2>7, <3>1
    <3>5. QED
      BY <2>7, <3>3, <3>4, KnownAlone
  <2>8. QED
    BY <2>6, <2>7
<1>2. ASSUME SaveCheck(c) PROVE AllKnown'
  <2>1. /\ call \in NodeCall /\ n \in Fleet /\ Write(n, c) /\ call.pc = "answered"
        /\ call.copy \in NodeRow
    BY <1>2, FleetCallFacts DEF SaveCheck
  <2>2. call.found \in Health /\ call.count \in Nat
    BY <2>1 DEF NodeCall
  <2>3. /\ wanted' = wanted
        /\ \A m \in Fleet \ {n} : nodeRow'[m] = nodeRow[m]
        /\ nodeRow'[n] = Checked(call.copy, call.found, call.count)
    BY <1>2, <2>1 DEF SaveCheck, FleetTypeOK
  <2>4. /\ \A o \in Callers \ {c} : nodeCall'[o] = nodeCall[o]
        /\ \/ nodeCall'[c].node = NoNode
           \/ call.found # "online" /\ nodeCall'[c] = [call EXCEPT !.pc = "rereading"]
    BY <1>2 DEF SaveCheck, FleetTypeOK, NoCall, NextCall
  <2> SUFFICES ASSUME NEW m \in Fleet \ raced' PROVE NodeKnown(m)'
    BY DEF AllKnown
  <2>5. NodeKnown(m)
    BY <2>1, WriteFacts DEF AllKnown
  <2>6. CASE m # n
    <3>1. nodeCall'[c].node # m
      BY <2>1, <2>4, <2>6, FleetAssumption DEF NodeCall
    <3>2. QED
      BY <2>3, <2>4, <2>5, <2>6, <3>1, RowKept, KnownKept
  <2>7. CASE m = n
    <3>1. \A o \in Callers \ {c} : nodeCall'[o].node # m
      BY <2>1, <2>4, <2>7, WriteFacts
    <3>2. Exists(m) /\ Words(call.copy, nodeRow[m])
      BY <2>1, <2>5, <2>7 DEF NodeKnown, Fits
    <3>3. Obeys(m)' /\ Exists(m)' /\ nodeRow'[m].health = call.found
      BY <2>1, <2>2, <2>3, <2>5, <2>7, <3>2, CheckObeys
    <3>4. nodeCall'[c].node = m => Fits(nodeCall[c], m)'
      BY <2>1, <2>4, <3>3, FleetAssumption DEF Fits, NodeCall
    <3>5. QED
      BY <2>7, <3>1, <3>3, <3>4 DEF NodeKnown
  <2>8. QED
    BY <2>6, <2>7
<1>3. QED
  BY <1>1, <1>2

(* What the panel says touches neither the copy nor the row.               *)
LEMMA AnswerKnown ==
  ASSUME FleetInv, FleetTypeOK', NEW c \in Callers, NEW found \in Health,
         NEW count \in 0 .. MaxNodeCalls, PanelAnswers(c, found, count)
  PROVE  AllKnown'
<1> DEFINE n == nodeCall[c].node
           answered == [nodeCall[c] EXCEPT !.pc = "answered", !.found = found,
                                           !.count = count]
<1> USE DEF FleetInv
<1>1. nodeCall[c] \in NodeCall /\ n \in Fleet /\ nodeCall[c].pc = "asking"
  BY FleetCallFacts DEF PanelAnswers
<1>2. nodeCall' = [nodeCall EXCEPT ![c] = answered]
  BY Zenon DEF PanelAnswers
<1>3. /\ answered.node = n /\ answered.copy = nodeCall[c].copy
      /\ answered.pc = "answered"
  BY <1>1 DEF NodeCall
<1>4. /\ \A o \in Callers \ {c} : nodeCall'[o] = nodeCall[o]
      /\ nodeCall'[c] = answered
  <2> HIDE DEF answered
  <2> QED
    BY <1>2 DEF FleetTypeOK
<1> HIDE DEF answered
<1>5. UNCHANGED <<nodeRow, wanted, raced>>
  BY DEF PanelAnswers
<1> SUFFICES ASSUME NEW m \in Fleet \ raced PROVE NodeKnown(m)'
  BY <1>5 DEF AllKnown
<1>6. NodeKnown(m)
  BY DEF AllKnown
<1>8. nodeCall'[c].node = m => Fits(nodeCall[c], m)'
  <2>1. SUFFICES ASSUME m = n PROVE Fits(nodeCall[c], m)'
    BY <1>3, <1>4
  <2>2. Exists(m) /\ Words(nodeCall[c].copy, nodeRow[m])
    BY <1>1, <1>6, <2>1 DEF NodeKnown, Fits
  <2>3. QED
    BY <1>3, <1>4, <1>5, <2>1, <2>2 DEF Fits, Exists
<1>9. QED
  BY <1>4, <1>5, <1>6, <1>8, RowKept, KnownFits

(* The sweep between nodes holds none; at a node it holds the row as it is. *)
LEMMA SweepKnown ==
  ASSUME FleetInv, FleetTypeOK'
  PROVE  StartSweep \/ SweepNext \/ Reread => AllKnown'
<1> USE DEF FleetInv
<1>1. "sweep" \in Callers
  BY DEF Callers
<1>2. ASSUME UNCHANGED <<nodeRow, wanted, raced>>,
             \/ nodeCall' = [nodeCall EXCEPT !["sweep"] = NoCall]
             \/ nodeCall' = [nodeCall EXCEPT !["sweep"] = NextCall]
             \/ \E n \in Fleet : /\ Exists(n)
                                 /\ nodeCall' = [nodeCall EXCEPT !["sweep"] = Asking(n)]
      PROVE  AllKnown'
  <2> SUFFICES ASSUME NEW m \in Fleet \ raced PROVE NodeKnown(m)'
    BY <1>2 DEF AllKnown
  <2>1. NodeKnown(m)
    BY DEF AllKnown
  <2>2. \A o \in Callers \ {"sweep"} : nodeCall'[o] = nodeCall[o]
    BY <1>2 DEF FleetTypeOK
  <2>3. nodeCall'["sweep"].node = m => Exists(m) /\ nodeCall'["sweep"] = Asking(m)
    BY <1>1, <1>2, FleetAssumption DEF FleetTypeOK, NoCall, NextCall, Asking
  <2>4. nodeCall'["sweep"].node = m => Fits(nodeCall["sweep"], m)'
    BY <1>2, <2>3 DEF Fits, Exists, Asking, Words
  <2>5. QED
    BY <1>1, <1>2, <2>1, <2>2, <2>4, RowKept, KnownFits
<1>3. ASSUME StartSweep PROVE AllKnown'
  BY <1>2, <1>3 DEF StartSweep
<1>4. ASSUME NEW how, EndSweep(how) PROVE AllKnown'
  BY <1>2, <1>4 DEF EndSweep
<1>5. ASSUME SweepNext PROVE AllKnown'
  <2>1. sweepLog.todo \subseteq Fleet
    BY DEF FleetTypeOK, Sweep
  <2>2. QED
    BY <1>2, <1>4, <1>5, <2>1 DEF SweepNext
<1>6. ASSUME Reread PROVE AllKnown'
  BY <1>2, <1>4, <1>6 DEF Reread
<1>7. QED
  BY <1>3, <1>5, <1>6

(* The counter does not touch the operator's word, held or not.            *)
LEMMA LoadsKnown ==
  ASSUME FleetInv, FleetTypeOK', NEW n \in Fleet
  PROVE  /\ IncrementLoad(n) => AllKnown'
         /\ \A made, heard \in BOOLEAN : PanelCreates(n, made, heard) => AllKnown'
         /\ \A dropped \in BOOLEAN : PanelDeletes(n, dropped) => AllKnown'
         /\ DecrementLoad(n) => AllKnown'
         /\ LoseBacking(n) => AllKnown'
<1> USE DEF FleetInv
<1>1. ASSUME UNCHANGED <<wanted, nodeCall, raced>>,
             \/ nodeRow' = nodeRow
             \/ Exists(n) /\ \E load \in Nat : nodeRow' = [nodeRow EXCEPT ![n].load = load]
      PROVE  AllKnown'
  <2> SUFFICES ASSUME NEW m \in Fleet \ raced PROVE NodeKnown(m)'
    BY <1>1 DEF AllKnown
  <2>1. NodeKnown(m)
    BY DEF AllKnown
  <2>2. CASE nodeRow'[m] = nodeRow[m]
    BY <1>1, <2>1, <2>2, RowKept, KnownKept
  <2>3. CASE nodeRow'[m] # nodeRow[m]
    <3>1. PICK load \in Nat : nodeRow' = [nodeRow EXCEPT ![n].load = load]
      BY <1>1, <2>3
    <3>2. m = n /\ Exists(n)
      BY <1>1, <2>3, <3>1 DEF FleetTypeOK
    <3>3. nodeRow[n] \in NodeRow /\ nodeRow'[n] = [nodeRow[n] EXCEPT !.load = load]
      BY <3>1, <3>2, RowFacts DEF FleetTypeOK
    <3>4. SameWords(n)
      BY <3>2, <3>3 DEF SameWords, Exists, Words, NodeRow, NoRow
    <3>5. QED
      BY <1>1, <2>1, <3>2, <3>4, KnownKept
  <2>4. QED
    BY <2>2, <2>3
<1>2. ASSUME IncrementLoad(n) PROVE AllKnown'
  <2>1. Exists(n) /\ nodeRow[n].load + 1 \in Nat
    BY <1>2, RowFacts DEF IncrementLoad, NodeRow
  <2>2. nodeRow' = [nodeRow EXCEPT ![n].load = nodeRow[n].load + 1]
    BY <1>2 DEF IncrementLoad
  <2>3. QED
    BY <1>1, <1>2, <2>1, <2>2 DEF IncrementLoad
<1>3. ASSUME DecrementLoad(n) PROVE AllKnown'
  <2>1. CASE Exists(n) /\ nodeRow[n].load > 0
    <3>1. nodeRow[n].load - 1 \in Nat
      BY <2>1, RowFacts DEF NodeRow
    <3>2. nodeRow' = [nodeRow EXCEPT ![n].load = nodeRow[n].load - 1]
      BY <1>3, <2>1 DEF DecrementLoad
    <3>3. QED
      BY <1>1, <1>3, <2>1, <3>1, <3>2 DEF DecrementLoad
  <2>2. CASE ~(Exists(n) /\ nodeRow[n].load > 0)
    BY <1>1, <1>3, <2>2 DEF DecrementLoad
  <2>3. QED
    BY <2>1, <2>2
<1>4. QED
  BY <1>1, <1>2, <1>3 DEF PanelCreates, PanelDeletes, LoseBacking

-----------------------------------------------------------------------------
(* The sweep's books.                                                      *)

LEMMA SweepFacts ==
  ASSUME FleetInv
  PROVE  /\ "sweep" \in Callers
         /\ sweepLog.listed \subseteq Fleet /\ sweepLog.todo \subseteq Fleet
         /\ NoNode \notin sweepLog.listed
BY FleetAssumption DEF FleetInv, FleetTypeOK, Sweep, Callers

(* A step that leaves the sweep alone puts no listed node back to new, and *)
(* brings none back from gone unless it has raced.                         *)
LEMMA SweepKept ==
  ASSUME FleetInv, sweepLog' = sweepLog, nodeCall'["sweep"] = nodeCall["sweep"],
         raced \subseteq raced',
         \A n \in Fleet : \/ n \in raced'
                          \/ /\ wanted[n] # "new" => wanted'[n] # "new"
                             /\ wanted[n] = "gone" => wanted'[n] = "gone"
  PROVE  SweepInv'
<1> USE SweepFacts DEF FleetInv, SweepInv
<1>1. (\A n \in sweepLog.listed : wanted[n] # "new" \/ n \in raced)'
  OBVIOUS
<1>2. (\A n \in sweepLog.listed \ sweepLog.todo :
         CountedRight(n) \/ nodeCall["sweep"].node = n \/ sweepLog.ended = "aborted")'
  BY DEF CountedRight
<1>3. (sweepLog.ended = "aborted" =>
         \E n \in sweepLog.listed : wanted[n] = "gone" \/ n \in raced)'
  OBVIOUS
<1>4. QED
  BY <1>1, <1>2, <1>3

LEMMA RowsSweep ==
  ASSUME FleetInv, NEW n \in Fleet
  PROVE  /\ \A setup \in Setup : CreateNode(n, setup) => SweepInv'
         /\ PurgeNode(n) => SweepInv'
         /\ IncrementLoad(n) \/ DecrementLoad(n) \/ LoseBacking(n) => SweepInv'
         /\ \A made, heard \in BOOLEAN : PanelCreates(n, made, heard) => SweepInv'
         /\ \A dropped \in BOOLEAN : PanelDeletes(n, dropped) => SweepInv'
<1>0. /\ FleetTypeOK /\ NoNode \in Callers \cup {NoNode}
      /\ wanted \in [Fleet -> {"new", "serving", "drained", "gone"}]
  BY DEF FleetInv, FleetTypeOK
<1>1. ASSUME NEW setup \in Setup, CreateNode(n, setup) PROVE SweepInv'
  <2>1. sweepLog' = sweepLog /\ nodeCall' = nodeCall /\ raced' = raced
    BY <1>1 DEF CreateNode
  <2>2. \A m \in Fleet : \/ wanted'[m] = wanted[m]
                         \/ wanted[m] = "new" /\ wanted'[m] = "serving"
    BY <1>0, <1>1 DEF CreateNode
  <2>3. QED
    BY <2>1, <2>2, SweepKept
<1>2. ASSUME UNCHANGED <<sweepLog, nodeCall, raced, wanted>> PROVE SweepInv'
  BY <1>2, SweepKept
<1>3. ASSUME PurgeNode(n) PROVE SweepInv'
  <2>1. sweepLog' = sweepLog /\ nodeCall' = nodeCall /\ raced \subseteq raced'
    BY <1>0, <1>3, WriteFacts DEF PurgeNode
  <2>2. \A m \in Fleet : wanted'[m] = wanted[m] \/ wanted'[m] = "gone"
    BY <1>0, <1>3 DEF PurgeNode
  <2>3. QED
    BY <2>1, <2>2, SweepKept
<1>4. QED
  BY <1>1, <1>2, <1>3
  DEF IncrementLoad, DecrementLoad, LoseBacking, PanelCreates, PanelDeletes

LEMMA HandsSweep ==
  ASSUME FleetInv, NEW h \in Hands
  PROVE  /\ \A n \in Fleet, word \in {"serving", "drained", "same"}, setup \in Setup :
              EditNode(h, n, word, setup) => SweepInv'
         /\ \A n \in Fleet : CheckNode(h, n) => SweepInv'
         /\ SaveEdit(h) \/ SaveCheck(h) => SweepInv'
         /\ \A found \in Health, count \in 0 .. MaxNodeCalls :
              PanelAnswers(h, found, count) => SweepInv'
<1>0. /\ h \in Callers /\ h # "sweep" /\ "sweep" \in Callers
      /\ FleetTypeOK /\ AllKnown
      /\ nodeCall \in [Callers -> NodeCall \cup {NoCall, NextCall}]
      /\ wanted \in [Fleet -> {"new", "serving", "drained", "gone"}]
  BY FleetAssumption DEF FleetInv, FleetTypeOK, Callers
<1>1. ASSUME NEW n \in Fleet, NEW word \in {"serving", "drained", "same"},
             NEW setup \in Setup, EditNode(h, n, word, setup)
      PROVE  SweepInv'
  BY <1>0, <1>1, SweepKept DEF EditNode
<1>2. ASSUME NEW n \in Fleet, CheckNode(h, n) PROVE SweepInv'
  BY <1>0, <1>2, SweepKept DEF CheckNode
<1>3. ASSUME SaveEdit(h) PROVE SweepInv'
  <2> DEFINE m == nodeCall[h].node
  <2>1. /\ nodeCall[h] \in NodeCall /\ m \in Fleet /\ Write(m, h)
        /\ nodeCall[h].pc = "editing" /\ sweepLog' = sweepLog
    BY <1>0, <1>3, FleetCallFacts DEF SaveEdit
  <2>2. raced \subseteq raced' /\ nodeCall'["sweep"] = nodeCall["sweep"]
    BY <1>0, <1>3, <2>1, WriteFacts DEF SaveEdit
  <2>3. /\ \A o \in Fleet \ {m} : wanted'[o] = wanted[o]
        /\ wanted'[m] = wanted[m] \/ wanted'[m] \in {"serving", "drained"}
    BY <1>0, <1>3, <2>1 DEF SaveEdit, NodeCall
  <2>4. m \notin raced' => wanted[m] # "gone"
    <3>1. SUFFICES ASSUME m \notin raced' PROVE wanted[m] # "gone"
      OBVIOUS
    <3>2. NodeKnown(m)
      BY <1>0, <2>1, <2>2, <3>1 DEF AllKnown
    <3>3. Exists(m)
      BY <1>0, <3>2 DEF NodeKnown, Fits
    <3>4. QED
      BY <3>2, <3>3 DEF NodeKnown, Obeys
  <2>5. QED
    BY <2>1, <2>2, <2>3, <2>4, SweepKept
<1>4. ASSUME SaveCheck(h) PROVE SweepInv'
  <2>1. nodeCall[h].node \in Fleet /\ Write(nodeCall[h].node, h)
    BY <1>0, <1>4, FleetCallFacts DEF SaveCheck
  <2>2. raced \subseteq raced'
    BY <1>0, <2>1, WriteFacts
  <2>3. QED
    BY <1>0, <1>4, <2>2, SweepKept DEF SaveCheck
<1>5. ASSUME NEW found \in Health, NEW count \in 0 .. MaxNodeCalls,
             PanelAnswers(h, found, count)
      PROVE  SweepInv'
  <2>1. nodeCall'["sweep"] = nodeCall["sweep"]
    BY <1>0, <1>5 DEF PanelAnswers
  <2>2. QED
    BY <1>5, <2>1, SweepKept DEF PanelAnswers
<1>6. QED
  BY <1>1, <1>2, <1>3, <1>4, <1>5

LEMMA SweepAnswers ==
  ASSUME FleetInv, NEW found \in Health, NEW count \in 0 .. MaxNodeCalls,
         PanelAnswers("sweep", found, count)
  PROVE  SweepInv'
<1> DEFINE n == nodeCall["sweep"].node
           answered == [nodeCall["sweep"] EXCEPT !.pc = "answered", !.found = found,
                                                 !.count = count]
<1>1. nodeCall["sweep"] \in NodeCall /\ n \in Fleet
  BY FleetCallFacts, SweepFacts DEF PanelAnswers, FleetInv, FleetTypeOK
<1>2. nodeCall' = [nodeCall EXCEPT !["sweep"] = answered]
  BY Zenon DEF PanelAnswers
<1>3. /\ answered.node = n /\ answered.pc = "answered" /\ answered # NoCall
  BY <1>1 DEF NodeCall, NoCall
<1>4. nodeCall["sweep"] # NoCall
  BY <1>1 DEF NodeCall, NoCall
<1> HIDE DEF answered
<1>5. nodeCall'["sweep"] = answered
  BY <1>2, SweepFacts DEF FleetInv, FleetTypeOK
<1>6. sweepLog' = sweepLog /\ wanted' = wanted /\ raced \subseteq raced'
  BY DEF PanelAnswers
<1>7. (\A m \in sweepLog.listed : wanted[m] # "new" \/ m \in raced)'
      /\ (sweepLog.ended = "aborted" =>
            \E m \in sweepLog.listed : wanted[m] = "gone" \/ m \in raced)'
  BY <1>6 DEF FleetInv, SweepInv
<1>8. (\A m \in sweepLog.listed \ sweepLog.todo :
         CountedRight(m) \/ nodeCall["sweep"].node = m \/ sweepLog.ended = "aborted")'
  BY <1>3, <1>5, <1>6 DEF FleetInv, SweepInv, CountedRight
<1>9. QED
  BY <1>3, <1>4, <1>5, <1>6, <1>7, <1>8 DEF FleetInv, SweepInv

(* A node that answered is counted; one that failed waits for its fresh row. *)
LEMMA SweepSaves ==
  ASSUME FleetInv, SaveCheck("sweep")
  PROVE  SweepInv'
<1> DEFINE call == nodeCall["sweep"]
<1> USE SweepFacts
<1>1. /\ call \in NodeCall /\ call.node \in Fleet /\ call.pc = "answered"
      /\ call.node \in sweepLog.listed /\ sweepLog.ended = "no"
  BY FleetCallFacts DEF SaveCheck, FleetInv, FleetTypeOK, SweepInv, NodeCall, NoCall
<1> PICK n \in Fleet : n = call.node
  BY <1>1
<1>2. wanted' = wanted /\ raced \subseteq raced'
  BY <1>1, WriteFacts DEF SaveCheck, FleetInv, FleetTypeOK
<1>3. CASE call.found = "online"
  <2>1. nodeCall'["sweep"] = NextCall
    BY <1>3 DEF SaveCheck, FleetInv, FleetTypeOK
  <2>2. /\ sweepLog'.ended = sweepLog.ended /\ sweepLog'.todo = sweepLog.todo
        /\ sweepLog'.listed = sweepLog.listed
        /\ sweepLog'.counted = [sweepLog.counted EXCEPT ![n] = "online"]
        /\ sweepLog'.found = [sweepLog.found EXCEPT ![n] = "online"]
    BY <1>1, <1>3 DEF SaveCheck, FleetInv, FleetTypeOK, Sweep
  <2>3. /\ sweepLog.counted \in [Fleet -> Health \cup {"none"}]
        /\ sweepLog.found \in [Fleet -> Health \cup {"none"}]
    BY DEF FleetInv, FleetTypeOK, Sweep
  <2>4. ASSUME NEW m \in sweepLog.listed \ sweepLog.todo
        PROVE  CountedRight(m)'
    <3>1. m # n => CountedRight(m)
      BY <1>1 DEF FleetInv, SweepInv
    <3>2. QED
      BY <1>2, <2>2, <2>3, <3>1 DEF CountedRight
  <2>5. QED
    BY <1>1, <1>2, <2>1, <2>2, <2>4, FleetAssumption
    DEF FleetInv, SweepInv, NextCall, NoCall
<1>4. CASE call.found # "online"
  <2>1. nodeCall'["sweep"] = [call EXCEPT !.pc = "rereading"]
    BY <1>4 DEF SaveCheck, FleetInv, FleetTypeOK
  <2>2. /\ nodeCall'["sweep"].node = n /\ nodeCall'["sweep"].found = call.found
        /\ nodeCall'["sweep"].pc = "rereading"
    BY <1>1, <2>1 DEF NodeCall
  <2>3. /\ sweepLog'.ended = sweepLog.ended /\ sweepLog'.todo = sweepLog.todo
        /\ sweepLog'.listed = sweepLog.listed
        /\ sweepLog'.counted = sweepLog.counted
        /\ sweepLog'.found = [sweepLog.found EXCEPT ![n] = call.found]
    BY <1>1, <1>4 DEF SaveCheck, FleetInv, FleetTypeOK, Sweep
  <2>4. sweepLog.found \in [Fleet -> Health \cup {"none"}]
    BY DEF FleetInv, FleetTypeOK, Sweep
  <2>5. ASSUME NEW m \in sweepLog.listed \ sweepLog.todo, m # n
        PROVE  CountedRight(m)'
    <3>1. CountedRight(m)
      BY <1>1, <2>5 DEF FleetInv, SweepInv
    <3>2. QED
      BY <1>2, <2>3, <2>4, <2>5, <3>1 DEF CountedRight
  <2>6. QED
    BY <1>1, <1>2, <2>2, <2>3, <2>4, <2>5 DEF FleetInv, SweepInv
<1>5. QED
  BY <1>3, <1>4

(* What ends a sweep: nothing left to do, or a listed node gone or raced.  *)
LEMMA SweepEnds ==
  ASSUME FleetInv, NEW how \in {"done", "aborted"}, EndSweep(how),
         how = "done" => sweepLog.todo = {} /\ nodeCall["sweep"] = NextCall,
         how = "aborted" => \E n \in sweepLog.listed : wanted[n] = "gone" \/ n \in raced
  PROVE  SweepInv'
<1> USE SweepFacts
<1>1. nodeCall'["sweep"] = NoCall /\ wanted' = wanted /\ raced' = raced
  BY DEF EndSweep, FleetInv, FleetTypeOK
<1>2. /\ sweepLog'.ended = how
      /\ sweepLog'.todo = sweepLog.todo /\ sweepLog'.listed = sweepLog.listed
      /\ sweepLog'.counted = sweepLog.counted /\ sweepLog'.found = sweepLog.found
  BY DEF EndSweep, FleetInv, FleetTypeOK, Sweep
<1>3. NoCall.node = NoNode /\ NoCall.pc = "idle" /\ NoNode \notin Fleet
  BY FleetAssumption DEF NoCall
<1>4. \A n \in sweepLog.listed : wanted[n] # "new" \/ n \in raced
  BY DEF FleetInv, SweepInv
<1>5. ASSUME how = "done", NEW n \in sweepLog.listed \ sweepLog.todo
      PROVE  CountedRight(n)'
  <2>1. nodeCall["sweep"].node = NoNode /\ sweepLog.ended = "no"
    BY <1>5 DEF NextCall, NoCall, FleetInv, SweepInv
  <2>2. CountedRight(n)
    BY <2>1 DEF FleetInv, SweepInv
  <2>3. QED
    BY <1>1, <1>2, <2>2 DEF CountedRight
<1>6. sweepLog.todo \subseteq sweepLog.listed
  BY DEF FleetInv, SweepInv
<1>7. QED
  BY <1>1, <1>2, <1>3, <1>4, <1>5, <1>6 DEF SweepInv

(* A sweep begins with every row; a node it has not seen is not counted.   *)
LEMMA SweepStarts ==
  ASSUME FleetInv, StartSweep
  PROVE  SweepInv'
<1> USE SweepFacts
<1>1. /\ nodeCall'["sweep"] = NextCall /\ wanted' = wanted /\ raced' = raced
  BY DEF StartSweep, FleetInv, FleetTypeOK
<1>2. /\ sweepLog'.ended = "no" /\ sweepLog'.todo = sweepLog'.listed
      /\ sweepLog'.listed = {n \in Fleet : Exists(n)}
  BY DEF StartSweep, Unlogged
<1>3. NextCall.node = NoNode /\ NextCall.pc = "next" /\ NoNode \notin Fleet
  BY FleetAssumption DEF NextCall
<1>4. ASSUME NEW n \in Fleet, Exists(n) PROVE wanted[n] # "new" \/ n \in raced
  BY <1>4 DEF FleetInv, AllKnown, NodeKnown, Obeys
<1>5. QED
  BY <1>1, <1>2, <1>3, <1>4 DEF SweepInv

LEMMA SweepGoesOn ==
  ASSUME FleetInv, SweepNext
  PROVE  SweepInv'
<1> USE SweepFacts
<1>0. nodeCall["sweep"] = NextCall
  BY DEF SweepNext
<1>1. CASE sweepLog.todo = {} /\ EndSweep("done")
  BY <1>0, <1>1, SweepEnds
<1>2. ASSUME NEW n \in sweepLog.todo, ~Exists(n), EndSweep("aborted")
      PROVE  SweepInv'
  <2>1. n \in sweepLog.listed /\ n \in Fleet /\ (wanted[n] # "new" \/ n \in raced)
    BY DEF FleetInv, SweepInv
  <2>2. wanted[n] = "gone" \/ n \in raced
    BY <1>2, <2>1 DEF FleetInv, FleetTypeOK, AllKnown, NodeKnown, Obeys
  <2>3. QED
    BY <1>2, <2>1, <2>2, SweepEnds
<1>3. ASSUME NEW n \in sweepLog.todo,
             nodeCall' = [nodeCall EXCEPT !["sweep"] = Asking(n)],
             sweepLog' = [sweepLog EXCEPT !.todo = @ \ {n}],
             UNCHANGED <<nodeRow, nodeCalls, wanted, raced>>
      PROVE  SweepInv'
  <2>1. /\ sweepLog'.ended = sweepLog.ended /\ sweepLog'.todo = sweepLog.todo \ {n}
        /\ sweepLog'.listed = sweepLog.listed
        /\ sweepLog'.counted = sweepLog.counted /\ sweepLog'.found = sweepLog.found
    BY <1>3 DEF FleetInv, FleetTypeOK, Sweep
  <2>2. nodeCall'["sweep"].node = n /\ nodeCall'["sweep"].pc = "asking"
    BY <1>3 DEF FleetInv, FleetTypeOK, Asking
  <2>3. n \in sweepLog.listed /\ sweepLog.ended = "no" /\ nodeCall["sweep"].node = NoNode
    BY <1>0 DEF FleetInv, SweepInv, NextCall, NoCall
  <2>4. ASSUME NEW m \in sweepLog.listed \ sweepLog.todo PROVE CountedRight(m)'
    <3>1. CountedRight(m)
      BY <2>3 DEF FleetInv, SweepInv
    <3>2. QED
      BY <1>3, <2>1, <3>1 DEF CountedRight
  <2>5. QED
    BY <1>3, <2>1, <2>2, <2>3, <2>4 DEF FleetInv, SweepInv
<1>4. QED
  BY <1>1, <1>2, <1>3 DEF SweepNext

(* A failed node is counted by its fresh row, which is what the check left *)
(* there unless another call wrote it.                                     *)
LEMMA SweepRereads ==
  ASSUME FleetInv, Reread
  PROVE  SweepInv'
<1> USE SweepFacts
<1> DEFINE call == nodeCall["sweep"]
<1>1. /\ call \in NodeCall /\ call.node \in Fleet /\ call.pc = "rereading"
      /\ call.node \in sweepLog.listed /\ sweepLog.ended = "no"
  BY FleetCallFacts DEF Reread, FleetInv, FleetTypeOK, SweepInv, NodeCall, NoCall
<1> PICK n \in Fleet : n = call.node
  BY <1>1
<1>2. n \notin raced => Exists(n) /\ nodeRow[n].health = call.found
                       /\ call.found # "online"
  BY <1>1 DEF FleetInv, AllKnown, NodeKnown, Fits
<1>3. CASE ~Exists(n) /\ EndSweep("aborted")
  BY <1>1, <1>2, <1>3, SweepEnds
<1>4. CASE /\ sweepLog' = Counted(sweepLog, n, nodeRow[n])
           /\ nodeCall' = [nodeCall EXCEPT !["sweep"] = NextCall]
           /\ UNCHANGED <<nodeRow, nodeCalls, wanted, raced>>
  <2>1. /\ sweepLog'.ended = sweepLog.ended /\ sweepLog'.todo = sweepLog.todo
        /\ sweepLog'.listed = sweepLog.listed /\ sweepLog'.found = sweepLog.found
        /\ sweepLog'.counted = [sweepLog.counted EXCEPT ![n] =
              IF nodeRow[n].health = "degraded" THEN "degraded" ELSE "offline"]
    BY <1>4 DEF Counted, FleetInv, FleetTypeOK, Sweep
  <2>2. nodeCall'["sweep"] = NextCall
    BY <1>4 DEF FleetInv, FleetTypeOK
  <2>3. sweepLog.counted \in [Fleet -> Health \cup {"none"}]
    BY DEF FleetInv, FleetTypeOK, Sweep
  <2>4. sweepLog.found[n] = call.found /\ call.found \in Health
    BY <1>1 DEF FleetInv, SweepInv, NodeCall
  <2>5. CountedRight(n)'
    BY <1>2, <1>4, <2>1, <2>3, <2>4 DEF CountedRight, Health
  <2>6. ASSUME NEW m \in sweepLog.listed \ sweepLog.todo, m # n
        PROVE  CountedRight(m)'
    <3>1. CountedRight(m)
      BY <1>1, <2>6 DEF FleetInv, SweepInv
    <3>2. QED
      BY <1>4, <2>1, <2>3, <2>6, <3>1 DEF CountedRight
  <2>7. QED
    BY <1>1, <1>4, <2>1, <2>2, <2>5, <2>6, FleetAssumption
    DEF FleetInv, SweepInv, NextCall, NoCall
<1>5. QED
  BY <1>3, <1>4 DEF Reread

-----------------------------------------------------------------------------
(* The units of load, and who is behind them.                              *)

LEMMA BackingFacts ==
  ASSUME FleetTypeOK, NEW n \in Fleet
  PROVE  Backing(n) \in Nat /\ clients[n] <= Backing(n)
BY RowFacts DEF Backing

(* A call that goes on unchanged stays current while as much is behind its *)
(* node, and so does a row.                                                *)
LEMMA CurrentKept ==
  ASSUME FleetTypeOK, FleetTypeOK', NEW c \in Callers, Current(nodeCall[c]),
         nodeCall'[c] = nodeCall[c],
         nodeCall[c].node \in Fleet =>
           Backing(nodeCall[c].node) <= Backing(nodeCall[c].node)'
  PROVE  Current(nodeCall[c])'
<1>1. PICK call : call = nodeCall[c]
  OBVIOUS
<1>2. PICK after : after = nodeCall'[c]
  OBVIOUS
<1>3. CASE call.node \in Fleet
  <2>1. PICK n \in Fleet : n = call.node
    BY <1>3
  <2>2. PICK b, d : b = Backing(n) /\ d = Backing(n)'
    OBVIOUS
  <2>3. b \in Nat /\ d \in Nat /\ b <= d
    BY <1>1, <2>1, <2>2, RowFacts DEF Backing, FleetTypeOK
  <2>4. call \in NodeCall /\ call.copy \in NodeRow
    BY <1>1, <1>3, FleetCallFacts
  <2>5. call.copy.load \in Nat /\ call.count \in Nat
    BY <2>4 DEF NodeCall, NodeRow
  <2>6. /\ call.pc \in {"editing", "asking"} => call.copy.load <= b
        /\ call.pc = "answered" =>
             (IF call.found = "online" THEN call.count ELSE call.copy.load) <= b
    BY <1>1, <2>1, <2>2 DEF Current
  <2>7. /\ call.pc \in {"editing", "asking"} => call.copy.load <= d
        /\ call.pc = "answered" =>
             (IF call.found = "online" THEN call.count ELSE call.copy.load) <= d
    BY <2>3, <2>5, <2>6
  <2>8. Backing(nodeCall[c].node)' = d
    BY <1>1, <2>1, <2>2
  <2>9. QED
    BY <1>1, <2>7, <2>8 DEF Current
<1>4. CASE call.node \notin Fleet
  <2>1. call.pc \notin {"editing", "asking", "answered"}
    BY <1>1, <1>4, FleetCallFacts
  <2>2. QED
    BY <1>1, <2>1 DEF Current
<1>5. QED
  BY <1>3, <1>4

LEMMA NoneCurrent ==
  ASSUME NEW call, call \in {NoCall, NextCall}
  PROVE  call.pc \notin {"editing", "asking", "answered"}
BY DEF NoCall, NextCall

(* A step of the handlers, which leaves the calls alone.                   *)
LEMMA LoadKept ==
  ASSUME FleetInv, FleetTypeOK', nodeCall' = nodeCall, NEW n \in Fleet,
         outdated \subseteq outdated', inflated \subseteq inflated',
         \A m \in Fleet \ {n} :
           nodeRow'[m] = nodeRow[m] /\ Backing(m)' = Backing(m),
         n \notin inflated' /\ Exists(n)' => nodeRow'[n].load <= Backing(n)',
         Backing(n) <= Backing(n)' \/ Holders(n) \subseteq outdated'
  PROVE  LoadInv'
<1>1. ASSUME NEW m \in Fleet \ inflated', Exists(m)'
      PROVE  nodeRow'[m].load <= Backing(m)'
  <2>1. CASE m = n
    BY <1>1, <2>1
  <2>2. CASE m # n
    BY <1>1, <2>2 DEF FleetInv, LoadInv, Exists
  <2>3. QED
    BY <2>1, <2>2
<1>2. ASSUME NEW c \in Callers \ outdated' PROVE Current(nodeCall[c])'
  <2>1. Current(nodeCall[c])
    BY DEF FleetInv, LoadInv
  <2>2. ASSUME NEW m \in Fleet, m = nodeCall[c].node
        PROVE  Backing(m) <= Backing(m)'
    <3>1. CASE m = n
      BY <2>2, <3>1 DEF Holders
    <3>2. CASE m # n
      <4>1. Backing(m) \in Nat /\ Backing(m)' = Backing(m)
        BY <3>2, BackingFacts DEF FleetInv
      <4>2. QED
        BY <4>1
    <3>3. QED
      BY <3>1, <3>2
  <2>3. QED
    BY <2>1, <2>2, CurrentKept DEF FleetInv
<1>3. QED
  BY <1>1, <1>2 DEF LoadInv

(* A step of the call c that leaves the handlers alone.                    *)
LEMMA CallsCurrent ==
  ASSUME FleetInv, FleetTypeOK', NEW c \in Callers,
         \A o \in Callers \ {c} : nodeCall'[o] = nodeCall[o],
         outdated \ {c} \subseteq outdated',
         \A m \in Fleet : Backing(m)' = Backing(m),
         \A m \in Fleet \ inflated' : Exists(m)' => nodeRow'[m].load <= Backing(m),
         c \notin outdated' => Current(nodeCall[c])'
  PROVE  LoadInv'
<1>1. ASSUME NEW o \in Callers \ outdated' PROVE Current(nodeCall[o])'
  <2>1. CASE o = c
    BY <2>1
  <2>2. CASE o # c
    <3>1. Current(nodeCall[o]) /\ nodeCall'[o] = nodeCall[o]
      BY <2>2 DEF FleetInv, LoadInv
    <3>2. \A m \in Fleet : Backing(m) <= Backing(m)'
      <4>1. \A m \in Fleet : Backing(m) \in Nat /\ Backing(m)' = Backing(m)
        BY BackingFacts DEF FleetInv
      <4>2. QED
        BY <4>1
    <3>3. QED
      BY <3>1, <3>2, CurrentKept DEF FleetInv
  <2>3. QED
    BY <2>1, <2>2
<1>2. QED
  BY <1>1 DEF LoadInv

(* The load a call takes over is current unless the row's is not.          *)
LEMMA TakenOver ==
  ASSUME FleetInv, FleetTypeOK', NEW n \in Fleet, NEW c \in Callers, Exists(n),
         ReadLoad(n, c), c \notin outdated', NEW call,
         call.node = n, call.pc \in {"editing", "asking"},
         call.copy.load = nodeRow[n].load, nodeCall'[c] = call,
         Backing(n)' = Backing(n)
  PROVE  Current(nodeCall[c])'
<1>1. n \notin inflated
  BY DEF ReadLoad
<1>2. nodeRow[n].load <= Backing(n)
  BY <1>1 DEF FleetInv, LoadInv
<1>3. QED
  BY <1>2 DEF Current

(* Rows that were left alone are backed as they were.                      *)
LEMMA RowsBacked ==
  ASSUME FleetInv, NEW n \in Fleet, n \notin inflated, Exists(n)
  PROVE  nodeRow[n].load <= Backing(n)
BY DEF FleetInv, LoadInv

LEMMA EditsBacked ==
  ASSUME FleetInv, FleetTypeOK', NEW n \in Fleet
  PROVE  /\ \A setup \in Setup : CreateNode(n, setup) => LoadInv'
         /\ PurgeNode(n) => LoadInv'
         /\ \A h \in Hands, word \in {"serving", "drained", "same"}, setup \in Setup :
              EditNode(h, n, word, setup) => LoadInv'
         /\ \A h \in Hands : CheckNode(h, n) => LoadInv'
<1> USE DEF handlerVars, loadHistory
<1>0. FleetTypeOK
  BY DEF FleetInv
<1>1. ASSUME NEW setup \in Setup, CreateNode(n, setup) PROVE LoadInv'
  <2>1. /\ nodeCall' = nodeCall /\ outdated' = outdated /\ inflated' = inflated
        /\ \A m \in Fleet : Backing(m)' = Backing(m)
        /\ \A m \in Fleet \ {n} : nodeRow'[m] = nodeRow[m]
        /\ nodeRow'[n].load = 0
    BY <1>0, <1>1 DEF CreateNode, Backing, FleetTypeOK
  <2>2. Backing(n) \in Nat
    BY <1>0, BackingFacts
  <2>3. nodeRow'[n].load <= Backing(n)' /\ Backing(n) <= Backing(n)'
    BY <2>1, <2>2
  <2>4. QED
    BY <2>1, <2>3, LoadKept
<1>2. ASSUME PurgeNode(n) PROVE LoadInv'
  <2>1. /\ nodeCall' = nodeCall /\ outdated' = outdated /\ inflated' = inflated
        /\ \A m \in Fleet : Backing(m)' = Backing(m)
        /\ \A m \in Fleet \ {n} : nodeRow'[m] = nodeRow[m]
        /\ nodeRow'[n] = NoRow
    BY <1>0, <1>2 DEF PurgeNode, Backing, FleetTypeOK
  <2>2. Backing(n) <= Backing(n)' /\ ~Exists(n)'
    <3>1. Backing(n) \in Nat
      BY <1>0, BackingFacts
    <3>2. QED
      BY <2>1, <3>1 DEF Exists
  <2>3. QED
    BY <2>1, <2>2, LoadKept
<1>3. ASSUME NEW h \in Hands, ReadLoad(n, h), Exists(n), NEW call,
             call.node = n, call.pc \in {"editing", "asking"},
             call.copy.load = nodeRow[n].load,
             nodeCall' = [nodeCall EXCEPT ![h] = call],
             UNCHANGED <<nodeRow, clients, creating, giving>>
      PROVE  LoadInv'
  <2>0. h \in Callers
    BY DEF Callers
  <2>1. /\ \A o \in Callers \ {h} : nodeCall'[o] = nodeCall[o]
        /\ nodeCall'[h] = call
    BY <1>0, <1>3, <2>0 DEF FleetTypeOK
  <2>2. /\ \A m \in Fleet : Backing(m)' = Backing(m)
        /\ outdated \ {h} \subseteq outdated' /\ inflated' = inflated
    BY <1>3 DEF Backing, ReadLoad
  <2>3. \A m \in Fleet \ inflated' : Exists(m)' => nodeRow'[m].load <= Backing(m)
    BY <1>3, <2>2, RowsBacked DEF Exists
  <2>4. h \notin outdated' => Current(nodeCall[h])'
    BY <1>3, <2>0, <2>1, <2>2, TakenOver
  <2>5. QED
    BY <2>0, <2>1, <2>2, <2>3, <2>4, CallsCurrent
<1>4. ASSUME NEW h \in Hands, NEW word \in {"serving", "drained", "same"},
             NEW setup \in Setup, EditNode(h, n, word, setup)
      PROVE  LoadInv'
  <2> DEFINE edited == Edited(nodeRow[n], word)
             copy == [edited EXCEPT !.setup = setup]
             call == [pc |-> "editing", node |-> n, copy |-> copy, word |-> word,
                      found |-> "offline", count |-> 0]
  <2>1. edited \in NodeRow /\ edited.load = nodeRow[n].load
    BY <1>0, <1>4, RowFacts, EditedFacts DEF EditNode
  <2>2. copy.load = nodeRow[n].load
    BY <2>1 DEF NodeRow
  <2> HIDE DEF copy
  <2>3. /\ call.node = n /\ call.pc \in {"editing", "asking"}
        /\ call.copy.load = nodeRow[n].load
    BY <2>2
  <2>4. nodeCall' = [nodeCall EXCEPT ![h] = call]
    BY <1>4 DEF copy, EditNode
  <2> HIDE DEF call
  <2>5. QED
    BY <1>3, <1>4, <2>3, <2>4 DEF EditNode
<1>5. ASSUME NEW h \in Hands, CheckNode(h, n) PROVE LoadInv'
  <2>1. /\ Asking(n).node = n /\ Asking(n).pc \in {"editing", "asking"}
        /\ Asking(n).copy.load = nodeRow[n].load
    BY DEF Asking
  <2>2. QED
    BY <1>3, <1>5, <2>1 DEF CheckNode
<1>6. QED
  BY <1>1, <1>2, <1>4, <1>5

(* A save writes a load that is current, or marks the row.                 *)
LEMMA SavesBacked ==
  ASSUME FleetInv, FleetTypeOK', NEW c \in Callers
  PROVE  /\ c \in Hands /\ SaveEdit(c) => LoadInv'
         /\ SaveCheck(c) => LoadInv'
<1> USE DEF handlerVars, loadHistory
<1>0. FleetTypeOK
  BY DEF FleetInv
<1>1. ASSUME NEW n \in Fleet, nodeCall[c].node = n, SaveLoad(n, c), NEW row,
             nodeRow' = [nodeRow EXCEPT ![n] = row],
             c \notin outdated => row.load <= Backing(n),
             \A o \in Callers \ {c} : nodeCall'[o] = nodeCall[o],
             nodeCall'[c].pc \notin {"editing", "asking", "answered"},
             UNCHANGED <<clients, creating, giving>>
      PROVE  LoadInv'
  <2>1. /\ \A m \in Fleet \ {n} : nodeRow'[m] = nodeRow[m]
        /\ nodeRow'[n] = row
    BY <1>0, <1>1 DEF FleetTypeOK
  <2>2. /\ outdated \ {c} \subseteq outdated'
        /\ \A m \in Fleet \ {n} : m \in inflated => m \in inflated'
        /\ n \notin inflated' => c \notin outdated
    BY <1>1 DEF SaveLoad
  <2>3. \A m \in Fleet \ inflated' : Exists(m)' => nodeRow'[m].load <= Backing(m)
    <3>1. SUFFICES ASSUME NEW m \in Fleet \ inflated', Exists(m)'
                   PROVE  nodeRow'[m].load <= Backing(m)
      OBVIOUS
    <3>2. CASE m = n
      BY <1>1, <2>1, <2>2, <3>2
    <3>3. CASE m # n
      BY <2>1, <2>2, <3>1, <3>3, RowsBacked DEF Exists
    <3>4. QED
      BY <3>2, <3>3
  <2>4. Current(nodeCall[c])'
    BY <1>1 DEF Current
  <2>5. \A m \in Fleet : Backing(m)' = Backing(m)
    BY <1>1 DEF Backing
  <2>6. QED
    BY <1>1, <2>2, <2>3, <2>4, <2>5, CallsCurrent
<1>2. ASSUME c \in Hands, SaveEdit(c) PROVE LoadInv'
  <2>1. PICK call : call = nodeCall[c]
    OBVIOUS
  <2>2. call \in NodeCall /\ call.node \in Fleet /\ call.pc = "editing"
    BY <1>0, <1>2, <2>1, FleetCallFacts DEF SaveEdit
  <2>3. c \notin outdated => call.copy.load <= Backing(call.node)
    BY <2>1, <2>2 DEF FleetInv, LoadInv, Current
  <2>4. /\ \A o \in Callers \ {c} : nodeCall'[o] = nodeCall[o]
        /\ nodeCall'[c] = NoCall
    BY <1>0, <1>2 DEF SaveEdit, FleetTypeOK
  <2>5. QED
    BY <1>1, <1>2, <2>1, <2>2, <2>3, <2>4, NoneCurrent DEF SaveEdit
<1>3. ASSUME SaveCheck(c) PROVE LoadInv'
  <2>1. PICK call : call = nodeCall[c]
    OBVIOUS
  <2>2. /\ call \in NodeCall /\ call.node \in Fleet /\ call.pc = "answered"
        /\ call.copy \in NodeRow
    BY <1>0, <1>3, <2>1, FleetCallFacts DEF SaveCheck
  <2>3. call.found \in Health /\ call.count \in Nat
    BY <2>2 DEF NodeCall
  <2>4. PICK row : row = Checked(call.copy, call.found, call.count)
    OBVIOUS
  <2>5. row.load = IF call.found = "online" THEN call.count ELSE call.copy.load
    BY <2>2, <2>3, <2>4, CheckedFacts
  <2>6. c \notin outdated =>
          (IF call.found = "online" THEN call.count ELSE call.copy.load)
            <= Backing(call.node)
    BY <2>1, <2>2 DEF FleetInv, LoadInv, Current
  <2>7. /\ \A o \in Callers \ {c} : nodeCall'[o] = nodeCall[o]
        /\ nodeCall'[c].pc \notin {"editing", "asking", "answered"}
    <3>1. \/ nodeCall' = [nodeCall EXCEPT ![c] = NoCall]
          \/ nodeCall' = [nodeCall EXCEPT ![c] = NextCall]
          \/ nodeCall' = [nodeCall EXCEPT ![c] = [call EXCEPT !.pc = "rereading"]]
      BY <1>3, <2>1 DEF SaveCheck
    <3>2. PICK after : after = [call EXCEPT !.pc = "rereading"]
      OBVIOUS
    <3>3. after.pc = "rereading"
      BY ONLY <2>2, <3>2 DEF NodeCall
    <3>4. ASSUME NEW next, next.pc \notin {"editing", "asking", "answered"},
                 nodeCall' = [nodeCall EXCEPT ![c] = next]
          PROVE  /\ \A o \in Callers \ {c} : nodeCall'[o] = nodeCall[o]
                 /\ nodeCall'[c].pc \notin {"editing", "asking", "answered"}
      BY <1>0, <3>4 DEF FleetTypeOK
    <3>5. /\ NoCall.pc \notin {"editing", "asking", "answered"}
          /\ NextCall.pc \notin {"editing", "asking", "answered"}
      BY DEF NoCall, NextCall
    <3>6. CASE nodeCall' = [nodeCall EXCEPT ![c] = NoCall]
      BY <3>4, <3>5, <3>6
    <3>7. CASE nodeCall' = [nodeCall EXCEPT ![c] = NextCall]
      BY <3>4, <3>5, <3>7
    <3>8. CASE nodeCall' = [nodeCall EXCEPT ![c] = after]
      BY <3>3, <3>4, <3>8
    <3>9. QED
      BY <3>1, <3>2, <3>6, <3>7, <3>8, Zenon
  <2>8. /\ SaveLoad(call.node, c) /\ UNCHANGED <<clients, creating, giving>>
        /\ nodeRow' = [nodeRow EXCEPT ![call.node] = row]
    BY <1>3, <2>1, <2>4 DEF SaveCheck
  <2>9. c \notin outdated => row.load <= Backing(call.node)
    BY <2>5, <2>6
  <2>10. PICK n \in Fleet : n = call.node
    BY <2>2
  <2>11. QED
    BY <1>1, <2>1, <2>7, <2>8, <2>9, <2>10
<1>4. QED
  BY <1>2, <1>3

(* What the panel counts are some of its clients.                          *)
LEMMA AnswerBacked ==
  ASSUME FleetInv, FleetTypeOK', NEW c \in Callers, NEW found \in Health,
         NEW count \in 0 .. MaxNodeCalls, PanelAnswers(c, found, count)
  PROVE  LoadInv'
<1>0. FleetTypeOK
  BY DEF FleetInv
<1>1. PICK call : call = nodeCall[c]
  OBVIOUS
<1>2. call \in NodeCall /\ call.node \in Fleet /\ call.pc = "asking"
  BY <1>0, <1>1, FleetCallFacts DEF PanelAnswers
<1>3. PICK n \in Fleet : n = call.node
  BY <1>2
<1>4. PICK after : after = [call EXCEPT !.pc = "answered", !.found = found,
                                        !.count = count]
  OBVIOUS
<1>5. /\ after.pc = "answered" /\ after.node = n /\ after.copy = call.copy
      /\ after.found = found /\ after.count = count
  BY ONLY <1>2, <1>3, <1>4 DEF NodeCall
<1>6. nodeCall' = [nodeCall EXCEPT ![c] = after]
  BY <1>1, <1>4, Zenon DEF PanelAnswers
<1>7. /\ \A o \in Callers \ {c} : nodeCall'[o] = nodeCall[o]
      /\ nodeCall'[c] = after
  BY <1>0, <1>6 DEF FleetTypeOK
<1>8. /\ \A m \in Fleet : Backing(m)' = Backing(m)
      /\ nodeRow' = nodeRow /\ inflated' = inflated
      /\ outdated \ {c} \subseteq outdated'
  BY DEF PanelAnswers, handlerVars, Backing
<1>9. found = "online" => count <= clients[n]
  BY <1>1, <1>3 DEF PanelAnswers
<1>10. found # "online" => outdated' = outdated
  BY DEF PanelAnswers
<1>11. c \notin outdated' => (IF found = "online" THEN count ELSE call.copy.load) <= Backing(n)
  <2>1. CASE found = "online"
    <3>1. Backing(n) \in Nat /\ clients[n] \in Nat /\ clients[n] <= Backing(n)
      BY <1>0, BackingFacts, RowFacts
    <3>2. count \in Nat
      BY FleetAssumption
    <3>3. QED
      BY <1>9, <2>1, <3>1, <3>2
  <2>2. CASE found # "online"
    BY <1>1, <1>2, <1>3, <1>10, <2>2 DEF FleetInv, LoadInv, Current
  <2>3. QED
    BY <2>1, <2>2
<1>12. c \notin outdated' => Current(nodeCall[c])'
  <2>1. Backing(n)' = Backing(n)
    BY <1>8
  <2>2. Backing(nodeCall[c].node)' = Backing(n)
    BY <1>5, <1>7, <2>1
  <2>3. QED
    BY <1>5, <1>7, <1>11, <2>2 DEF Current
<1>13. \A m \in Fleet \ inflated' : Exists(m)' => nodeRow'[m].load <= Backing(m)
  BY <1>8, RowsBacked DEF Exists
<1>14. QED
  BY <1>7, <1>8, <1>12, <1>13, CallsCurrent

LEMMA SweepBacked ==
  ASSUME FleetInv, FleetTypeOK'
  PROVE  StartSweep \/ SweepNext \/ Reread => LoadInv'
<1> USE DEF handlerVars, loadHistory
<1>0. FleetTypeOK /\ "sweep" \in Callers
  BY DEF FleetInv, Callers
<1>1. ASSUME NEW call, nodeCall' = [nodeCall EXCEPT !["sweep"] = call],
             \/ call \in {NoCall, NextCall} /\ UNCHANGED <<outdated, inflated>>
             \/ \E n \in Fleet : Exists(n) /\ call = Asking(n) /\ ReadLoad(n, "sweep"),
             UNCHANGED <<nodeRow, clients, creating, giving>>
      PROVE  LoadInv'
  <2>1. /\ \A o \in Callers \ {"sweep"} : nodeCall'[o] = nodeCall[o]
        /\ nodeCall'["sweep"] = call
    BY <1>0, <1>1 DEF FleetTypeOK
  <2>2. /\ \A m \in Fleet : Backing(m)' = Backing(m)
        /\ outdated \ {"sweep"} \subseteq outdated' /\ inflated' = inflated
    BY <1>1 DEF Backing, ReadLoad
  <2>3. \A m \in Fleet \ inflated' : Exists(m)' => nodeRow'[m].load <= Backing(m)
    BY <1>1, <2>2, RowsBacked DEF Exists
  <2>4. "sweep" \notin outdated' => Current(nodeCall["sweep"])'
    <3>1. CASE call \in {NoCall, NextCall}
      BY <2>1, <3>1, NoneCurrent DEF Current
    <3>2. CASE \E n \in Fleet : Exists(n) /\ call = Asking(n) /\ ReadLoad(n, "sweep")
      <4>1. PICK n \in Fleet : Exists(n) /\ call = Asking(n) /\ ReadLoad(n, "sweep")
        BY <3>2
      <4>2. /\ call.node = n /\ call.pc \in {"editing", "asking"}
            /\ call.copy.load = nodeRow[n].load
        BY <4>1 DEF Asking
      <4>3. QED
        BY <1>0, <2>1, <2>2, <4>1, <4>2, TakenOver
    <3>3. QED
      BY <1>1, <3>1, <3>2
  <2>5. QED
    BY <1>0, <2>1, <2>2, <2>3, <2>4, CallsCurrent
<1>2. ASSUME StartSweep PROVE LoadInv'
  BY <1>1, <1>2 DEF StartSweep
<1>3. ASSUME NEW how, EndSweep(how) PROVE LoadInv'
  BY <1>1, <1>3 DEF EndSweep
<1>4. ASSUME SweepNext PROVE LoadInv'
  <2>1. CASE \E how \in {"done", "aborted"} : EndSweep(how)
    BY <1>3, <2>1
  <2>2. CASE ~\E how \in {"done", "aborted"} : EndSweep(how)
    <3>1. PICK n \in sweepLog.todo :
            /\ Exists(n)
            /\ nodeCall' = [nodeCall EXCEPT !["sweep"] = Asking(n)]
            /\ ReadLoad(n, "sweep")
            /\ UNCHANGED <<nodeRow, clients, creating, giving>>
      BY <1>4, <2>2 DEF SweepNext
    <3>2. n \in Fleet
      BY <1>0 DEF FleetTypeOK, Sweep
    <3>3. QED
      BY <1>1, <3>1, <3>2
  <2>3. QED
    BY <2>1, <2>2
<1>5. ASSUME Reread PROVE LoadInv'
  BY <1>1, <1>3, <1>5 DEF Reread
<1>6. QED
  BY <1>2, <1>4, <1>5

(* A unit is counted in with its handler, and out with it.                 *)
LEMMA LoadsBacked ==
  ASSUME FleetInv, FleetTypeOK', NEW n \in Fleet
  PROVE  /\ IncrementLoad(n) => LoadInv'
         /\ \A made, heard \in BOOLEAN : PanelCreates(n, made, heard) => LoadInv'
         /\ \A dropped \in BOOLEAN : PanelDeletes(n, dropped) => LoadInv'
         /\ DecrementLoad(n) => LoadInv'
         /\ LoseBacking(n) => LoadInv'
<1> USE DEF handlerVars, loadHistory
<1>0. /\ FleetTypeOK
      /\ clients[n] \in Nat /\ creating[n] \in Nat /\ giving[n] \in Nat
      /\ Backing(n) = clients[n] + creating[n] + giving[n]
      /\ Exists(n) => nodeRow[n] \in NodeRow /\ nodeRow[n].load \in Nat
      /\ n \notin inflated /\ Exists(n) => nodeRow[n].load <= Backing(n)
  BY RowFacts, RowsBacked DEF FleetInv, Backing, NodeRow
<1>1. ASSUME UNCHANGED <<nodeRow, nodeCall, outdated, inflated>>,
             \A m \in Fleet \ {n} : Backing(m)' = Backing(m),
             Backing(n) <= Backing(n)', Backing(n)' \in Nat
      PROVE  LoadInv'
  <2>1. n \notin inflated' /\ Exists(n)' => nodeRow'[n].load <= Backing(n)'
    BY <1>0, <1>1 DEF Exists
  <2>2. QED
    BY <1>1, <2>1, LoadKept
<1>2. ASSUME IncrementLoad(n) PROVE LoadInv'
  <2>1. /\ \A m \in Fleet \ {n} : nodeRow'[m] = nodeRow[m] /\ Backing(m)' = Backing(m)
        /\ Backing(n)' = Backing(n) + 1
        /\ nodeCall' = nodeCall /\ outdated' = outdated /\ inflated' = inflated
    BY <1>0, <1>2 DEF IncrementLoad, Backing, FleetTypeOK
  <2>2. Exists(n) /\ nodeRow'[n].load = nodeRow[n].load + 1
    BY <1>0, <1>2, RowFacts DEF IncrementLoad, NodeRow, FleetTypeOK
  <2>3. /\ n \notin inflated' => nodeRow'[n].load <= Backing(n)'
        /\ Backing(n) <= Backing(n)'
    BY <1>0, <2>1, <2>2
  <2>4. QED
    BY <2>1, <2>3, LoadKept
<1>3. ASSUME NEW made \in BOOLEAN, NEW heard \in BOOLEAN, PanelCreates(n, made, heard)
      PROVE  LoadInv'
  <2>1. /\ UNCHANGED <<nodeRow, nodeCall, outdated, inflated>>
        /\ \A m \in Fleet \ {n} : Backing(m)' = Backing(m)
    BY <1>0, <1>3 DEF PanelCreates, Backing, FleetTypeOK
  <2>2. /\ creating'[n] = creating[n] - 1
        /\ clients'[n] = IF made THEN clients[n] + 1 ELSE clients[n]
        /\ giving'[n] = IF heard THEN giving[n] ELSE giving[n] + 1
        /\ heard => made
        /\ creating[n] > 0
    BY <1>0, <1>3 DEF PanelCreates, FleetTypeOK
  <2>3. Backing(n) <= Backing(n)' /\ Backing(n)' \in Nat
    BY <1>0, <2>2 DEF Backing
  <2>4. QED
    BY <1>1, <2>1, <2>3
<1>4. ASSUME NEW dropped \in BOOLEAN, PanelDeletes(n, dropped) PROVE LoadInv'
  <2>1. /\ UNCHANGED <<nodeRow, nodeCall, outdated, inflated>>
        /\ \A m \in Fleet \ {n} : Backing(m)' = Backing(m)
    BY <1>0, <1>4 DEF PanelDeletes, Backing, FleetTypeOK
  <2>2. /\ creating'[n] = creating[n]
        /\ clients'[n] = IF dropped THEN clients[n] - 1 ELSE clients[n]
        /\ giving'[n] = giving[n] + 1
        /\ dropped => clients[n] > 0
    BY <1>0, <1>4 DEF PanelDeletes, FleetTypeOK
  <2>3. Backing(n) <= Backing(n)' /\ Backing(n)' \in Nat
    BY <1>0, <2>2 DEF Backing
  <2>4. QED
    BY <1>1, <2>1, <2>3
<1>5. ASSUME DecrementLoad(n) PROVE LoadInv'
  <2>1. /\ \A m \in Fleet \ {n} : nodeRow'[m] = nodeRow[m] /\ Backing(m)' = Backing(m)
        /\ Backing(n)' = Backing(n) - 1 /\ giving[n] > 0
        /\ nodeCall' = nodeCall /\ inflated' = inflated
        /\ outdated' = outdated \cup Holders(n)
    BY <1>0, <1>5 DEF DecrementLoad, Backing, FleetTypeOK
  <2>2. n \notin inflated /\ Exists(n)' => nodeRow'[n].load <= Backing(n)'
    <3>1. SUFFICES ASSUME n \notin inflated, Exists(n)'
                   PROVE  nodeRow'[n].load <= Backing(n)'
      OBVIOUS
    <3>2. CASE Exists(n) /\ nodeRow[n].load > 0
      <4>1. nodeRow'[n].load = nodeRow[n].load - 1
        BY <1>0, <1>5, <3>2 DEF DecrementLoad, FleetTypeOK, NodeRow
      <4>2. QED
        BY <1>0, <2>1, <3>1, <3>2, <4>1
    <3>3. CASE ~(Exists(n) /\ nodeRow[n].load > 0)
      <4>1. nodeRow'[n] = nodeRow[n] /\ Exists(n)
        BY <1>5, <3>1, <3>3 DEF DecrementLoad, Exists
      <4>2. nodeRow[n].load = 0
        BY <1>0, <3>3, <4>1
      <4>3. QED
        BY <1>0, <2>1, <4>1, <4>2
    <3>4. QED
      BY <3>2, <3>3
  <2>3. QED
    BY <2>1, <2>2, LoadKept
<1>6. ASSUME LoseBacking(n) PROVE LoadInv'
  <2>1. /\ \A m \in Fleet \ {n} : Backing(m)' = Backing(m)
        /\ nodeRow' = nodeRow /\ nodeCall' = nodeCall
        /\ inflated' = inflated \cup {n} /\ outdated' = outdated \cup Holders(n)
    BY <1>0, <1>6 DEF LoseBacking, Backing, FleetTypeOK
  <2>2. QED
    BY <2>1, LoadKept
<1>7. QED
  BY <1>2, <1>3, <1>4, <1>5, <1>6

-----------------------------------------------------------------------------
LEMMA FleetStays ==
  ASSUME FleetInv, FleetTypeOK',
         UNCHANGED <<nodeRow, clients, creating, giving, nodeCall, sweepLog, wanted,
                     raced, outdated, inflated>>
  PROVE  FleetInv'
<1>1. AllKnown'
  BY KnownKept, RowKept DEF FleetInv, AllKnown
<1>2. SweepInv'
  BY SweepKept
<1>3. LoadInv'
  BY DEF FleetInv, LoadInv, Current, Backing, Exists
<1>4. QED
  BY <1>1, <1>2, <1>3 DEF FleetInv

LEMMA FleetStep == FleetInv /\ [FleetNext]_fleetVars => FleetInv'
<1> SUFFICES ASSUME FleetInv, [FleetNext]_fleetVars PROVE FleetInv'
  OBVIOUS
<1>0. FleetTypeOK /\ "sweep" \in Callers /\ Hands \subseteq Callers
      /\ \A c \in Callers : c = "sweep" \/ c \in Hands
  BY DEF FleetInv, Callers
<1>1. ASSUME NEW n \in Fleet, NEW setup \in Setup, CreateNode(n, setup) PROVE FleetInv'
  BY <1>0, <1>1, TypesOfEdits, EditsKnown, RowsSweep, EditsBacked DEF FleetInv
<1>2. ASSUME NEW n \in Fleet, PurgeNode(n) PROVE FleetInv'
  BY <1>0, <1>2, TypesOfEdits, EditsKnown, RowsSweep, EditsBacked DEF FleetInv
<1>3. ASSUME NEW n \in Fleet, IncrementLoad(n) \/ DecrementLoad(n) \/ LoseBacking(n)
      PROVE  FleetInv'
  BY <1>0, <1>3, TypesOfLoads, LoadsKnown, RowsSweep, LoadsBacked DEF FleetInv
<1>4. ASSUME NEW n \in Fleet, NEW made \in BOOLEAN, NEW heard \in BOOLEAN,
             PanelCreates(n, made, heard)
      PROVE  FleetInv'
  BY <1>0, <1>4, TypesOfLoads, LoadsKnown, RowsSweep, LoadsBacked DEF FleetInv
<1>5. ASSUME NEW n \in Fleet, NEW dropped \in BOOLEAN, PanelDeletes(n, dropped)
      PROVE  FleetInv'
  BY <1>0, <1>5, TypesOfLoads, LoadsKnown, RowsSweep, LoadsBacked DEF FleetInv
<1>6. ASSUME NEW n \in Fleet, NEW h \in Hands, NEW setup \in Setup,
             NEW word \in {"serving", "drained", "same"}, EditNode(h, n, word, setup)
      PROVE  FleetInv'
  BY <1>0, <1>6, TypesOfEdits, EditsKnown, HandsSweep, EditsBacked DEF FleetInv
<1>7. ASSUME NEW n \in Fleet, NEW h \in Hands, CheckNode(h, n) PROVE FleetInv'
  BY <1>0, <1>7, TypesOfChecks, EditsKnown, HandsSweep, EditsBacked DEF FleetInv
<1>8. ASSUME NEW h \in Hands, SaveEdit(h) PROVE FleetInv'
  BY <1>0, <1>8, TypesOfSaves, SavesKnown, HandsSweep, SavesBacked DEF FleetInv
<1>9. ASSUME NEW c \in Callers, NEW found \in Health, NEW count \in 0 .. MaxNodeCalls,
             PanelAnswers(c, found, count)
      PROVE  FleetInv'
  BY <1>0, <1>9, TypesOfChecks, AnswerKnown, HandsSweep, SweepAnswers, AnswerBacked
  DEF FleetInv
<1>10. ASSUME NEW c \in Callers, SaveCheck(c) PROVE FleetInv'
  BY <1>0, <1>10, TypesOfSaves, SavesKnown, HandsSweep, SweepSaves, SavesBacked
  DEF FleetInv
<1>11. ASSUME StartSweep \/ SweepNext \/ Reread PROVE FleetInv'
  BY <1>0, <1>11, TypesOfSweep, SweepKnown, SweepStarts, SweepGoesOn, SweepRereads,
     SweepBacked
  DEF FleetInv
<1>12. ASSUME AssignHome PROVE FleetInv'
  <2>1. FleetTypeOK'
    BY <1>0, <1>12 DEF FleetTypeOK, AssignHome, LeastLoaded, handlerVars, loadHistory
  <2>2. UNCHANGED <<nodeRow, clients, creating, giving, nodeCall, sweepLog, wanted,
                    raced, outdated, inflated>>
    BY <1>12 DEF AssignHome, handlerVars, loadHistory
  <2>3. QED
    BY <2>1, <2>2, FleetStays
<1>13. ASSUME UNCHANGED fleetVars PROVE FleetInv'
  <2>1. FleetTypeOK'
    BY <1>0, <1>13 DEF fleetVars, FleetTypeOK, handlerVars, loadHistory
  <2>2. UNCHANGED <<nodeRow, clients, creating, giving, nodeCall, sweepLog, wanted,
                    raced, outdated, inflated>>
    BY <1>13 DEF fleetVars, handlerVars, loadHistory
  <2>3. QED
    BY <2>1, <2>2, FleetStays
<1>14. QED
  BY <1>1, <1>2, <1>3, <1>4, <1>5, <1>6, <1>7, <1>8, <1>9, <1>10, <1>11, <1>12, <1>13
  DEF FleetNext

LEMMA FleetInvHolds == FleetSpec => []FleetInv
<1>1. FleetInit => FleetInv
  <2> SUFFICES ASSUME FleetInit PROVE FleetInv
    OBVIOUS
  <2>1. FleetTypeOK
    BY FleetAssumption DEF FleetInit, FleetTypeOK, Unlogged, Sweep
  <2>2. AllKnown
    BY FleetAssumption DEF FleetInit, AllKnown, NodeKnown, Obeys, Exists, NoCall
  <2>3. SweepInv
    BY FleetAssumption DEF FleetInit, SweepInv, Unlogged, NoCall, Callers
  <2>4. LoadInv
    BY NoneCurrent DEF FleetInit, LoadInv, Exists, Current
  <2>5. QED
    BY <2>1, <2>2, <2>3, <2>4 DEF FleetInv
<1>2. QED
  BY <1>1, FleetStep, PTL DEF FleetSpec

(* Every variable of the fleet keeps its type (vpn_nodes and the calls on  *)
(* it).                                                                    *)
THEOREM FleetTypeCorrect == FleetSpec => []FleetTypeOK
<1>1. FleetInv => FleetTypeOK
  BY DEF FleetInv, FleetTypeOK
<1>2. QED
  BY <1>1, FleetInvHolds, PTL

(* A node whose row was never written over a stale copy stands as the      *)
(* operator's last word has it, whatever checks, sweeps and device         *)
(* handlers write (updateNode, disable, purge, checkNode).                 *)
THEOREM OperatorIsObeyed == FleetSpec => []NodeObeysOperator
<1>1. FleetInv => NodeObeysOperator
  BY DEF FleetInv, AllKnown, NodeKnown, Obeys, NodeObeysOperator
<1>2. QED
  BY <1>1, FleetInvHolds, PTL

(* A load outruns neither the panel's clients nor the handlers at work on  *)
(* them, for any number of nodes, callers and device handlers, unless a    *)
(* handler, a client or a stale save left a surplus that no check has      *)
(* taken away (incrementLoad, decrementLoad, checkNode).                   *)
THEOREM LoadIsBackedByClients == FleetSpec => []LoadIsBacked
<1>1. FleetInv => LoadIsBacked
  BY RowsBacked DEF FleetInv, LoadIsBacked, Backing
<1>2. QED
  BY <1>1, FleetInvHolds, PTL

(* A sweep that ends counted every node it listed, under what its check    *)
(* found where nothing raced, and only a purge or a race breaks it off     *)
(* (checkAllNodes).                                                        *)
THEOREM SweepIsComplete == FleetSpec => []SweepCountsAll
<1>1. FleetInv => SweepCountsAll
  <2> SUFFICES ASSUME FleetInv PROVE SweepCountsAll
    OBVIOUS
  <2>1. ASSUME sweepLog.ended = "done", NEW n \in sweepLog.listed
        PROVE  CountedRight(n)
    <3>1. nodeCall["sweep"] = NoCall /\ sweepLog.todo = {}
      BY <2>1 DEF FleetInv, SweepInv
    <3>2. nodeCall["sweep"].node # n
      BY <3>1, SweepFacts DEF NoCall
    <3>3. QED
      BY <2>1, <3>1, <3>2 DEF FleetInv, SweepInv
  <2>2. QED
    BY <2>1 DEF FleetInv, SweepInv, CountedRight, SweepCountsAll
<1>2. QED
  BY <1>1, FleetInvHolds, PTL
=============================================================================
