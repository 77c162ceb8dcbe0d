---------------------------- MODULE DeviceRows ----------------------------
(***************************************************************************)
(* Which row of device_configs is whose: the rows of one subscription, one *)
(* for the service and one for each device, under the device events, the   *)
(* ends of the service and an operator's regeneration of every config.     *)
(* A row is found by the device's id or by its installation's, and made    *)
(* when there is none, with no constraint of the database against two.     *)
(* Every save writes the row as the handler has read it.  What becomes of  *)
(* the clients on the panels is DeviceAccess's subject, and part of        *)
(* whether a config can be generated here.                                 *)
(***************************************************************************)
EXTENDS Naturals, FiniteSets

CONSTANTS
  RowIds,       \* ids of rows; a row made gets one never used (bound)
  Identities,   \* [device, install] of the devices that are in use
  NoId,         \* NULL in a column
  RowHandlers,  \* handlers under way at once
  MaxRowCalls   \* bound: handlers started

DeviceIds == {i.device : i \in Identities}
Installs == {i.install : i \in Identities}

(* An installation id is made up by one installation of the app, so no two *)
(* devices have it.                                                        *)
ASSUME DeviceRowsAssumption ==
  /\ \A i \in Identities : i = [device |-> i.device, install |-> i.install]
  /\ \A i, j \in Identities : i.install = j.install => i.device = j.device
  /\ NoId \notin DeviceIds \cup Installs \cup RowIds
  /\ RowIds # {}
  /\ MaxRowCalls \in Nat

VARIABLES
  configRow,  \* device_configs: [device, install, status]
  svcStatus,    \* provisions.status
  rowCall,    \* what each handler is doing
  rowCalls,   \* handlers started
  pushed,     \* the devices whose config billing was last told is ready
  outcome,    \* history: what the last call on a device came to, if no other
              \*   call overlapped with it
  doubled,    \* history: devices whose row two handlers were making at once
  untold      \* history: devices with a push that did not get to billing

deviceRowVars ==
  <<configRow, svcStatus, rowCall, rowCalls, pushed, outcome, doubled, untold>>

ServiceStatus == {"provisioning", "active", "failed", "suspended", "deleted"}
ConfigStatus == {"pending", "ready", "failed", "revoked", "deleted"}
NoDeviceRow == [device |-> NoId, install |-> NoId, status |-> "none"]
ConfigRows ==
  [device : DeviceIds \cup {NoId}, install : Installs \cup {NoId}, status : ConfigStatus]

(* row is the row a handler works on and as what it has read of it; news   *)
(* are the snapshots a regeneration has still to push; crossed the devices *)
(* on which another handler was under way with it.                         *)
NoRowCall ==
  [step |-> "none", kind |-> "none", who |-> [device |-> NoId, install |-> NoId],
   st |-> "active", row |-> NoId, as |-> NoDeviceRow, list |-> [r \in RowIds |-> NoDeviceRow],
   todo |-> {}, news |-> {}, crossed |-> {}]

DeviceRowsTypeOK ==
  /\ configRow \in [RowIds -> ConfigRows \cup {NoDeviceRow}]
  /\ svcStatus \in ServiceStatus
  /\ \A h \in RowHandlers :
       /\ rowCall[h].step \in {"none", "reading", "finding", "creating", "serving", "closing",
                               "listing", "next", "paying", "service", "saving service",
                               "pushing"}
       /\ rowCall[h].todo \subseteq RowIds /\ rowCall[h].crossed \subseteq DeviceIds
  /\ rowCalls \in 0 .. MaxRowCalls
  /\ pushed \subseteq DeviceIds
  /\ outcome \in [DeviceIds -> {"open", "on", "off", "ended"}]
  /\ doubled \subseteq DeviceIds /\ untold \subseteq DeviceIds

(* The service is paid for and has no device yet, or one that is served.   *)
NoDeviceYet ==
  /\ configRow = [r \in RowIds |-> NoDeviceRow]
  /\ pushed = {}
  /\ outcome = [d \in DeviceIds |-> "open"]

Served(who) ==
  /\ configRow = [r \in RowIds |->
       IF r = CHOOSE s \in RowIds : TRUE
       THEN [device |-> who.device, install |-> who.install, status |-> "ready"]
       ELSE NoDeviceRow]
  /\ pushed = {who.device}
  /\ outcome = [d \in DeviceIds |-> IF d = who.device THEN "on" ELSE "open"]

DeviceRowsInit ==
  /\ NoDeviceYet \/ \E who \in Identities : Served(who)
  /\ svcStatus = "active"
  /\ rowCall = [h \in RowHandlers |-> NoRowCall]
  /\ rowCalls = 0
  /\ doubled = {} /\ untold = {}
-----------------------------------------------------------------------------
RowsOf(d) == {r \in RowIds : configRow[r].device = d}
HasRow(r) == configRow[r] # NoDeviceRow

(* A row made gets an id never used; which one makes no difference.        *)
RoomForRow == \E r \in RowIds : ~HasRow(r)
NewRow == CHOOSE r \in RowIds : ~HasRow(r)

(* Faulty variants of definitions below, for mutation of the runs.         *)
MatchesInstall(who) ==
  {r \in RowIds : HasRow(r) /\ configRow[r].install = who.install}
-----------------------------------------------------------------------------
Call(h) == rowCall[h]
OfDevice(kind) == kind \in {"activate", "revoke"}

(* The devices a handler's call is on.                                     *)
On(call) ==
  CASE OfDevice(call.kind) -> {call.who.device}
    [] call.kind \in {"end", "delete", "regenerate"} -> DeviceIds
    [] OTHER -> {}

StartRowCall(h, call) ==
  /\ Call(h).step = "none" /\ rowCalls < MaxRowCalls
  /\ rowCalls' = rowCalls + 1
  /\ rowCall' = [g \in RowHandlers |->
       IF g = h
       THEN [call EXCEPT !.crossed =
               On(call) \cap UNION {On(Call(f)) : f \in RowHandlers \ {h}}]
       ELSE [Call(g) EXCEPT !.crossed = @ \cup (On(Call(g)) \cap On(call))]]
  /\ outcome' = IF call.kind = "regenerate" THEN outcome
                ELSE [d \in DeviceIds |-> IF d \in On(call) THEN "open" ELSE outcome[d]]

(* The call is over and came to a result, for the devices it was alone on. *)
EndRowCall(h, result) ==
  /\ rowCall' = [rowCall EXCEPT ![h] = NoRowCall]
  /\ outcome' = [d \in DeviceIds |->
       IF d \notin On(Call(h)) THEN outcome[d]
       ELSE IF d \in Call(h).crossed THEN "open"
       ELSE IF Call(h).kind = "regenerate" THEN outcome[d]
       ELSE result]
  /\ UNCHANGED rowCalls

Step(h, call) == rowCall' = [rowCall EXCEPT ![h] = call] /\ UNCHANGED <<rowCalls, outcome>>
GoesTo(h, step) == Step(h, [Call(h) EXCEPT !.step = step])

(* save of a whole row, as it was read but for what the handler sets.      *)
SaveRow(r, row) == configRow' = [configRow EXCEPT ![r] = row]
-----------------------------------------------------------------------------
(* Handlers start: device_activated, device_revoked, the ends of the       *)
(* service (suspend writes its status first, deleteProvisionResources      *)
(* last), a payment, as far as it moves the status, and an operator's      *)
(* regenerateServiceConfig.                                                *)
StartDeviceCall(h, kind, who) ==
  /\ StartRowCall(h, [NoRowCall EXCEPT !.kind = kind, !.who = who,
                        !.step = IF kind = "activate" THEN "reading" ELSE "finding"])
  /\ UNCHANGED <<configRow, svcStatus, pushed, doubled, untold>>

StartEnd(h) ==
  /\ StartRowCall(h, [NoRowCall EXCEPT !.kind = "end", !.step = "listing"])
  /\ svcStatus' = "suspended"
  /\ UNCHANGED <<configRow, pushed, doubled, untold>>

StartDelete(h) ==
  /\ svcStatus # "deleted"
  /\ StartRowCall(h, [NoRowCall EXCEPT !.kind = "delete", !.step = "listing"])
  /\ UNCHANGED <<configRow, svcStatus, pushed, doubled, untold>>

StartPayment(h) ==
  /\ StartRowCall(h, [NoRowCall EXCEPT !.kind = "pay", !.step = "paying"])
  /\ svcStatus' = "provisioning"
  /\ UNCHANGED <<configRow, pushed, doubled, untold>>

StartRegenerate(h) ==
  /\ StartRowCall(h, [NoRowCall EXCEPT !.kind = "regenerate", !.step = "service"])
  /\ UNCHANGED <<configRow, svcStatus, pushed, doubled, untold>>
-----------------------------------------------------------------------------
(* syncDeviceSnapshot and revokeDeviceSnapshot.  ToPush: they return with  *)
(* a snapshot, which their own handler pushes at once and a regeneration   *)
(* when it has them all.                                                   *)
ToPush(h, status) ==
  Step(h, [Call(h) EXCEPT
       !.step = IF Call(h).kind = "regenerate" THEN "next" ELSE "pushing",
       !.news = @ \cup {[device |-> Call(h).who.device, ready |-> status = "ready"]},
       !.row = NoId, !.as = NoDeviceRow, !.st = "active"])

ReadService(h) ==
  /\ Call(h).step = "reading"
  /\ Step(h, [Call(h) EXCEPT !.step = "finding", !.st = svcStatus])
  /\ UNCHANGED <<configRow, svcStatus, pushed, doubled, untold>>

(* findDeviceConfig: by device or by installation; the latest of several   *)
(* is any of them.                                                         *)
Matches(who) ==
  {r \in RowIds : HasRow(r) /\ (configRow[r].device = who.device
                                \/ configRow[r].install = who.install)}

FindRow(h) ==
  /\ Call(h).step = "finding"
  /\ IF Matches(Call(h).who) = {}
     THEN IF Call(h).kind = "revoke" THEN ToPush(h, "none") ELSE GoesTo(h, "creating")
     ELSE \E r \in Matches(Call(h).who) :
            Step(h, [Call(h) EXCEPT !.row = r, !.as = configRow[r],
                       !.step = IF Call(h).kind = "revoke" THEN "closing" ELSE "serving"])
  /\ UNCHANGED <<configRow, svcStatus, pushed, doubled, untold>>

(* getOrCreateDeviceConfig, when there was none.                           *)
CreateRow(h) ==
  LET who == Call(h).who IN
  /\ Call(h).step = "creating" /\ RoomForRow
  /\ SaveRow(NewRow, [device |-> who.device, install |-> who.install, status |-> "pending"])
  /\ Step(h, [Call(h) EXCEPT !.row = NewRow, !.as = configRow'[NewRow], !.step = "serving"])
  /\ doubled' = IF RowsOf(who.device) # {} /\ who.device \in Call(h).crossed
                THEN doubled \cup {who.device} ELSE doubled
  /\ UNCHANGED <<svcStatus, pushed, untold>>

MappedStatus(st) ==
  CASE st = "active" -> "ready"
    [] st = "failed" -> "failed"
    [] st \in {"suspended", "deleted"} -> "revoked"
    [] OTHER -> "pending"

(* The config is saved, with deviceIdentityPatch: of a service that is not *)
(* active with its status, else generated, or failed.                      *)
ServeDevice(h) ==
  /\ Call(h).step = "serving"
  /\ \E status \in IF Call(h).st = "active" THEN {"ready", "failed"}
                   ELSE {MappedStatus(Call(h).st)} :
       /\ SaveRow(Call(h).row, [device |-> Call(h).who.device,
                                install |-> Call(h).who.install, status |-> status])
       /\ ToPush(h, status)
  /\ UNCHANGED <<svcStatus, pushed, doubled, untold>>

(* revokeDeviceSnapshot, after the clients: the row as read, revoked.      *)
CloseDevice(h) ==
  /\ Call(h).step = "closing"
  /\ SaveRow(Call(h).row, [Call(h).as EXCEPT !.status = "revoked"])
  /\ ToPush(h, "revoked")
  /\ UNCHANGED <<svcStatus, pushed, doubled, untold>>

-----------------------------------------------------------------------------
(* revokeProvisionDeviceAccesses and the list of                           *)
(* syncProvisionAndDeviceSnapshots: the rows as they are read.             *)
ListRows(h) ==
  /\ Call(h).step = "listing"
  /\ LET listed == {r \in RowIds : HasRow(r) /\
                       (Call(h).kind = "regenerate" =>
                          /\ configRow[r].device # NoId
                          /\ configRow[r].status \notin {"revoked", "deleted"})} IN
     Step(h, [Call(h) EXCEPT !.step = "next", !.todo = listed,
       !.list = [r \in RowIds |-> IF r \in listed THEN configRow[r] ELSE NoDeviceRow]])
  /\ UNCHANGED <<configRow, svcStatus, pushed, doubled, untold>>

EndWord(kind) == IF kind = "delete" THEN "deleted" ELSE "revoked"
CloseNext(h, r) ==
  /\ Call(h).step = "next" /\ Call(h).kind # "regenerate" /\ r \in Call(h).todo
  /\ SaveRow(r, [Call(h).list[r] EXCEPT !.status = EndWord(Call(h).kind)])
  /\ Step(h, [Call(h) EXCEPT !.todo = @ \ {r}, !.list[r] = NoDeviceRow])
  /\ UNCHANGED <<svcStatus, pushed, doubled, untold>>

RegenerateNext(h, r) ==
  /\ Call(h).step = "next" /\ Call(h).kind = "regenerate" /\ r \in Call(h).todo
  /\ Step(h, [Call(h) EXCEPT !.todo = @ \ {r}, !.list[r] = NoDeviceRow, !.step = "reading",
       !.who = [device |-> Call(h).list[r].device, install |-> Call(h).list[r].install]])
  /\ UNCHANGED <<configRow, svcStatus, pushed, doubled, untold>>

ListDone(h, kind) ==
  /\ Call(h).step = "next" /\ Call(h).todo = {} /\ Call(h).kind = kind

MarkDeleted(h) ==
  /\ ListDone(h, "delete")
  /\ svcStatus' = "deleted"
  /\ GoesTo(h, "service")
  /\ UNCHANGED <<configRow, pushed, doubled, untold>>

SettlePayment(h) ==
  /\ Call(h).step = "paying"
  /\ svcStatus' \in {"active", "failed"}
  /\ GoesTo(h, "service")
  /\ UNCHANGED <<configRow, pushed, doubled, untold>>

(* syncProvisionSnapshot: the service's row, which has no device and no    *)
(* installation, is made if there is none and takes the service's status;  *)
(* no VPN material is kept at the service level.                           *)
ServiceRows == {r \in RowIds : HasRow(r) /\ configRow[r].device = NoId}

AtService(h) == Call(h).step = "service" \/ ListDone(h, "end")

ReadForService(h) ==
  /\ AtService(h)
  /\ \E r \in IF ServiceRows = {} THEN {NoId} ELSE ServiceRows :
       Step(h, [Call(h) EXCEPT !.step = "saving service", !.row = r, !.st = svcStatus])
  /\ UNCHANGED <<configRow, svcStatus, pushed, doubled, untold>>

AfterService(h) ==
  IF Call(h).kind = "regenerate"
  THEN Step(h, [NoRowCall EXCEPT !.kind = "regenerate", !.step = "listing",
                                 !.crossed = Call(h).crossed])
  ELSE EndRowCall(h, "ended")

SaveService(h) ==
  /\ Call(h).step = "saving service"
  /\ Call(h).row = NoId => RoomForRow
  /\ SaveRow(IF Call(h).row = NoId THEN NewRow ELSE Call(h).row,
             [device |-> NoId, install |-> NoId, status |-> MappedStatus(Call(h).st)])
  /\ AfterService(h)
  /\ UNCHANGED <<svcStatus, pushed, doubled, untold>>

(* updateDeviceConfig, for one snapshot; regenerateServiceConfig does it   *)
(* for all when all are made.                                              *)
Tell(d, ready) ==
  /\ pushed' = IF ready THEN pushed \cup {d} ELSE pushed \ {d}
  /\ untold' = untold \ {d}

PushNext(h) ==
  /\ Call(h).step = "pushing" \/ ListDone(h, "regenerate")
  /\ \E n \in Call(h).news :
       /\ Tell(n.device, n.ready)
       /\ IF Call(h).news = {n}
          THEN EndRowCall(h, IF Call(h).kind = "activate" THEN "on" ELSE "off")
          ELSE Step(h, [Call(h) EXCEPT !.news = @ \ {n}])
  /\ UNCHANGED <<configRow, svcStatus, doubled>>

NothingToPush(h) ==
  /\ ListDone(h, "regenerate") /\ Call(h).news = {}
  /\ EndRowCall(h, "open")
  /\ UNCHANGED <<configRow, svcStatus, pushed, doubled, untold>>

(* A statement or a push throws, or the process stops: what is done stays. *)
(* syncConfiguratorSnapshot catches what the service's config throws.      *)
ThrowRowCall(h) ==
  /\ Call(h).step # "none"
  /\ IF (AtService(h) \/ Call(h).step = "saving service") /\ Call(h).kind # "regenerate"
     THEN EndRowCall(h, "ended") /\ UNCHANGED untold
     ELSE EndRowCall(h, "open") /\ untold' = untold \cup On(Call(h))
  /\ UNCHANGED <<configRow, svcStatus, pushed, doubled>>

DeviceRowsNext ==
  \E h \in RowHandlers :
    \/ \E who \in Identities, kind \in {"activate", "revoke"} : StartDeviceCall(h, kind, who)
    \/ StartEnd(h) \/ StartDelete(h) \/ StartPayment(h) \/ StartRegenerate(h)
    \/ ReadService(h) \/ FindRow(h) \/ CreateRow(h) \/ ServeDevice(h) \/ CloseDevice(h)
    \/ ListRows(h) \/ MarkDeleted(h) \/ SettlePayment(h)
    \/ \E r \in RowIds : CloseNext(h, r) \/ RegenerateNext(h, r)
    \/ ReadForService(h) \/ SaveService(h) \/ PushNext(h) \/ NothingToPush(h)
    \/ ThrowRowCall(h)

DeviceRowsSpec == DeviceRowsInit /\ [][DeviceRowsNext]_deviceRowVars
-----------------------------------------------------------------------------
Untouched(d) == \A h \in RowHandlers : d \notin On(Call(h))
IsReady(d) == \E r \in RowsOf(d) : configRow[r].status = "ready"

(* A device that is installed again, fails, is revoked and activated, with *)
(* its service ending and all configs regenerated in between, has one row, *)
(* unless two handlers were making its first at once.  That row follows    *)
(* the last call that no other overlapped with: after a revocation or the  *)
(* end of the service nothing is ready, a regeneration included; and       *)
(* billing is told what the row says, but for a push that did not get      *)
(* through (findDeviceConfig, getOrCreateDeviceConfig, deviceIdentityPatch,*)
(* syncProvisionAndDeviceSnapshots).                                       *)
DeviceFollowsCalls ==
  \A d \in DeviceIds \ doubled :
    /\ Cardinality(RowsOf(d)) <= 1
    /\ outcome[d] \in {"off", "ended"} => ~IsReady(d)
    /\ outcome[d] \in {"on", "off"} /\ d \notin untold /\ Untouched(d) =>
         (d \in pushed <=> IsReady(d))
=============================================================================
