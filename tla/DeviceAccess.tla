---------------------------- MODULE DeviceAccess ----------------------------
(***************************************************************************)
(* The devices of one subscription: their config rows, the access rows of  *)
(* the normal and the away profile, the clients on the 3x-ui panels and    *)
(* the load of the VPN nodes, under the handlers of                        *)
(* configurator-runtime.service.ts that activate, refresh and revoke them  *)
(* and the provisioning handlers that pay, end and delete the              *)
(* subscription.  Every await of the code is a step boundary.              *)
(***************************************************************************)
EXTENDS Integers, FiniteSets

CONSTANTS
  Devices,        \* devices of the subscription
  Workers,        \* handlers that may run at once
  Home,           \* the VPN node of the subscription (sticky)
  AwayNodes,      \* nodes of usage scope "away"
  Parts,          \* {"normal"}, or {"normal", "away"} with an Auto OFF list
  Profiles,       \* transport profiles, each named by its inbound
  Own,            \* the inbound of the node itself, a profile's or not
  Logins,         \* the logins 3x-ui clients may get (bound)
  None,
  Capacity,       \* of every node
  Kinds,          \* the handlers that occur
  MaxJobs,        \* bound: handlers started
  MaxCrashes,     \* bound: crashes of the process
  ProviderFails,  \* panels may refuse calls, time out or lose answers
  StoreFails      \* database calls may throw

ASSUME AccessAssumption ==
  /\ "normal" \in Parts /\ Parts \subseteq {"normal", "away"}
  /\ IsFiniteSet(Workers)
  /\ Home \notin AwayNodes
  /\ None \notin Profiles \cup Logins \cup AwayNodes \cup {Home, Own}
  /\ Capacity \in Nat
  /\ MaxJobs \in Nat /\ MaxCrashes \in Nat
  /\ ProviderFails \in BOOLEAN /\ StoreFails \in BOOLEAN

VARIABLES
  provision,  \* provisions.status
  conf,       \* device_configs.status of each device
  access,     \* provider_accesses: status, login and metadata of each row
  place,      \* panels: where each login was created
  live,       \* panels: the clients that exist
  load,       \* vpn_nodes.current_load
  worker,     \* what each handler is doing
  jobs,       \* handlers started so far
  crashes,    \* crashes so far
  undone,     \* history: clients the catch blocks have deleted
  leaked,     \* history: units of load lost in failed calls and crashes
  met         \* history: devices two handlers met at or one broke off at

panel == <<place, live>>
bounds == <<jobs, crashes>>
history == <<undone, leaked, met>>
vars == <<provision, conf, access, panel, load, worker, bounds, history>>

Nodes == {Home} \cup AwayNodes
Inbounds == Profiles \cup {Own}
Keys == Devices \X Parts

(* pending and cancelled are treated as provisioning and suspended are.    *)
ProvisionStatus == {"provisioning", "active", "failed", "suspended", "deleted"}
ConfStatus == {"pending", "ready", "failed", "revoked", "deleted"}
AccessStatus == {"pending", "active", "failed", "revoked", "deleted"}

Row == [status : AccessStatus, login : Logins \cup {None},
        node : Nodes \cup {None}, prof : Profiles \cup {None}]
Place == [dev : Devices, part : Parts, node : Nodes, inbound : Inbounds]
Nowhere == [dev |-> None, part |-> None, node |-> None, inbound |-> None]
Material == [login : Logins \cup {None}, node : Nodes,
             prof : Profiles \cup {None}, fresh : BOOLEAN]

Pc == {"reading", "mapping", "mapping access", "selecting", "dropping",
       "uncounting", "counting", "creating", "uncreating", "linking", "away",
       "saving away", "readying", "granting", "undoing", "returning",
       "failing", "failing access",
       "revoking", "cutting", "giving", "closing", "closing config",
       "marking", "paying", "paid"}

(* What a handler knows: its step, the status of the provision when it was *)
(* read, the device and the part it is at, the devices to come, the rows   *)
(* as read, and what each part has got from the provider.                  *)
Job == [pc : Pc, kind : Kinds, st : ProvisionStatus, dev : Devices,
        devs : SUBSET Devices, part : Parts, rows : [Keys -> Row],
        got : [Parts -> Material]]

Idle == [pc |-> "idle"]
Unread == [k \in Keys |-> [status |-> "pending", login |-> None,
                           node |-> None, prof |-> None]]
NoMaterial == [login |-> None, node |-> Home, prof |-> None, fresh |-> FALSE]

Run(pc, kind, devs, d) ==
  [pc |-> pc, kind |-> kind,
   st |-> IF kind = "sync" THEN provision ELSE "active",
   dev |-> d, devs |-> devs, part |-> "normal", rows |-> Unread,
   got |-> [p \in Parts |-> NoMaterial]]

TypeOK ==
  /\ provision \in ProvisionStatus
  /\ conf \in [Devices -> ConfStatus]
  /\ access \in [Keys -> Row]
  /\ place \in [Logins -> Place \cup {Nowhere}]
  /\ live \subseteq {c \in Logins : place[c] # Nowhere}
  /\ load \in [Nodes -> Nat]
  /\ worker \in [Workers -> {Idle} \cup Job]
  /\ jobs \in 0 .. MaxJobs
  /\ crashes \in 0 .. MaxCrashes
  /\ undone \subseteq Logins
  /\ leaked \in [Nodes -> Nat]
  /\ met \subseteq Devices

(* The rows exist and no client does: the devices are known, not served.   *)
Init ==
  /\ provision = "active"
  /\ conf = [d \in Devices |-> "pending"]
  /\ access = Unread
  /\ place = [c \in Logins |-> Nowhere]
  /\ live = {}
  /\ load = [n \in Nodes |-> 0]
  /\ worker = [w \in Workers |-> Idle]
  /\ jobs = 0
  /\ crashes = 0
  /\ undone = {}
  /\ leaked = [n \in Nodes |-> 0]
  /\ met = {}
-----------------------------------------------------------------------------
Working(w) == worker[w] # Idle
At(w, pc) == worker[w].pc = pc
Dev(w) == worker[w].dev
Part(w) == worker[w].part
Read(w) == worker[w].rows[<<Dev(w), Part(w)>>]  \* the row as w has read it
Got(w) == worker[w].got[Part(w)]

Goto(w, pc) == worker' = [worker EXCEPT ![w] = [@ EXCEPT !.pc = pc]]
Turn(w, part, pc) ==
  worker' = [worker EXCEPT ![w] = [@ EXCEPT !.pc = pc, !.part = part]]

(* The devices a handler works on; a payment leaves them alone.            *)
Minded(j) ==
  IF j.kind = "pay" THEN {}
  ELSE IF j.kind \in {"suspend", "delete"} THEN Devices ELSE {j.dev}
Minds(w, d) == Working(w) /\ d \in Minded(worker[w])
Meet(ds) == met' = met \cup ds

(* A part's catch block or its success ends it: what it got is not needed  *)
(* any more.  An away profile's end leads on, a normal one's to failure.   *)
EndPart(w, part) ==
  worker' = [worker EXCEPT ![w] =
    [@ EXCEPT !.pc = IF part = "away" THEN "readying" ELSE "failing",
              !.part = "normal",
              !.got[part] = NoMaterial]]
Leave(w) == worker' = [worker EXCEPT ![w] = Idle]

Save(w, part, row) == access' = [access EXCEPT ![<<Dev(w), part>>] = row]
SetConf(w, status) == conf' = [conf EXCEPT ![Dev(w)] = status]

(* toVpnNodeConfig: the inbound of the transport profile, or the node's.   *)
Inbound(prof) == IF prof = None THEN Own ELSE prof
-----------------------------------------------------------------------------
(* Faulty variants of definitions below.  Nothing here uses them: put in   *)
(* the place of the definition each names, they show that a property       *)
(* notices the mistake.                                                    *)

(* SaveAway with the default node of buildDeviceProviderMetadata. *)
SaveAwayHome(w) ==
  /\ At(w, "saving away")
  /\ Save(w, "away", [status |-> "active", login |-> Got(w).login,
                      node |-> Home, prof |-> Got(w).prof])
  /\ EndPart(w, "away")
  /\ UNCHANGED <<provision, conf, panel, load, bounds, history>>

(* Ready that grants the access before the config is saved. *)
ReadyGranting(w) ==
  /\ At(w, "readying")
  /\ access' = [access EXCEPT ![<<Dev(w), "normal">>] =
                  [status |-> "active", login |-> Got(w).login,
                   node |-> Got(w).node, prof |-> Got(w).prof]]
  /\ SetConf(w, "ready")
  /\ Goto(w, "granting")
  /\ UNCHANGED <<provision, panel, load, bounds, history>>

(* CreateRefused that forgets to give the counted unit back. *)
CreateRefusedKept(w) ==
  /\ ProviderFails
  /\ At(w, "creating")
  /\ EndPart(w, Part(w))
  /\ UNCHANGED <<provision, conf, access, panel, load, bounds, history>>

(* Reusable that ignores the status of the row. *)
ReusableAnyStatus(w, prof) ==
  LET r == Read(w)
  IN  r.login # None /\ r.node = Got(w).node

(* CloseConfig that ends the loop over the devices with the first one. *)
CloseConfigFirst(w) ==
  /\ At(w, "closing config")
  /\ conf' = [conf EXCEPT ![Dev(w)] = "revoked"]
  /\ worker' = [worker EXCEPT ![w] = Idle]
  /\ UNCHANGED <<provision, access, panel, load, bounds, history>>

(* Decrement without GREATEST. *)
DecrementUnbounded(n) == load' = [load EXCEPT ![n] = @ - 1]
-----------------------------------------------------------------------------
(* VPN nodes and panels                                                    *)

(* decrementLoad: GREATEST(current_load - 1, 0). *)
Decrement(n) == load' = [load EXCEPT ![n] = IF @ > 0 THEN @ - 1 ELSE 0]

(* deleteCreatedClientQuietly: an inbound without the client refuses, the  *)
(* panel may not answer, and the handler goes on in each case.             *)
DeleteQuietly(n, inbound, c) ==
  \/ live' = {l \in live : ~ (l = c /\ place[l].node = n
                                    /\ place[l].inbound = inbound)}
  \/ ProviderFails /\ live' = live
-----------------------------------------------------------------------------
(* Handlers start                                                          *)

Start(w, run) ==
  /\ ~ Working(w)
  /\ jobs < MaxJobs
  /\ jobs' = jobs + 1
  /\ worker' = [worker EXCEPT ![w] = run]
  /\ Meet({d \in Minded(run) : \E v \in Workers : Minds(v, d)})
  /\ UNCHANGED <<undone, leaked>>

(* device_activated, and each device of an operator's refresh: the         *)
(* provision is read first.                                                *)
StartSync(w, d) ==
  /\ "sync" \in Kinds
  /\ Start(w, Run("reading", "sync", {}, d))
  /\ UNCHANGED <<provision, conf, access, panel, load, crashes>>

StartRevoke(w, d) ==
  /\ "revoke" \in Kinds
  /\ Start(w, Run("revoking", "revoke", {d}, d))
  /\ UNCHANGED <<provision, conf, access, panel, load, crashes>>

(* suspend and cancel mark the provision before they revoke its devices.   *)
StartSuspend(w) ==
  /\ "suspend" \in Kinds
  /\ provision' = "suspended"
  /\ \E d \in Devices : Start(w, Run("revoking", "suspend", Devices, d))
  /\ UNCHANGED <<conf, access, panel, load, crashes>>

(* deleteProvisionResources marks it after that. *)
StartDelete(w) ==
  /\ "delete" \in Kinds
  /\ provision # "deleted"
  /\ \E d \in Devices : Start(w, Run("revoking", "delete", Devices, d))
  /\ UNCHANGED <<provision, conf, access, panel, load, crashes>>

(* provisionOrRenew leaves the devices alone and moves the status.         *)
StartPay(w) ==
  /\ "pay" \in Kinds
  /\ provision' = "provisioning"
  /\ \E d \in Devices : Start(w, Run("paying", "pay", {}, d))
  /\ UNCHANGED <<conf, access, panel, load, crashes>>

Activate(w) ==
  /\ At(w, "paying")
  /\ provision' = "active"
  /\ Goto(w, "paid")
  /\ UNCHANGED <<conf, access, panel, load, bounds, history>>

PayFails(w) ==
  /\ worker[w].pc \in {"paying", "paid"}
  /\ provision' = "failed"
  /\ Leave(w)
  /\ UNCHANGED <<conf, access, panel, load, bounds, history>>

PayEnds(w) ==
  /\ At(w, "paid")
  /\ Leave(w)
  /\ UNCHANGED <<provision, conf, access, panel, load, bounds, history>>
-----------------------------------------------------------------------------
(* syncDeviceSnapshot                                                      *)

(* The config and its access rows as they are now. *)
ReadRows(w) ==
  /\ At(w, "reading")
  /\ worker' = [worker EXCEPT ![w] =
       [@ EXCEPT !.rows = access,
                 !.pc = IF worker[w].st = "active" THEN "selecting"
                        ELSE "mapping"]]
  /\ UNCHANGED <<provision, conf, access, panel, load, bounds, history>>

(* The service was not active when it was read: its status is mapped onto  *)
(* both rows, the clients stay.                                            *)
mapDeviceStatus == [provisioning |-> "pending", failed |-> "failed",
                    suspended |-> "revoked", deleted |-> "revoked"]
mapProviderStatus == [provisioning |-> "pending", failed |-> "failed",
                      suspended |-> "revoked", deleted |-> "deleted"]

MapConfig(w) ==
  /\ At(w, "mapping")
  /\ SetConf(w, mapDeviceStatus[worker[w].st])
  /\ Goto(w, "mapping access")
  /\ UNCHANGED <<provision, access, panel, load, bounds, history>>

MapAccess(w) ==
  /\ At(w, "mapping access")
  /\ Save(w, "normal",
          [Read(w) EXCEPT !.status = mapProviderStatus[worker[w].st]])
  /\ Leave(w)
  /\ UNCHANGED <<provision, conf, panel, load, bounds, history>>

(* resolveDeviceProviderMaterialForNode: no profile selected (there is     *)
(* none, or the query failed) counts as the same profile.                  *)
SameProfile(r, prof) ==
  \/ prof = None
  \/ r.prof = prof
  \/ r.prof = None /\ prof = Own

Reusable(w, prof) ==
  LET r == Read(w)
  IN  /\ r.status = "active"
      /\ r.login # None
      /\ r.node = Got(w).node
      /\ SameProfile(r, prof)

Replaced(w, prof) ==
  LET r == Read(w)
  IN  r.login # None /\ (r.node # Got(w).node \/ ~ SameProfile(r, prof))

Select(w) ==
  /\ At(w, "selecting")
  /\ \E prof \in Profiles \cup {None} :
       worker' = [worker EXCEPT ![w] =
         [@ EXCEPT
            !.got[Part(w)] =
              [Got(w) EXCEPT
                 !.prof = prof,
                 !.login = IF Reusable(w, prof) THEN Read(w).login
                           ELSE None],
            !.pc = IF Reusable(w, prof) THEN "linking"
                   ELSE IF Replaced(w, prof) THEN "dropping"
                   ELSE "counting"]]
  /\ UNCHANGED <<provision, conf, access, panel, load, bounds, history>>

(* The client of another node or profile goes, and its unit of load.       *)
Drop(w) ==
  LET r == Read(w)
  IN  /\ At(w, "dropping")
      /\ DeleteQuietly(r.node, Inbound(r.prof), r.login)
      /\ Goto(w, "uncounting")
      /\ UNCHANGED <<provision, conf, access, place, load, bounds, history>>

(* The old node cannot be read: neither is done. *)
DropSkipped(w) ==
  /\ StoreFails
  /\ At(w, "dropping")
  /\ Goto(w, "counting")
  /\ UNCHANGED <<provision, conf, access, panel, load, bounds, history>>

Uncount(w) ==
  /\ At(w, "uncounting")
  /\ Decrement(Read(w).node)
  /\ Goto(w, "counting")
  /\ UNCHANGED <<provision, conf, access, panel, bounds, history>>

(* Where an exception at the awaited call leads: the catch block of the    *)
(* part, by way of the client it has created.                              *)
Catch(w, part) ==
  IF worker[w].got[part].fresh THEN Turn(w, part, "undoing")
  ELSE EndPart(w, part)

(* incrementLoad: an active node with a free unit, or an exception.        *)
Count(w) ==
  LET n == Got(w).node
  IN  /\ At(w, "counting")
      /\ load[n] < Capacity
      /\ load' = [load EXCEPT ![n] = @ + 1]
      /\ Goto(w, "creating")
      /\ UNCHANGED <<provision, conf, access, panel, bounds, history>>

CountRefused(w) ==
  /\ At(w, "counting")
  /\ Catch(w, Part(w))
  /\ UNCHANGED <<provision, conf, access, panel, load, bounds, history>>

(* The panel adds a client with a new login, as it is for vless, vmess and *)
(* trojan; that of shadowsocks, the e-mail, comes again and is left out.   *)
AddClient(w, c) ==
  /\ place[c] = Nowhere
  /\ place' = [place EXCEPT ![c] =
                 [dev |-> Dev(w), part |-> Part(w), node |-> Got(w).node,
                  inbound |-> Inbound(Got(w).prof)]]
  /\ live' = live \cup {c}

Create(w) ==
  /\ At(w, "creating")
  /\ \E c \in Logins :
       /\ AddClient(w, c)
       /\ worker' = [worker EXCEPT ![w] =
            [@ EXCEPT !.pc = "linking",
                      !.got[Part(w)] = [Got(w) EXCEPT !.login = c,
                                                      !.fresh = TRUE]]]
  /\ UNCHANGED <<provision, conf, access, load, bounds, history>>

(* The panel refuses, or its answer is lost.                               *)
CreateRefused(w) ==
  /\ ProviderFails
  /\ At(w, "creating")
  /\ Goto(w, "uncreating")
  /\ UNCHANGED <<provision, conf, access, panel, load, bounds, history>>

CreateLost(w) ==
  /\ ProviderFails
  /\ At(w, "creating")
  /\ \E c \in Logins : AddClient(w, c)
  /\ Goto(w, "uncreating")
  /\ UNCHANGED <<provision, conf, access, load, bounds, history>>

Uncreate(w) ==
  /\ At(w, "uncreating")
  /\ Decrement(Got(w).node)
  /\ Catch(w, Part(w))
  /\ UNCHANGED <<provision, conf, access, panel, bounds, history>>

(* The link is resolved into a runtime config; the normal profile goes on  *)
(* with the away profile, if there is an Auto OFF list.                    *)
Link(w) ==
  /\ At(w, "linking")
  /\ Goto(w, IF Part(w) = "away" THEN "saving away"
             ELSE IF "away" \in Parts THEN "away" ELSE "readying")
  /\ UNCHANGED <<provision, conf, access, panel, load, bounds, history>>

LinkFails(w) ==
  /\ ProviderFails
  /\ At(w, "linking")
  /\ Catch(w, Part(w))
  /\ UNCHANGED <<provision, conf, access, panel, load, bounds, history>>

(* selectAwayNode: one with a free unit, whichever operators leave active. *)
SelectAway(w) ==
  /\ At(w, "away")
  /\ \/ \E n \in AwayNodes :
          /\ load[n] < Capacity
          /\ worker' = [worker EXCEPT ![w] =
               [@ EXCEPT !.pc = "selecting",
                         !.part = "away",
                         !.got["away"] = [NoMaterial EXCEPT !.node = n]]]
     \/ Goto(w, "readying")
  /\ UNCHANGED <<provision, conf, access, panel, load, bounds, history>>

Granted(w) ==
  [status |-> "active", login |-> Got(w).login, node |-> Got(w).node,
   prof |-> Got(w).prof]

SaveAway(w) ==
  /\ At(w, "saving away")
  /\ Save(w, "away", Granted(w))
  /\ EndPart(w, "away")
  /\ UNCHANGED <<provision, conf, panel, load, bounds, history>>

Ready(w) ==
  /\ At(w, "readying")
  /\ SetConf(w, "ready")
  /\ Goto(w, "granting")
  /\ UNCHANGED <<provision, access, panel, load, bounds, history>>

Grant(w) ==
  /\ At(w, "granting")
  /\ Save(w, "normal", Granted(w))
  /\ Leave(w)
  /\ UNCHANGED <<provision, conf, panel, load, bounds, history>>

(* The catch blocks: of the away profile, which ends there, and of the     *)
(* normal one, which saves its rows as failed, the access as it was read.  *)
Undo(w) ==
  /\ At(w, "undoing")
  /\ DeleteQuietly(Got(w).node, Inbound(Got(w).prof), Got(w).login)
  /\ undone' = undone \cup {Got(w).login}
  /\ Goto(w, "returning")
  /\ UNCHANGED <<provision, conf, access, place, load, bounds, leaked, met>>

Return(w) ==
  /\ At(w, "returning")
  /\ Decrement(Got(w).node)
  /\ EndPart(w, Part(w))
  /\ UNCHANGED <<provision, conf, access, panel, bounds, history>>

FailConfig(w) ==
  /\ At(w, "failing")
  /\ SetConf(w, "failed")
  /\ Goto(w, "failing access")
  /\ UNCHANGED <<provision, access, panel, load, bounds, history>>

FailAccess(w) ==
  /\ At(w, "failing access")
  /\ Save(w, "normal", [Read(w) EXCEPT !.status = "failed"])
  /\ Leave(w)
  /\ UNCHANGED <<provision, conf, panel, load, bounds, history>>
-----------------------------------------------------------------------------
(* revokeDeviceSnapshot, revokeProvisionDeviceAccesses                     *)

EndStatus(w) == IF worker[w].kind = "delete" THEN "deleted" ELSE "revoked"

(* The device's rows (of all devices at once, for a whole subscription).   *)
ReadForRevoke(w) ==
  /\ At(w, "revoking")
  /\ \E d \in worker[w].devs :
       worker' = [worker EXCEPT ![w] =
         [@ EXCEPT !.rows = access, !.pc = "cutting",
                   !.dev = d, !.devs = worker[w].devs \ {d}]]
  /\ UNCHANGED <<provision, conf, access, panel, load, bounds, history>>

HasClient(r) == r.login # None /\ r.status \in {"active", "failed"}

Cut(w) ==
  LET r == Read(w)
  IN  /\ At(w, "cutting")
      /\ HasClient(r)
      /\ DeleteQuietly(r.node, Inbound(r.prof), r.login)
      /\ Goto(w, "giving")
      /\ UNCHANGED <<provision, conf, access, place, load, bounds, history>>

(* No client to delete, or a node other than the subscription's that       *)
(* cannot be read.                                                         *)
CutSkipped(w) ==
  LET r == Read(w)
  IN  /\ At(w, "cutting")
      /\ ~ HasClient(r) \/ (StoreFails /\ r.node # Home)
      /\ Goto(w, "closing")
      /\ UNCHANGED <<provision, conf, access, panel, load, bounds, history>>

GiveBack(w) ==
  /\ At(w, "giving")
  /\ Decrement(Read(w).node)
  /\ Goto(w, "closing")
  /\ UNCHANGED <<provision, conf, access, panel, bounds, history>>

CloseAccess(w) ==
  /\ At(w, "closing")
  /\ Save(w, Part(w), [Read(w) EXCEPT !.status = EndStatus(w)])
  /\ IF Part(w) = "normal" /\ "away" \in Parts
     THEN Turn(w, "away", "cutting") ELSE Turn(w, "normal", "closing config")
  /\ UNCHANGED <<provision, conf, panel, load, bounds, history>>

(* The next device has been read with the first one.                       *)
CloseConfig(w) ==
  /\ At(w, "closing config")
  /\ SetConf(w, EndStatus(w))
  /\ \/ \E d \in worker[w].devs :
          worker' = [worker EXCEPT ![w] =
            [@ EXCEPT !.pc = "cutting", !.dev = d,
                      !.devs = worker[w].devs \ {d}]]
     \/ /\ worker[w].devs = {}
        /\ IF worker[w].kind = "delete" THEN Goto(w, "marking") ELSE Leave(w)
  /\ UNCHANGED <<provision, access, panel, load, bounds, history>>

MarkDeleted(w) ==
  /\ At(w, "marking")
  /\ provision' = "deleted"
  /\ Leave(w)
  /\ UNCHANGED <<conf, access, panel, load, bounds, history>>
-----------------------------------------------------------------------------
(* Failures                                                                *)

(* w has counted a unit of node n for a client that does not exist, or     *)
(* still has to give one back.                                             *)
Owes(w, n) ==
  /\ Working(w)
  /\ \/ worker[w].pc \in {"uncounting", "giving"} /\ Read(w).node = n
     \/ worker[w].pc \in {"creating", "uncreating", "returning"}
        /\ Got(w).node = n

Lose(ws) ==
  leaked' = [n \in Nodes |-> leaked[n] + Cardinality({w \in ws : Owes(w, n)})]

(* A database call throws without effect.  An away profile's failure stays *)
(* its own, except while it is being selected or cleaned up.               *)
InTry == {"uncounting", "counting", "uncreating", "saving away", "readying",
          "granting", "away"}
AfterTry == {"reading", "mapping", "mapping access", "failing",
             "failing access", "revoking", "giving", "closing",
             "closing config", "marking", "paying", "paid"}

Throw(w) ==
  /\ StoreFails
  /\ \/ worker[w].pc \in InTry /\ Catch(w, Part(w)) /\ Meet({})
     \/ At(w, "returning") /\ Part(w) = "away" /\ Catch(w, "normal") /\ Meet({})
     \/ /\ worker[w].pc \in AfterTry \/ (At(w, "returning") /\ Part(w) = "normal")
        /\ Leave(w)
        /\ Meet(Minded(worker[w]))
  /\ Lose({w})
  /\ UNCHANGED <<provision, conf, access, panel, load, bounds, undone>>

Crash ==
  /\ crashes < MaxCrashes
  /\ crashes' = crashes + 1
  /\ Lose(Workers)
  /\ worker' = [w \in Workers |-> Idle]
  /\ Meet({d \in Devices : \E w \in Workers : Minds(w, d)})
  /\ UNCHANGED <<provision, conf, access, panel, load, jobs, undone>>
-----------------------------------------------------------------------------
Begin(w) ==
  \/ \E d \in Devices : StartSync(w, d) \/ StartRevoke(w, d)
  \/ StartSuspend(w) \/ StartDelete(w) \/ StartPay(w)

Pay(w) == Activate(w) \/ PayFails(w) \/ PayEnds(w)

Sync(w) ==
  \/ ReadRows(w) \/ MapConfig(w) \/ MapAccess(w)
  \/ Select(w) \/ Drop(w) \/ DropSkipped(w) \/ Uncount(w)
  \/ Count(w) \/ CountRefused(w)
  \/ Create(w) \/ CreateRefused(w) \/ CreateLost(w) \/ Uncreate(w)
  \/ Link(w) \/ LinkFails(w)
  \/ SelectAway(w) \/ SaveAway(w) \/ Ready(w) \/ Grant(w)
  \/ Undo(w) \/ Return(w) \/ FailConfig(w) \/ FailAccess(w)

Revoke(w) ==
  \/ ReadForRevoke(w) \/ Cut(w) \/ CutSkipped(w) \/ GiveBack(w)
  \/ CloseAccess(w) \/ CloseConfig(w) \/ MarkDeleted(w)

Next ==
  \/ \E w \in Workers :
       Begin(w) \/ Pay(w) \/ Sync(w) \/ Revoke(w) \/ Throw(w)
  \/ Crash

Spec == Init /\ [][Next]_vars
-----------------------------------------------------------------------------
(* An access row names the node its client was created on, so that every   *)
(* later deletion and release goes to that node: through switches of the   *)
(* away node and through saves of rows read long before                    *)
(* (resolveDeviceProviderMaterialForNode, buildDeviceProviderMetadata and  *)
(* the two catch blocks).                                                  *)
RowNamesNode ==
  \A k \in Keys :
    access[k].login # None => /\ place[access[k].login] # Nowhere
                              /\ place[access[k].login].node = access[k].node

(* A client that a failed sync has cleaned up again is in no access row:   *)
(* nothing is granted before the last call that may fail                   *)
(* (syncDeviceSnapshot and buildAwayProfile against their catch blocks).   *)
UndoneIsNotGranted == \A k \in Keys : access[k].login \notin undone

(* Between health checks a node counts no unit that is not behind a client,*)
(* about to be, or lost in a failed call: the refusals, lost answers and   *)
(* clean-ups of any handlers at once leave no unit behind                  *)
(* (incrementLoad and decrementLoad against createClient, deleteClient).   *)
NoUnitLeaks ==
  \A n \in Nodes :
    load[n] <= Cardinality({c \in live : place[c].node = n})
               + Cardinality({w \in Workers : Owes(w, n)})
               + leaked[n]

(* No handler is at the device, and none ever met another one there or was *)
(* broken off there by a failing database call or a crash.                 *)
Alone(d) == d \notin met /\ \A w \in Workers : ~ Minds(w, d)

(* A device that is alone and whose config is ready has an active access   *)
(* to a client that exists on the subscription's node: whatever panels and *)
(* database calls refuse inside the handlers' try blocks, profiles change  *)
(* and handlers of the other devices and payments do meanwhile             *)
(* (syncDeviceSnapshot and its catch block, revokeDeviceSnapshot).         *)
ReadyIsLive ==
  \A d \in Devices :
    Alone(d) /\ conf[d] = "ready" =>
      LET r == access[<<d, "normal">>]
      IN  /\ r.status = "active"
          /\ r.login \in live
          /\ place[r.login].node = Home

(* No device of an ended subscription that is alone has a config that is   *)
(* ready, through overlapping payments (suspend, cancel,                   *)
(* deleteProvisionResources against syncDeviceSnapshot).                   *)
EndedNotReady ==
  provision \in {"suspended", "deleted"} =>
    \A d \in Devices : Alone(d) => conf[d] # "ready"
-----------------------------------------------------------------------------
(* docs/subscription-configurator-v2.md:166-168: after a revocation the    *)
(* provider access is disabled or removed and the app loses access.  A     *)
(* refresh that finds no profile reuses the client and writes the node's   *)
(* own inbound into the row, where the deletion then looks in vain; and an *)
(* access that failed with its client is given a second one.               *)
RevokedHasNoClient ==
  (\A w \in Workers : ~ Working(w)) =>
    \A d \in Devices :
      conf[d] \in {"revoked", "deleted"} => \A c \in live : place[c].dev # d
=============================================================================
