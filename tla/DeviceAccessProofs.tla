------------------------- MODULE DeviceAccessProofs -------------------------
(***************************************************************************)
(* Machine-checked facts about DeviceAccess, for any devices, handlers,    *)
(* nodes, transport profiles, logins and bounds, with every kind of        *)
(* failure.                                                                *)
(***************************************************************************)
EXTENDS DeviceAccess, FiniteSetTheorems, TLAPS

(* What a row, or a part's material, says about its client is so.          *)
Names(pl, r) ==
  r.login # None => pl[r.login] # Nowhere /\ pl[r.login].node = r.node

(* What holds of a handler at its step.                                    *)
Fits(j) ==
  /\ j.pc \in {"mapping", "mapping access"} => j.st # "active"
  /\ j.pc \in {"away", "saving away"} => "away" \in Parts
  /\ j.pc \in {"reading", "selecting"} => ~ j.got[j.part].fresh
  /\ j.pc = "undoing" => j.got[j.part].fresh
  /\ \A p \in Parts : j.got[p].fresh => j.got[p].login # None

Knows(pl, j) ==
  /\ \A k \in Keys : Names(pl, j.rows[k])
  /\ \A p \in Parts : Names(pl, j.got[p])

Sound(pl) == {Idle} \cup {j \in Job : Fits(j) /\ Knows(pl, j)}

IInv ==
  /\ TypeOK
  /\ worker \in [Workers -> Sound(place)]
  /\ \A k \in Keys : Names(place, access[k])

(* A handler at a step is a sound job.                                     *)
LEMMA Jobs ==
  ASSUME IInv, NEW w \in Workers, worker[w].pc # "idle"
  PROVE  /\ worker[w] \in Job /\ Working(w)
         /\ Fits(worker[w]) /\ Knows(place, worker[w])
         /\ Dev(w) \in Devices /\ Part(w) \in Parts
         /\ Read(w) \in Row /\ Names(place, Read(w))
         /\ Got(w) \in Material /\ Names(place, Got(w))
<1>1. worker[w] \in Job /\ Working(w) /\ Fits(worker[w])
      /\ Knows(place, worker[w])
  BY DEF IInv, Sound, Idle, Working
<1>2. Dev(w) \in Devices /\ Part(w) \in Parts /\ <<Dev(w), Part(w)>> \in Keys
  BY <1>1 DEF Job, Dev, Part, Keys
<1>3. QED
  BY <1>1, <1>2 DEF Job, Read, Got, Knows

(* A step of w that leaves a sound job leaves all jobs sound.              *)
LEMMA Moved ==
  ASSUME IInv, NEW w \in Workers, NEW j \in Sound(place),
         worker' = [worker EXCEPT ![w] = j]
  PROVE  worker' \in [Workers -> Sound(place)]
BY DEF IInv

(* Going on to a step that fits.                                           *)
LEMMA GoneOn ==
  ASSUME IInv, NEW w \in Workers, Working(w), NEW pc \in Pc,
         Fits([worker[w] EXCEPT !.pc = pc]), Goto(w, pc)
  PROVE  worker' \in [Workers -> Sound(place)]
<1> DEFINE j == [worker[w] EXCEPT !.pc = pc]
<1>1. worker[w] \in Job /\ Knows(place, worker[w])
  BY DEF IInv, Sound, Working
<1>2. j \in Job /\ j.rows = worker[w].rows /\ j.got = worker[w].got
  BY <1>1 DEF Job
<1>3. j \in Sound(place)
  BY <1>1, <1>2 DEF Sound, Knows
<1>4. worker' = [worker EXCEPT ![w] = j]
  BY DEF Goto
<1>5. QED
  BY <1>3, <1>4, Moved

(* Going on to a step of another part that fits.                           *)
LEMMA Turned ==
  ASSUME IInv, NEW w \in Workers, Working(w), NEW pc \in Pc,
         NEW part \in Parts,
         Fits([worker[w] EXCEPT !.pc = pc, !.part = part]), Turn(w, part, pc)
  PROVE  worker' \in [Workers -> Sound(place)]
<1> DEFINE j == [worker[w] EXCEPT !.pc = pc, !.part = part]
<1>1. worker[w] \in Job /\ Knows(place, worker[w])
  BY DEF IInv, Sound, Working
<1>2. j \in Job /\ j.rows = worker[w].rows /\ j.got = worker[w].got
  BY <1>1 DEF Job
<1>3. j \in Sound(place)
  BY <1>1, <1>2 DEF Sound, Knows
<1>4. worker' = [worker EXCEPT ![w] = j]
  BY DEF Turn
<1>5. QED
  BY <1>3, <1>4, Moved

(* What a part has got before it is served is well typed and names no client. *)
LEMMA NothingGot ==
  /\ NoMaterial \in Material
  /\ ~ NoMaterial.fresh
  /\ \A pl : Names(pl, NoMaterial)
BY DEF NoMaterial, Material, Nodes, Names

(* A part's end.                                                           *)
LEMMA Ended ==
  ASSUME IInv, NEW w \in Workers, Working(w), NEW part \in Parts,
         EndPart(w, part)
  PROVE  worker' \in [Workers -> Sound(place)]
<1> DEFINE pc == IF part = "away" THEN "readying" ELSE "failing"
           got == [worker[w].got EXCEPT ![part] = NoMaterial]
           j == [worker[w] EXCEPT !.pc = pc, !.part = "normal", !.got = got]
<1>1. worker[w] \in Job /\ Knows(place, worker[w]) /\ Fits(worker[w])
  BY DEF IInv, Sound, Working
<1>2. got \in [Parts -> Material] /\ "normal" \in Parts /\ pc \in Pc
  BY <1>1, NothingGot, AccessAssumption DEF Job, Pc
<1>3. j \in Job /\ j.rows = worker[w].rows /\ j.got = got /\ j.pc = pc
  BY <1>1, <1>2 DEF Job
<1>4. \A p \in Parts : got[p] = NoMaterial \/ got[p] = worker[w].got[p]
  BY <1>1 DEF Job
<1>5. Knows(place, j)
  BY <1>1, <1>3, <1>4, NothingGot DEF Knows
<1>6. Fits(j)
  <2> HIDE DEF j, got
  <2>1. \A p \in Parts : j.got[p].fresh => j.got[p].login # None
    BY <1>1, <1>3, <1>4, NothingGot DEF Fits
  <2>2. j.pc \in {"readying", "failing"}
    BY <1>3
  <2>3. QED
    BY <2>1, <2>2 DEF Fits
<1>7. worker' = [worker EXCEPT ![w] = j]
  BY DEF EndPart
<1>8. QED
  BY <1>3, <1>5, <1>6, <1>7, Moved DEF Sound

(* The catch block of a part.                                              *)
LEMMA Caught ==
  ASSUME IInv, NEW w \in Workers, Working(w), NEW part \in Parts,
         Catch(w, part)
  PROVE  worker' \in [Workers -> Sound(place)]
<1>1. CASE worker[w].got[part].fresh
  <2> DEFINE j == [worker[w] EXCEPT !.pc = "undoing", !.part = part]
  <2>1. worker[w] \in Job /\ Fits(worker[w])
    BY DEF IInv, Sound, Working
  <2>2. j.pc = "undoing" /\ j.part = part /\ j.got = worker[w].got
    BY <2>1 DEF Job
  <2>3. Fits(j)
    BY <1>1, <2>1, <2>2 DEF Fits
  <2>4. QED
    BY <1>1, <2>3, Turned DEF Catch, Pc
<1>2. CASE ~ worker[w].got[part].fresh
  BY <1>2, Ended DEF Catch
<1>3. QED
  BY <1>1, <1>2

(* A handler that ends leaves all jobs sound.                               *)
LEMMA Left ==
  ASSUME IInv, NEW w \in Workers, Leave(w)
  PROVE  worker' \in [Workers -> Sound(place)]
BY Moved DEF Leave, Sound

(* A handler minds devices.                                                *)
LEMMA MindedDevices ==
  ASSUME NEW j, j.dev \in Devices
  PROVE  Minded(j) \subseteq Devices
BY DEF Minded

(* A new handler has read nothing and got nothing.                         *)
LEMMA Started ==
  ASSUME IInv, NEW w \in Workers, NEW pc \in {"reading", "revoking", "paying"},
         NEW kind \in Kinds, NEW devs \in SUBSET Devices, NEW d \in Devices,
         Start(w, Run(pc, kind, devs, d))
  PROVE  worker' \in [Workers -> Sound(place)] /\ jobs' \in 0 .. MaxJobs
<1> DEFINE j == Run(pc, kind, devs, d)
<1>1. Unread \in [Keys -> Row] /\ \A k \in Keys : Names(place, Unread[k])
  BY DEF Unread, Row, AccessStatus, Names
<1>2. j \in Job
  BY <1>1, NothingGot, AccessAssumption DEF Run, Job, Pc, IInv, TypeOK, ProvisionStatus
<1>3. Knows(place, j)
  BY <1>1, NothingGot DEF Knows, Run
<1>4. Fits(j)
  BY NothingGot, AccessAssumption DEF Fits, Run
<1>5. j \in Sound(place)
  BY <1>2, <1>3, <1>4 DEF Sound
<1>6. worker' \in [Workers -> Sound(place)]
  BY <1>5, Moved DEF Start
<1>7. QED
  BY <1>6, AccessAssumption DEF Start, IInv, TypeOK

(* A step with sound jobs that creates no client needs its types only.     *)
LEMMA Carried ==
  ASSUME IInv, worker' \in [Workers -> Sound(place)], place' = place,
         provision' \in ProvisionStatus, conf' \in [Devices -> ConfStatus],
         access' \in [Keys -> Row], \A k \in Keys : Names(place, access'[k]),
         live' \subseteq live, load' \in [Nodes -> Nat],
         jobs' \in 0 .. MaxJobs, crashes' \in 0 .. MaxCrashes,
         undone' \subseteq Logins, leaked' \in [Nodes -> Nat],
         met' \subseteq Devices
  PROVE  IInv'
<1>1. worker' \in [Workers -> {Idle} \cup Job]
  BY DEF Sound
<1>2. Sound(place)' = Sound(place)
  BY DEF Sound, Knows, Names
<1>3. QED
  BY <1>1, <1>2 DEF IInv, TypeOK, Names

(* A step that moves handlers only.                                        *)
LEMMA Quiet ==
  ASSUME IInv, worker' \in [Workers -> Sound(place)],
         UNCHANGED <<provision, conf, access, panel, load, bounds, history>>
  PROVE  IInv'
BY Carried DEF IInv, TypeOK, panel, bounds, history

(* A row saved by w.                                                       *)
LEMMA Saved ==
  ASSUME IInv, NEW w \in Workers, worker[w].pc # "idle", NEW part \in Parts,
         NEW r \in Row, Names(place, r), Save(w, part, r)
  PROVE  access' \in [Keys -> Row] /\ \A k \in Keys : Names(place, access'[k])
<1>1. <<Dev(w), part>> \in Keys
  BY Jobs DEF Keys
<1>2. QED
  BY <1>1 DEF Save, IInv, TypeOK

(* A config saved by w.                                                    *)
LEMMA ConfSaved ==
  ASSUME IInv, NEW w \in Workers, worker[w].pc # "idle",
         NEW status \in ConfStatus, SetConf(w, status)
  PROVE  conf' \in [Devices -> ConfStatus]
BY Jobs DEF SetConf, IInv, TypeOK

(* decrementLoad leaves the loads natural numbers.                          *)
LEMMA Decremented ==
  ASSUME IInv, NEW n, Decrement(n)
  PROVE  load' \in [Nodes -> Nat]
<1>1. load \in [Nodes -> Nat]
  BY DEF IInv, TypeOK
<1>2. CASE n \in Nodes
  BY <1>1, <1>2 DEF Decrement
<1>3. CASE n \notin Nodes
  BY <1>1, <1>3 DEF Decrement
<1>4. QED
  BY <1>2, <1>3

(* The units that failed handlers owe are added as a natural number.        *)
LEMMA Lost ==
  ASSUME IInv, NEW ws \in SUBSET Workers, Lose(ws)
  PROVE  leaked' \in [Nodes -> Nat]
<1>1. \A n \in Nodes : Cardinality({w \in ws : Owes(w, n)}) \in Nat
  <2>1. \A n \in Nodes : {w \in ws : Owes(w, n)} \subseteq Workers
    OBVIOUS
  <2>2. QED
    BY <2>1, FS_Subset, FS_CardinalityType, AccessAssumption
<1>2. QED
  BY <1>1 DEF Lose, IInv, TypeOK

(* Steps with no condition of their own.                                   *)
FreePc == Pc \ {"reading", "mapping", "mapping access", "selecting", "away",
                "saving away", "undoing"}

(* Steps with no condition on what they hold are sound to go to.            *)
LEMMA Onward ==
  ASSUME IInv, NEW w \in Workers, Working(w), NEW pc \in FreePc, Goto(w, pc)
  PROVE  worker' \in [Workers -> Sound(place)]
<1> DEFINE j == [worker[w] EXCEPT !.pc = pc]
<1>1. worker[w] \in Job /\ Fits(worker[w])
  BY DEF IInv, Sound, Working
<1>2. j.pc = pc /\ j.got = worker[w].got
  BY <1>1 DEF Job
<1>3. Fits(j)
  BY <1>1, <1>2 DEF Fits, FreePc
<1>4. QED
  BY <1>3, GoneOn DEF FreePc

(* Every variable keeps its type and every row, read or stored, names the  *)
(* node of its client.                                                     *)
LEMMA InitIInv == Init => IInv
BY AccessAssumption
   DEF Init, IInv, TypeOK, Sound, Names, Unread, Row, AccessStatus,
       ConfStatus, ProvisionStatus

(* Every handler starts as a sound job and changes the provision at most.   *)
LEMMA BeginKeeps ==
  ASSUME IInv, NEW w \in Workers, Begin(w)
  PROVE  IInv'
<1> USE DEF panel, history
<1>0. UNCHANGED <<conf, access, panel, load, crashes, undone, leaked>>
  BY DEF Begin, StartSync, StartRevoke, StartSuspend, StartDelete, StartPay,
         Start
<1>1. provision' \in ProvisionStatus
  BY DEF Begin, StartSync, StartRevoke, StartSuspend, StartDelete, StartPay,
         IInv, TypeOK, ProvisionStatus
<1>2. worker' \in [Workers -> Sound(place)] /\ jobs' \in 0 .. MaxJobs
  <2>1. ASSUME NEW d \in Devices, StartSync(w, d)
        PROVE  worker' \in [Workers -> Sound(place)] /\ jobs' \in 0 .. MaxJobs
    BY <2>1, Started DEF StartSync
  <2>2. ASSUME NEW d \in Devices, StartRevoke(w, d)
        PROVE  worker' \in [Workers -> Sound(place)] /\ jobs' \in 0 .. MaxJobs
    BY <2>2, Started DEF StartRevoke
  <2>3. CASE StartSuspend(w)
    BY <2>3, Started DEF StartSuspend
  <2>4. CASE StartDelete(w)
    BY <2>4, Started DEF StartDelete
  <2>5. CASE StartPay(w)
    BY <2>5, Started DEF StartPay
  <2>6. QED
    BY <2>1, <2>2, <2>3, <2>4, <2>5 DEF Begin
<1>3. met' \subseteq Devices
  <2>1. ASSUME NEW run, run.dev \in Devices, Start(w, run)
        PROVE  met' \subseteq Devices
    BY <2>1, MindedDevices DEF Start, Meet, IInv, TypeOK
  <2>2. ASSUME NEW pc, NEW kind, NEW devs, NEW d \in Devices,
               Start(w, Run(pc, kind, devs, d))
        PROVE  met' \subseteq Devices
    BY <2>1, <2>2 DEF Run
  <2>3. CASE \E d \in Devices : StartSync(w, d) \/ StartRevoke(w, d)
    BY <2>2, <2>3 DEF StartSync, StartRevoke
  <2>4. CASE StartSuspend(w)
    BY <2>2, <2>4 DEF StartSuspend
  <2>5. CASE StartDelete(w)
    BY <2>2, <2>5 DEF StartDelete
  <2>6. CASE StartPay(w)
    BY <2>2, <2>6 DEF StartPay
  <2>7. QED
    BY <2>3, <2>4, <2>5, <2>6 DEF Begin
<1>4. QED
  BY <1>0, <1>1, <1>2, <1>3, Carried DEF IInv, TypeOK

(* The steps of provisionOrRenew change the provision and their handler only. *)
LEMMA PayKeeps ==
  ASSUME IInv, NEW w \in Workers, Pay(w)
  PROVE  IInv'
<1> USE DEF panel, bounds, history
<1>1. worker[w].pc # "idle"
  BY DEF Pay, Activate, PayFails, PayEnds, At
<1>2. UNCHANGED <<conf, access, panel, load, bounds, history>>
  BY DEF Pay, Activate, PayFails, PayEnds
<1>3. provision' \in ProvisionStatus
  BY DEF Pay, Activate, PayFails, PayEnds, IInv, TypeOK, ProvisionStatus
<1>4. worker' \in [Workers -> Sound(place)]
  BY <1>1, Jobs, Onward, Left
     DEF Pay, Activate, PayFails, PayEnds, FreePc, Pc
<1>5. QED
  BY <1>2, <1>3, <1>4, Carried DEF IInv, TypeOK

(* Quiet deletion never leaves a client that was not there before.          *)
LEMMA DeletedQuietly ==
  ASSUME NEW n, NEW i, NEW c, DeleteQuietly(n, i, c)
  PROVE  live' \subseteq live
BY DEF DeleteQuietly

(* The rows a handler reads name their clients' nodes because the stored   *)
(* ones do; what is selected names the node of the row or nothing.         *)
LEMMA ReadRowsKeeps ==
  ASSUME IInv, NEW w \in Workers, ReadRows(w)
  PROVE  IInv'
<1> DEFINE pc == IF worker[w].st = "active" THEN "selecting" ELSE "mapping"
           j == [worker[w] EXCEPT !.rows = access, !.pc = pc]
<1>1. worker[w] \in Job /\ Fits(worker[w]) /\ Knows(place, worker[w])
      /\ worker[w].pc = "reading"
  BY Jobs DEF ReadRows, At
<1>2. access \in [Keys -> Row] /\ \A k \in Keys : Names(place, access[k])
  BY DEF IInv, TypeOK
<1>3. pc \in Pc
  BY DEF Pc
<1>4. /\ j \in Job /\ j.rows = access /\ j.got = worker[w].got /\ j.pc = pc
      /\ j.st = worker[w].st /\ j.part = worker[w].part
  BY <1>1, <1>2, <1>3 DEF Job
<1>5. Knows(place, j)
  BY <1>1, <1>2, <1>4 DEF Knows
<1>6. Fits(j)
  <2>1. ~ j.got[j.part].fresh /\ (j.pc = "mapping" => j.st # "active")
    BY <1>1, <1>4 DEF Fits
  <2>2. \A p \in Parts : j.got[p].fresh => j.got[p].login # None
    BY <1>1, <1>4 DEF Fits
  <2>3. j.pc \in {"selecting", "mapping"}
    BY <1>4
  <2> HIDE DEF j
  <2>4. QED
    BY <2>1, <2>2, <2>3 DEF Fits
<1>7. worker' = [worker EXCEPT ![w] = j]
  BY DEF ReadRows
<1>8. worker' \in [Workers -> Sound(place)]
  BY <1>4, <1>5, <1>6, <1>7, Moved DEF Sound
<1>9. QED
  BY <1>8, Quiet DEF ReadRows

(* Mapping an inactive service saves the row as read, with another status.  *)
LEMMA MapKeeps ==
  ASSUME IInv, NEW w \in Workers, MapConfig(w) \/ MapAccess(w)
  PROVE  IInv'
<1> USE DEF panel, bounds, history
<1>1. worker[w].pc \in {"mapping", "mapping access"}
  BY DEF MapConfig, MapAccess, At
<1>2. worker[w] \in Job /\ Fits(worker[w]) /\ Working(w)
  BY <1>1, Jobs
<1>3. worker[w].st \in ProvisionStatus \ {"active"}
  BY <1>1, <1>2 DEF Fits, Job
<1>4. CASE MapConfig(w)
  <2>1. mapDeviceStatus[worker[w].st] \in ConfStatus
    BY <1>3 DEF mapDeviceStatus, ProvisionStatus, ConfStatus
  <2>2. conf' \in [Devices -> ConfStatus]
    BY <1>1, <1>4, <2>1, ConfSaved DEF MapConfig
  <2> DEFINE j == [worker[w] EXCEPT !.pc = "mapping access"]
  <2>3. j.pc = "mapping access" /\ j.st = worker[w].st /\ j.got = worker[w].got
    BY <1>2 DEF Job
  <2>4. Fits(j)
    BY <1>2, <1>3, <2>3 DEF Fits
  <2>5. worker' \in [Workers -> Sound(place)]
    BY <1>2, <1>4, <2>4, GoneOn DEF MapConfig, Pc
  <2>6. QED
    BY <1>4, <2>2, <2>5, Carried DEF MapConfig, IInv, TypeOK
<1>5. CASE MapAccess(w)
  <2> DEFINE r == [Read(w) EXCEPT !.status = mapProviderStatus[worker[w].st]]
  <2>1. mapProviderStatus[worker[w].st] \in AccessStatus
    BY <1>3 DEF mapProviderStatus, ProvisionStatus, AccessStatus
  <2>2. r \in Row /\ Names(place, r)
    BY <1>1, <2>1, Jobs DEF Row, Names
  <2>3. access' \in [Keys -> Row] /\ \A k \in Keys : Names(place, access'[k])
    BY <1>1, <1>5, <2>2, Saved, AccessAssumption DEF MapAccess
  <2>4. worker' \in [Workers -> Sound(place)]
    BY <1>5, Left DEF MapAccess
  <2>5. QED
    BY <1>5, <2>3, <2>4, Carried DEF MapAccess, IInv, TypeOK
<1>6. QED
  BY <1>4, <1>5

(* What a handler holds changes in one part.                               *)
LEMMA GotChanged ==
  ASSUME NEW pl, NEW h \in Job, Fits(h), Knows(pl, h), NEW part \in Parts,
         NEW m \in Material, Names(pl, m), m.fresh => m.login # None,
         NEW pc \in FreePc \cup {"selecting"}, pc = "selecting" => ~ m.fresh
  PROVE  LET j == [h EXCEPT !.pc = pc, !.part = part,
                            !.got = [@ EXCEPT ![part] = m]]
         IN  j \in Sound(pl)
<1> DEFINE got == [h.got EXCEPT ![part] = m]
           j == [h EXCEPT !.pc = pc, !.part = part, !.got = got]
<1>1. h \in Job /\ Fits(h) /\ Knows(pl, h)
  OBVIOUS
<1>2. got \in [Parts -> Material] /\ pc \in Pc
  BY <1>1 DEF Job, FreePc, Pc
<1>3. j \in Job /\ j.rows = h.rows /\ j.got = got /\ j.pc = pc
      /\ j.part = part
  BY <1>1, <1>2 DEF Job
<1>4. got[part] = m /\ \A p \in Parts : got[p] = m \/ got[p] = h.got[p]
  BY <1>1 DEF Job
<1>5. Knows(pl, j)
  BY <1>1, <1>3, <1>4 DEF Knows
<1>6. Fits(j)
  <2> HIDE DEF j, got
  <2>1. \A p \in Parts : j.got[p].fresh => j.got[p].login # None
    BY <1>1, <1>3, <1>4 DEF Fits
  <2>2. j.pc = "selecting" => ~ j.got[j.part].fresh
    BY <1>3, <1>4
  <2>3. j.pc \notin {"reading", "mapping", "mapping access", "away",
                     "saving away", "undoing"}
    BY <1>3 DEF FreePc
  <2>4. QED
    BY <2>1, <2>2, <2>3 DEF Fits
<1>7. QED
  BY <1>3, <1>5, <1>6 DEF Sound

(* A reused client is on the node the part is served from, as its row says. *)
LEMMA SelectKeeps ==
  ASSUME IInv, NEW w \in Workers, Select(w)
  PROVE  IInv'
<1>1. PICK prof \in Profiles \cup {None} :
        worker' = [worker EXCEPT ![w] =
         [@ EXCEPT
            !.got[Part(w)] =
              [Got(w) EXCEPT
                 !.prof = prof,
                 !.login = IF Reusable(w, prof) THEN Read(w).login
                           ELSE None],
            !.pc = IF Reusable(w, prof) THEN "linking"
                   ELSE IF Replaced(w, prof) THEN "dropping"
                   ELSE "counting"]]
  BY DEF Select
<1>2. worker[w].pc = "selecting"
  BY DEF Select, At
<1> DEFINE login == IF Reusable(w, prof) THEN Read(w).login ELSE None
           m == [Got(w) EXCEPT !.prof = prof, !.login = login]
           pc == IF Reusable(w, prof) THEN "linking"
                 ELSE IF Replaced(w, prof) THEN "dropping" ELSE "counting"
           j == [worker[w] EXCEPT !.pc = pc, !.part = Part(w),
                                  !.got = [@ EXCEPT ![Part(w)] = m]]
<1>3. Got(w) \in Material /\ ~ Got(w).fresh
  BY <1>2, Jobs DEF Fits, Got, Part
<1>4. login \in Logins \cup {None}
  BY <1>2, Jobs DEF Row
<1>5. m \in Material /\ m.login = login /\ m.node = Got(w).node /\ ~ m.fresh
  BY <1>3, <1>4 DEF Material
<1>6. Names(place, m)
  <2>1. CASE Reusable(w, prof)
    BY <1>2, <1>5, <2>1, Jobs DEF Reusable, Names
  <2>2. CASE ~ Reusable(w, prof)
    BY <1>5, <2>2 DEF Names
  <2>3. QED
    BY <2>1, <2>2
<1>7. pc \in FreePc /\ pc # "selecting"
  BY DEF FreePc, Pc
<1>8. Part(w) \in Parts
  BY <1>2, Jobs
<1>9. j \in Sound(place)
  <2> HIDE DEF m, pc
  <2>1. QED
    BY <1>2, <1>5, <1>6, <1>7, <1>8, Jobs, GotChanged
<1>10. worker' = [worker EXCEPT ![w] = j]
  <2>1. worker[w] \in Job
    BY <1>2, Jobs
  <2>2. [worker[w] EXCEPT !.got[Part(w)] = m, !.pc = pc] = j
    BY <2>1 DEF Job, Part
  <2>3. QED
    BY <1>1, <2>2 DEF Got
<1>11. QED
  BY <1>9, <1>10, Moved, Quiet DEF Select

(* Deleting and releasing, of an old client or in a revocation.            *)
LEMMA ReleaseKeeps ==
  ASSUME IInv, NEW w \in Workers,
         \/ Drop(w) \/ DropSkipped(w) \/ Uncount(w)
         \/ Cut(w) \/ CutSkipped(w) \/ GiveBack(w)
  PROVE  IInv'
<1> USE DEF panel, bounds, history
<1>1. worker[w].pc # "idle" /\ Working(w)
  BY Jobs DEF Drop, DropSkipped, Uncount, Cut, CutSkipped, GiveBack, At
<1>2. worker' \in [Workers -> Sound(place)]
  BY <1>1, Onward DEF Drop, DropSkipped, Uncount, Cut, CutSkipped, GiveBack,
                      FreePc, Pc
<1>3. live' \subseteq live
  BY DeletedQuietly DEF Drop, DropSkipped, Uncount, Cut, CutSkipped, GiveBack
<1>4. load' \in [Nodes -> Nat]
  BY Decremented DEF Drop, DropSkipped, Uncount, Cut, CutSkipped, GiveBack,
                     IInv, TypeOK
<1>5. UNCHANGED <<provision, conf, access, place, bounds, history>>
  BY DEF Drop, DropSkipped, Uncount, Cut, CutSkipped, GiveBack
<1>6. QED
  BY <1>2, <1>3, <1>4, <1>5, Carried DEF IInv, TypeOK

(* Counting a unit of load, or being refused one, moves the handler on.     *)
LEMMA CountKeeps ==
  ASSUME IInv, NEW w \in Workers,
         Count(w) \/ CountRefused(w) \/ CreateRefused(w) \/ Uncreate(w)
  PROVE  IInv'
<1> USE DEF panel, bounds, history
<1>1. worker[w].pc # "idle" /\ Working(w) /\ Part(w) \in Parts
  BY Jobs DEF Count, CountRefused, CreateRefused, Uncreate, At
<1>2. worker' \in [Workers -> Sound(place)]
  BY <1>1, Onward, Caught
     DEF Count, CountRefused, CreateRefused, Uncreate, FreePc, Pc
<1>3. load' \in [Nodes -> Nat]
  BY Decremented
     DEF Count, CountRefused, CreateRefused, Uncreate, IInv, TypeOK
<1>4. UNCHANGED <<provision, conf, access, panel, bounds, history>>
  BY DEF Count, CountRefused, CreateRefused, Uncreate
<1>5. QED
  BY <1>2, <1>3, <1>4, Carried DEF IInv, TypeOK

(* A new client takes a login that no row and no handler knows, so what    *)
(* they say of theirs stays true.                                          *)
LEMMA Added ==
  ASSUME IInv, NEW w \in Workers, worker[w].pc # "idle", NEW c \in Logins,
         AddClient(w, c)
  PROVE  /\ place' \in [Logins -> Place \cup {Nowhere}]
         /\ live' \subseteq {l \in Logins : place'[l] # Nowhere}
         /\ \A r : r.login \in Logins \cup {None} /\ Names(place, r)
                    => Names(place', r)
         /\ place'[c] # Nowhere
         /\ place'[c].node = Got(w).node
<1>1. worker[w] \in Job /\ Dev(w) \in Devices /\ Part(w) \in Parts
      /\ Got(w) \in Material
  BY Jobs
<1>2. Inbound(Got(w).prof) \in Inbounds
  BY <1>1 DEF Material, Inbound, Inbounds
<1> DEFINE new == [dev |-> Dev(w), part |-> Part(w), node |-> Got(w).node,
                   inbound |-> Inbound(Got(w).prof)]
<1>3. new \in Place /\ new # Nowhere
  BY <1>1, <1>2, AccessAssumption DEF Place, Material, Nodes, Nowhere
<1>4. place \in [Logins -> Place \cup {Nowhere}]
  BY DEF IInv, TypeOK
<1>5. \A l \in live : l \in Logins /\ place[l] # Nowhere
  BY DEF IInv, TypeOK
<1>6. place' = [place EXCEPT ![c] = new] /\ place[c] = Nowhere
      /\ live' = live \cup {c}
  BY DEF AddClient
<1> HIDE DEF new
<1>7. /\ place'[c] = new
      /\ \A l \in Logins \ {c} : place'[l] = place[l]
      /\ place' \in [Logins -> Place \cup {Nowhere}]
  BY <1>3, <1>4, <1>6
<1>8. live' \subseteq {l \in Logins : place'[l] # Nowhere}
  BY <1>3, <1>5, <1>6, <1>7
<1>9. \A r : r.login \in Logins \cup {None} /\ Names(place, r)
             => Names(place', r)
  BY <1>6, <1>7 DEF Names
<1>10. place'[c].node = Got(w).node
  BY <1>7 DEF new
<1>11. QED
  BY <1>3, <1>7, <1>8, <1>9, <1>10

(* A client is created on the node its handler holds for the part.          *)
LEMMA CreateKeeps ==
  ASSUME IInv, NEW w \in Workers, Create(w) \/ CreateLost(w)
  PROVE  IInv'
<1> USE DEF panel, bounds, history
<1>1. worker[w].pc = "creating" /\ Working(w)
  BY Jobs DEF Create, CreateLost, At
<1>2. PICK c \in Logins :
        /\ AddClient(w, c)
        /\ \/ worker' = [worker EXCEPT ![w] =
                  [@ EXCEPT !.pc = "linking",
                            !.got[Part(w)] = [Got(w) EXCEPT !.login = c,
                                                            !.fresh = TRUE]]]
           \/ Goto(w, "uncreating")
  BY DEF Create, CreateLost
<1>3. /\ place' \in [Logins -> Place \cup {Nowhere}]
      /\ live' \subseteq {l \in Logins : place'[l] # Nowhere}
      /\ \A r : r.login \in Logins \cup {None} /\ Names(place, r)
                 => Names(place', r)
      /\ place'[c] # Nowhere /\ place'[c].node = Got(w).node
  BY <1>1, <1>2, Added
<1>4. \A h \in Job : Knows(place, h) => Knows(place', h)
  <2>1. SUFFICES ASSUME NEW h \in Job, Knows(place, h) PROVE Knows(place', h)
    OBVIOUS
  <2>2. \A k \in Keys : h.rows[k].login \in Logins \cup {None}
    BY DEF Job, Row
  <2>3. \A q \in Parts : h.got[q].login \in Logins \cup {None}
    BY DEF Job, Material
  <2>4. QED
    BY <1>3, <2>1, <2>2, <2>3 DEF Knows
<1>5. Sound(place) \subseteq Sound(place')
  BY <1>4 DEF Sound
<1>6. \A k \in Keys : Names(place', access[k])
  BY <1>3 DEF IInv, TypeOK, Row
<1>7. worker' \in [Workers -> Sound(place')]
  <2>1. CASE Goto(w, "uncreating")
    BY <1>1, <1>5, <2>1, Onward DEF FreePc, Pc
  <2>2. CASE worker' = [worker EXCEPT ![w] =
                 [@ EXCEPT !.pc = "linking",
                           !.got[Part(w)] = [Got(w) EXCEPT !.login = c,
                                                           !.fresh = TRUE]]]
    <3> DEFINE m == [Got(w) EXCEPT !.login = c, !.fresh = TRUE]
               j == [worker[w] EXCEPT !.pc = "linking", !.part = Part(w),
                                      !.got = [@ EXCEPT ![Part(w)] = m]]
    <3>1. /\ worker[w] \in Job /\ Fits(worker[w]) /\ Knows(place', worker[w])
          /\ Part(w) \in Parts /\ Got(w) \in Material
      BY <1>1, <1>4, Jobs
    <3>2. m \in Material /\ m.login = c /\ m.node = Got(w).node
      BY <3>1 DEF Material
    <3>3. Names(place', m) /\ m.login # None
      BY <1>3, <3>2, AccessAssumption DEF Names
    <3>4. j \in Sound(place')
      <4> HIDE DEF m
      <4>1. QED
        BY <3>1, <3>2, <3>3, GotChanged DEF FreePc, Pc
    <3>5. [worker[w] EXCEPT !.pc = "linking", !.got[Part(w)] = m] = j
      BY <3>1 DEF Job, Part
    <3>6. worker' = [worker EXCEPT ![w] = j]
      BY <2>2, <3>5
    <3>7. QED
      BY <1>5, <3>4, <3>6 DEF IInv
  <2>3. QED
    BY <1>2, <2>1, <2>2
<1>8. UNCHANGED <<provision, conf, access, load, bounds, history>>
  BY DEF Create, CreateLost
<1>9. Sound(place') = Sound(place)'
  BY DEF Sound, Knows, Names
<1>10. worker' \in [Workers -> {Idle} \cup Job]
  BY <1>7 DEF Sound
<1>11. TypeOK'
  BY <1>3, <1>8, <1>10 DEF IInv, TypeOK
<1>12. \A k \in Keys : Names(place', access'[k])
  BY <1>6, <1>8
<1>13. QED
  BY <1>7, <1>9, <1>11, <1>12 DEF IInv, Names

(* The link of a part leads on to the next part, to its rows or to its catch. *)
LEMMA LinkKeeps ==
  ASSUME IInv, NEW w \in Workers, Link(w) \/ LinkFails(w)
  PROVE  IInv'
<1>1. worker[w].pc = "linking" /\ Working(w) /\ Part(w) \in Parts
  BY Jobs DEF Link, LinkFails, At
<1>2. CASE Link(w) /\ "away" \notin Parts
  BY <1>1, <1>2, Onward, Quiet DEF Link, FreePc, Pc
<1>3. CASE Link(w) /\ "away" \in Parts
  <2> DEFINE pc == IF Part(w) = "away" THEN "saving away" ELSE "away"
             j == [worker[w] EXCEPT !.pc = pc]
  <2>1. worker[w] \in Job /\ Fits(worker[w])
    BY <1>1, Jobs
  <2>2. j.pc \in {"away", "saving away"} /\ j.got = worker[w].got
    BY <2>1 DEF Job
  <2>3. Fits(j)
    BY <1>3, <2>1, <2>2 DEF Fits
  <2>4. Goto(w, pc) /\ pc \in Pc
    BY <1>3 DEF Link, Pc
  <2>5. QED
    BY <1>1, <1>3, <2>3, <2>4, GoneOn, Quiet DEF Link
<1>4. CASE LinkFails(w)
  BY <1>1, <1>4, Caught, Quiet DEF LinkFails
<1>5. QED
  BY <1>2, <1>3, <1>4

(* An away profile starts with the node selected and no client.             *)
LEMMA SelectAwayKeeps ==
  ASSUME IInv, NEW w \in Workers, SelectAway(w)
  PROVE  IInv'
<1>1. worker[w].pc = "away" /\ Working(w)
  BY Jobs DEF SelectAway, At
<1>2. worker[w] \in Job /\ Fits(worker[w]) /\ Knows(place, worker[w])
  BY <1>1, Jobs
<1>3. "away" \in Parts
  BY <1>1, <1>2 DEF Fits
<1>4. CASE Goto(w, "readying")
  BY <1>1, <1>4, Onward, Quiet DEF SelectAway, FreePc, Pc
<1>5. ASSUME NEW n \in AwayNodes,
             worker' = [worker EXCEPT ![w] =
               [@ EXCEPT !.pc = "selecting",
                         !.part = "away",
                         !.got["away"] = [NoMaterial EXCEPT !.node = n]]]
      PROVE  IInv'
  <2> DEFINE m == [NoMaterial EXCEPT !.node = n]
             j == [worker[w] EXCEPT !.pc = "selecting", !.part = "away",
                                    !.got = [@ EXCEPT !["away"] = m]]
  <2>1. m \in Material /\ Names(place, m) /\ ~ m.fresh
    BY DEF NoMaterial, Material, Nodes, Names
  <2>2. j \in Sound(place)
    <3> HIDE DEF m
    <3>1. QED
      BY <1>2, <1>3, <2>1, GotChanged
  <2>3. worker' = [worker EXCEPT ![w] = j]
    BY <1>5
  <2>4. QED
    BY <2>2, <2>3, Moved, Quiet DEF SelectAway
<1>6. QED
  BY <1>4, <1>5 DEF SelectAway

(* What is granted names the node of the client it grants.                 *)
LEMMA GrantKeeps ==
  ASSUME IInv, NEW w \in Workers, SaveAway(w) \/ Ready(w) \/ Grant(w)
  PROVE  IInv'
<1> USE DEF panel, bounds, history
<1>1. worker[w].pc # "idle" /\ Working(w) /\ Part(w) \in Parts
  BY Jobs DEF SaveAway, Ready, Grant, At
<1>2. Granted(w) \in Row /\ Names(place, Granted(w))
  BY <1>1, Jobs DEF Granted, Row, Material, AccessStatus, Names
<1>3. CASE SaveAway(w)
  <2>1. worker[w] \in Job /\ Fits(worker[w])
    BY <1>1, Jobs
  <2>2. "away" \in Parts
    BY <1>3, <2>1 DEF SaveAway, At, Fits
  <2>3. worker' \in [Workers -> Sound(place)]
    BY <1>1, <1>3, <2>2, Ended DEF SaveAway
  <2>4. access' \in [Keys -> Row] /\ \A k \in Keys : Names(place, access'[k])
    BY <1>1, <1>2, <1>3, <2>2, Saved DEF SaveAway
  <2>5. QED
    BY <1>3, <2>3, <2>4, Carried DEF SaveAway, IInv, TypeOK
<1>4. CASE Ready(w)
  <2>1. conf' \in [Devices -> ConfStatus]
    BY <1>1, <1>4, ConfSaved DEF Ready, ConfStatus
  <2>2. worker' \in [Workers -> Sound(place)]
    BY <1>1, <1>4, Onward DEF Ready, FreePc, Pc
  <2>3. QED
    BY <1>4, <2>1, <2>2, Carried DEF Ready, IInv, TypeOK
<1>5. CASE Grant(w)
  <2>1. access' \in [Keys -> Row] /\ \A k \in Keys : Names(place, access'[k])
    BY <1>1, <1>2, <1>5, Saved, AccessAssumption DEF Grant
  <2>2. worker' \in [Workers -> Sound(place)]
    BY <1>5, Left DEF Grant
  <2>3. QED
    BY <1>5, <2>1, <2>2, Carried DEF Grant, IInv, TypeOK
<1>6. QED
  BY <1>3, <1>4, <1>5

(* The catch blocks save the row as read and drop what the part has got.    *)
LEMMA CatchKeeps ==
  ASSUME IInv, NEW w \in Workers,
         Undo(w) \/ Return(w) \/ FailConfig(w) \/ FailAccess(w)
  PROVE  IInv'
<1> USE DEF panel, bounds, history
<1>1. worker[w].pc # "idle" /\ Working(w) /\ Part(w) \in Parts
  BY Jobs DEF Undo, Return, FailConfig, FailAccess, At
<1>2. CASE Undo(w)
  <2>1. worker[w] \in Job /\ Fits(worker[w]) /\ worker[w].pc = "undoing"
    BY <1>1, <1>2, Jobs DEF Undo, At
  <2>2. Got(w).login \in Logins
    BY <1>1, <2>1, Jobs DEF Fits, Got, Part, Material
  <2>3. undone' \subseteq Logins /\ live' \subseteq live
    BY <1>2, <2>2, DeletedQuietly DEF Undo, IInv, TypeOK
  <2>4. worker' \in [Workers -> Sound(place)]
    BY <1>1, <1>2, Onward DEF Undo, FreePc, Pc
  <2>5. QED
    BY <1>2, <2>3, <2>4, Carried DEF Undo, IInv, TypeOK
<1>3. CASE Return(w)
  BY <1>1, <1>3, Ended, Decremented, Carried DEF Return, IInv, TypeOK
<1>4. CASE FailConfig(w)
  <2>1. conf' \in [Devices -> ConfStatus]
    BY <1>1, <1>4, ConfSaved DEF FailConfig, ConfStatus
  <2>2. worker' \in [Workers -> Sound(place)]
    BY <1>1, <1>4, Onward DEF FailConfig, FreePc, Pc
  <2>3. QED
    BY <1>4, <2>1, <2>2, Carried DEF FailConfig, IInv, TypeOK
<1>5. CASE FailAccess(w)
  <2> DEFINE r == [Read(w) EXCEPT !.status = "failed"]
  <2>1. r \in Row /\ Names(place, r)
    BY <1>1, Jobs DEF Row, AccessStatus, Names
  <2>2. access' \in [Keys -> Row] /\ \A k \in Keys : Names(place, access'[k])
    BY <1>1, <1>5, <2>1, Saved, AccessAssumption DEF FailAccess
  <2>3. worker' \in [Workers -> Sound(place)]
    BY <1>5, Left DEF FailAccess
  <2>4. QED
    BY <1>5, <2>2, <2>3, Carried DEF FailAccess, IInv, TypeOK
<1>6. QED
  BY <1>2, <1>3, <1>4, <1>5

(* Every step of an activation or a refresh keeps the invariant.            *)
LEMMA SyncKeeps ==
  ASSUME IInv, NEW w \in Workers, Sync(w)
  PROVE  IInv'
<1>1. CASE ReadRows(w) \/ MapConfig(w) \/ MapAccess(w) \/ Select(w)
  BY <1>1, ReadRowsKeeps, MapKeeps, SelectKeeps
<1>2. CASE Drop(w) \/ DropSkipped(w) \/ Uncount(w)
  BY <1>2, ReleaseKeeps
<1>3. CASE Count(w) \/ CountRefused(w) \/ CreateRefused(w) \/ Uncreate(w)
  BY <1>3, CountKeeps
<1>4. CASE Create(w) \/ CreateLost(w)
  BY <1>4, CreateKeeps
<1>5. CASE Link(w) \/ LinkFails(w) \/ SelectAway(w)
  BY <1>5, LinkKeeps, SelectAwayKeeps
<1>6. CASE SaveAway(w) \/ Ready(w) \/ Grant(w)
  BY <1>6, GrantKeeps
<1>7. CASE Undo(w) \/ Return(w) \/ FailConfig(w) \/ FailAccess(w)
  BY <1>7, CatchKeeps
<1>8. QED
  BY <1>1, <1>2, <1>3, <1>4, <1>5, <1>6, <1>7 DEF Sync

(* A revocation turns to a device: it goes on where that one's rows are.   *)
LEMMA Directed ==
  ASSUME IInv, NEW w \in Workers, Working(w), NEW d \in Devices,
         NEW rows \in [Keys -> Row], \A k \in Keys : Names(place, rows[k]),
         worker' = [worker EXCEPT ![w] =
           [@ EXCEPT !.rows = rows, !.pc = "cutting",
                     !.dev = d, !.devs = worker[w].devs \ {d}]]
  PROVE  worker' \in [Workers -> Sound(place)]
<1> DEFINE j == [worker[w] EXCEPT !.rows = rows, !.pc = "cutting",
                                  !.dev = d, !.devs = worker[w].devs \ {d}]
<1>1. worker[w] \in Job /\ Fits(worker[w]) /\ Knows(place, worker[w])
  BY DEF IInv, Sound, Working
<1>2. worker[w].devs \ {d} \in SUBSET Devices
  BY <1>1 DEF Job
<1>3. j \in Job /\ j.rows = rows /\ j.got = worker[w].got /\ j.pc = "cutting"
  BY <1>1, <1>2 DEF Job, Pc
<1>4. Knows(place, j)
  BY <1>1, <1>3 DEF Knows
<1>5. Fits(j)
  <2> HIDE DEF j
  <2>1. QED
    BY <1>1, <1>3 DEF Fits
<1>6. QED
  BY <1>3, <1>4, <1>5, Moved DEF Sound

(* Every step of a revocation keeps the invariant: it saves the rows as read. *)
LEMMA RevokeKeeps ==
  ASSUME IInv, NEW w \in Workers, Revoke(w)
  PROVE  IInv'
<1> USE DEF panel, bounds, history
<1>1. CASE Cut(w) \/ CutSkipped(w) \/ GiveBack(w)
  BY <1>1, ReleaseKeeps
<1>2. CASE ReadForRevoke(w)
  <2>1. Working(w)
    BY <1>2, Jobs DEF ReadForRevoke, At
  <2>2. PICK d \in worker[w].devs :
          worker' = [worker EXCEPT ![w] =
            [@ EXCEPT !.rows = access, !.pc = "cutting",
                      !.dev = d, !.devs = worker[w].devs \ {d}]]
    BY <1>2 DEF ReadForRevoke
  <2>3. d \in Devices
    BY <1>2, Jobs DEF ReadForRevoke, At, Job
  <2>4. worker' \in [Workers -> Sound(place)]
    BY <2>1, <2>2, <2>3, Directed DEF IInv, TypeOK
  <2>5. QED
    BY <1>2, <2>4, Quiet DEF ReadForRevoke
<1>3. CASE CloseAccess(w)
  <2> DEFINE r == [Read(w) EXCEPT !.status = EndStatus(w)]
  <2>1. worker[w].pc # "idle" /\ Working(w) /\ Part(w) \in Parts
        /\ worker[w] \in Job /\ Fits(worker[w])
    BY <1>3, Jobs DEF CloseAccess, At
  <2>2. r \in Row /\ Names(place, r)
    BY <2>1, Jobs DEF Row, AccessStatus, Names, EndStatus
  <2>3. access' \in [Keys -> Row] /\ \A k \in Keys : Names(place, access'[k])
    BY <1>3, <2>1, <2>2, Saved DEF CloseAccess
  <2>4. ASSUME NEW part \in Parts, NEW pc \in {"cutting", "closing config"},
               Turn(w, part, pc)
        PROVE  worker' \in [Workers -> Sound(place)]
    <3> DEFINE j == [worker[w] EXCEPT !.pc = pc, !.part = part]
    <3>1. j.pc = pc /\ j.got = worker[w].got
      BY <2>1 DEF Job
    <3>2. Fits(j)
      BY <2>1, <3>1 DEF Fits
    <3>3. QED
      BY <2>1, <2>4, <3>2, Turned DEF Pc
  <2>5. worker' \in [Workers -> Sound(place)]
    BY <1>3, <2>4, AccessAssumption DEF CloseAccess
  <2>6. QED
    BY <1>3, <2>3, <2>5, Carried DEF CloseAccess, IInv, TypeOK
<1>4. CASE CloseConfig(w)
  <2>1. worker[w].pc = "closing config" /\ Working(w) /\ worker[w] \in Job
        /\ Fits(worker[w]) /\ Knows(place, worker[w])
    BY <1>4, Jobs DEF CloseConfig, At
  <2>2. conf' \in [Devices -> ConfStatus]
    BY <1>4, <2>1, ConfSaved DEF CloseConfig, EndStatus, ConfStatus
  <2>3. ASSUME NEW d \in worker[w].devs,
               worker' = [worker EXCEPT ![w] =
                 [@ EXCEPT !.pc = "cutting", !.dev = d,
                           !.devs = worker[w].devs \ {d}]]
        PROVE  worker' \in [Workers -> Sound(place)]
    <3> DEFINE j == [worker[w] EXCEPT !.pc = "cutting", !.dev = d,
                                      !.devs = worker[w].devs \ {d}]
    <3>1. d \in Devices /\ worker[w].devs \ {d} \in SUBSET Devices
      BY <2>1 DEF Job
    <3>2. j \in Job /\ j.rows = worker[w].rows /\ j.got = worker[w].got
          /\ j.pc = "cutting"
      BY <2>1, <3>1 DEF Job, Pc
    <3>3. Knows(place, j)
      BY <2>1, <3>2 DEF Knows
    <3>4. Fits(j)
      <4> HIDE DEF j
      <4>1. QED
        BY <2>1, <3>2 DEF Fits
    <3>5. QED
      BY <2>3, <3>2, <3>3, <3>4, Moved DEF Sound
  <2>4. ASSUME Goto(w, "marking")
        PROVE  worker' \in [Workers -> Sound(place)]
    BY <2>1, <2>4, Onward DEF FreePc, Pc
  <2>5. ASSUME Leave(w)
        PROVE  worker' \in [Workers -> Sound(place)]
    BY <2>5, Left
  <2>6. worker' \in [Workers -> Sound(place)]
    BY <1>4, <2>3, <2>4, <2>5 DEF CloseConfig
  <2>7. QED
    BY <1>4, <2>2, <2>6, Carried DEF CloseConfig, IInv, TypeOK
<1>5. CASE MarkDeleted(w)
  BY <1>5, Left, Carried DEF MarkDeleted, IInv, TypeOK, ProvisionStatus
<1>6. QED
  BY <1>1, <1>2, <1>3, <1>4, <1>5 DEF Revoke

(* A database call that throws leaves its handler at a sound step or ends it. *)
LEMMA ThrowKeeps ==
  ASSUME IInv, NEW w \in Workers, Throw(w)
  PROVE  IInv'
<1> USE DEF panel, bounds, history
<1>1. worker[w].pc # "idle"
  BY DEF Throw, InTry, AfterTry, At
<1>2. Working(w) /\ Part(w) \in Parts
  BY <1>1, Jobs
<1>3. worker' \in [Workers -> Sound(place)]
  BY <1>2, Caught, Left, AccessAssumption DEF Throw
<1>4. leaked' \in [Nodes -> Nat]
  BY Lost DEF Throw
<1>5. UNCHANGED <<provision, conf, access, panel, load, bounds, undone>>
  BY DEF Throw
<1>6. met' \subseteq Devices
  <2>1. Minded(worker[w]) \subseteq Devices
    BY <1>1, Jobs, MindedDevices DEF Dev
  <2>2. met \subseteq Devices
    BY DEF IInv, TypeOK
  <2>3. QED
    BY <2>1, <2>2 DEF Throw, Meet
<1>7. QED
  BY <1>3, <1>4, <1>5, <1>6, Carried DEF IInv, TypeOK

(* A crash leaves no job.                                                   *)
LEMMA CrashKeeps ==
  ASSUME IInv, Crash
  PROVE  IInv'
<1>1. worker' \in [Workers -> Sound(place)]
  BY DEF Crash, Sound
<1>2. leaked' \in [Nodes -> Nat]
  BY Lost DEF Crash
<1>3. crashes' \in 0 .. MaxCrashes
  BY AccessAssumption DEF Crash, IInv, TypeOK
<1>4. met' \subseteq Devices
  BY DEF Crash, Meet, IInv, TypeOK
<1>5. QED
  BY <1>1, <1>2, <1>3, <1>4, Carried DEF Crash, IInv, TypeOK, panel

(* The invariant holds in every reachable state.                            *)
LEMMA Invariance == Spec => []IInv
<1>1. IInv /\ [Next]_vars => IInv'
  <2> SUFFICES ASSUME IInv, [Next]_vars PROVE IInv'
    OBVIOUS
  <2>1. ASSUME NEW w \in Workers,
               Begin(w) \/ Pay(w) \/ Sync(w) \/ Revoke(w) \/ Throw(w)
        PROVE  IInv'
    BY <2>1, BeginKeeps, PayKeeps, SyncKeeps, RevokeKeeps, ThrowKeeps
  <2>2. CASE Crash
    BY <2>2, CrashKeeps
  <2>3. CASE UNCHANGED vars
    BY <2>3, Quiet DEF vars, panel, bounds, history, IInv, TypeOK
  <2>4. QED
    BY <2>1, <2>2, <2>3 DEF Next
<1>2. QED
  BY <1>1, InitIInv, PTL DEF Spec

(* Every variable keeps its type.                                          *)
THEOREM TypeCorrect == Spec => []TypeOK
<1>1. IInv => TypeOK
  BY DEF IInv
<1>2. QED
  BY <1>1, Invariance, PTL

(* An access row names the node its client was created on: through any     *)
(* interleaving of handlers, switch of nodes, failed call or crash.        *)
THEOREM RowsNameNodes == Spec => []RowNamesNode
<1>1. IInv => RowNamesNode
  BY DEF IInv, RowNamesNode, Names
<1>2. QED
  BY <1>1, Invariance, PTL

(* w's part p holds a client that its catch block has deleted: w is giving *)
(* its unit back, or goes on to fail the normal profile after that of an   *)
(* away profile could not be given back.                                   *)
Closing(j, p) ==
  \/ j.pc = "returning" /\ j.part = p
  \/ /\ p = "away" /\ j.part = "normal"
     /\ j.pc \in {"undoing", "returning", "failing", "failing access"}

Tidy(un, j) ==
  /\ \A k \in Keys : j.rows[k].login \notin un
  /\ \A p \in Parts :
       j.got[p].login \in un => j.got[p].fresh /\ Closing(j, p)
  /\ j.pc = "saving away" => j.part = "away"

(* The login is in no row, read or stored, and in no other hand.           *)
Private(w, p, c) ==
  /\ \A k \in Keys : access[k].login # c
  /\ \A v \in Workers :
       Working(v) =>
         /\ \A k \in Keys : worker[v].rows[k].login # c
         /\ \A q \in Parts : <<v, q>> # <<w, p>> => worker[v].got[q].login # c

UInv ==
  /\ \A c \in undone : place[c] # Nowhere
  /\ \A k \in Keys : access[k].login \notin undone
  /\ \A w \in Workers : Working(w) => Tidy(undone, worker[w])
  /\ \A w \in Workers, p \in Parts :
       Working(w) /\ worker[w].got[p].fresh
       => Private(w, p, worker[w].got[p].login)

(* A login that rows may name: not undone, and nobody's fresh client.      *)
Settled(l) ==
  /\ l \notin undone
  /\ \A v \in Workers, p \in Parts :
       Working(v) /\ worker[v].got[p].fresh => worker[v].got[p].login # l

(* w, that becomes j, lets go of a client it may grant.                    *)
Handed(w, j, l) ==
  /\ Working(w)
  /\ \E p \in Parts : /\ l = worker[w].got[p].login
                      /\ ~ Closing(worker[w], p)
                      /\ j = Idle \/ ~ j.got[p].fresh

Follows(w, j) ==
  /\ \A k \in Keys : Settled(j.rows[k].login)
  /\ \A p \in Parts :
       \/ /\ Working(w) /\ j.got[p] = worker[w].got[p]
          /\ Closing(worker[w], p) => Closing(j, p)
       \/ ~ j.got[p].fresh /\ Settled(j.got[p].login)
  /\ j.pc = "saving away" => j.part = "away"

(* What is stored, what a handler has read, and no login at all are settled. *)
LEMMA Stock ==
  ASSUME IInv, UInv
  PROVE  /\ Settled(None)
         /\ \A k \in Keys : Settled(access[k].login)
         /\ \A w \in Workers : Working(w) =>
              \A k \in Keys : Settled(worker[w].rows[k].login)
<1>1. None \notin undone
  BY AccessAssumption DEF IInv, TypeOK
<1>2. \A v \in Workers, p \in Parts :
        Working(v) /\ worker[v].got[p].fresh => worker[v].got[p].login # None
  BY DEF IInv, Sound, Working, Fits
<1>3. QED
  BY <1>1, <1>2 DEF UInv, Tidy, Private, Settled

(* A step of w after which everything stored and held is settled, or was   *)
(* w's and is let go by it.                                                *)
LEMMA Passed ==
  ASSUME IInv, UInv, NEW w \in Workers, NEW j,
         worker' = [worker EXCEPT ![w] = j], undone' = undone,
         \A c \in undone : place'[c] # Nowhere,
         \A k \in Keys : \/ Settled(access'[k].login)
                         \/ Handed(w, j, access'[k].login),
         j = Idle \/ Follows(w, j)
  PROVE  UInv'
<1>1. worker'[w] = j /\ \A v \in Workers \ {w} : worker'[v] = worker[v]
  BY DEF IInv
<1>2. \A k \in Keys : access'[k].login \notin undone
  BY DEF Settled, Handed, UInv, Tidy
<1>3. \A v \in Workers : Working(v)' => Tidy(undone, worker'[v])
  <2>1. ASSUME NEW v \in Workers \ {w}, Working(v)'
        PROVE  Tidy(undone, worker'[v])
    BY <1>1, <2>1 DEF Working, UInv
  <2>2. ASSUME Follows(w, j)
        PROVE  Tidy(undone, j)
    BY <2>2 DEF Follows, Settled, Tidy, UInv
  <2>3. QED
    BY <1>1, <2>1, <2>2 DEF Working
<1>4. ASSUME NEW v \in Workers, NEW p \in Parts,
             Working(v)', worker'[v].got[p].fresh
      PROVE  Private(v, p, worker[v].got[p].login)'
  <2> DEFINE c == worker[v].got[p].login
  <2>1. Working(v) /\ worker[v].got[p].fresh /\ worker'[v].got[p].login = c
    BY <1>1, <1>4 DEF Working, Follows
  <2>2. Private(v, p, c)
    BY <2>1 DEF UInv
  <2>3. \A l : Settled(l) => l # c
    BY <2>1 DEF Settled
  <2>4. ASSUME NEW k \in Keys PROVE access'[k].login # c
    <3>1. CASE Settled(access'[k].login)
      BY <2>3, <3>1
    <3>2. CASE Handed(w, j, access'[k].login)
      <4>1. PICK q \in Parts : /\ access'[k].login = worker[w].got[q].login
                               /\ j = Idle \/ ~ j.got[q].fresh
        BY <3>2 DEF Handed
      <4>2. <<w, q>> # <<v, p>>
        BY <1>1, <1>4, <4>1 DEF Working
      <4>3. Working(w)
        BY <3>2 DEF Handed
      <4>4. QED
        BY <2>2, <4>1, <4>2, <4>3 DEF Private
    <3>3. QED
      BY <3>1, <3>2
  <2>5. ASSUME NEW u \in Workers, Working(u)'
        PROVE  /\ \A k \in Keys : worker'[u].rows[k].login # c
               /\ \A q \in Parts :
                    <<u, q>> # <<v, p>> => worker'[u].got[q].login # c
    <3>1. CASE u # w
      BY <1>1, <2>2, <2>5, <3>1 DEF Working, Private
    <3>2. CASE u = w
      <4>1. Follows(w, j)
        BY <1>1, <2>5, <3>2 DEF Working
      <4>2. \A k \in Keys : worker'[u].rows[k].login # c
        BY <1>1, <2>3, <3>2, <4>1 DEF Follows
      <4>3. ASSUME NEW q \in Parts, <<u, q>> # <<v, p>>
            PROVE  worker'[u].got[q].login # c
        <5>1. CASE Working(w) /\ j.got[q] = worker[w].got[q]
          BY <1>1, <2>2, <3>2, <4>3, <5>1 DEF Private
        <5>2. CASE Settled(j.got[q].login)
          BY <1>1, <2>3, <3>2, <5>2
        <5>3. QED
          BY <4>1, <5>1, <5>2 DEF Follows
      <4>4. QED
        BY <4>2, <4>3
    <3>3. QED
      BY <3>1, <3>2
  <2>6. QED
    BY <2>1, <2>4, <2>5 DEF Private
<1>5. QED
  BY <1>2, <1>3, <1>4 DEF UInv

(* A handler goes on with what it has.                                     *)
LEMMA Advanced ==
  ASSUME IInv, UInv, NEW w \in Workers, Working(w), NEW pc, NEW part,
         Turn(w, part, pc), pc = "saving away" => part = "away",
         \A p \in Parts : Closing(worker[w], p) =>
           Closing([worker[w] EXCEPT !.pc = pc, !.part = part], p),
         undone' = undone, \A c \in undone : place'[c] # Nowhere,
         \A k \in Keys : Settled(access'[k].login)
  PROVE  UInv'
<1> DEFINE j == [worker[w] EXCEPT !.pc = pc, !.part = part]
<1>1. worker[w] \in Job
  BY DEF IInv, Sound, Working
<1>2. /\ j.rows = worker[w].rows /\ j.got = worker[w].got
      /\ j.pc = pc /\ j.part = part
  BY <1>1 DEF Job
<1>3. \A p \in Parts : Closing(worker[w], p) => Closing(j, p)
  OBVIOUS
<1>4. worker' = [worker EXCEPT ![w] = j]
  BY DEF Turn
<1> HIDE DEF j
<1>5. Follows(w, j)
  BY <1>2, <1>3, Stock DEF Follows
<1>6. QED
  BY <1>4, <1>5, Passed

(* Going to a step of the same part is such a turn.                        *)
LEMMA GoingTurns ==
  ASSUME IInv, NEW w \in Workers, Working(w), NEW pc, Goto(w, pc)
  PROVE  Turn(w, Part(w), pc)
<1>1. worker[w] \in Job
  BY DEF IInv, Sound, Working
<1>2. [worker[w] EXCEPT !.pc = pc]
      = [worker[w] EXCEPT !.pc = pc, !.part = worker[w].part]
  BY <1>1 DEF Job
<1>3. QED
  BY <1>2 DEF Goto, Turn, Part

(* The steps at which a handler may hold a deleted client.                 *)
Late == {"undoing", "returning", "failing", "failing access"}

(* Before them a handler that goes on keeps the invariant.                 *)
LEMMA Going ==
  ASSUME IInv, UInv, NEW w \in Workers, Working(w),
         worker[w].pc \notin Late, NEW pc, Goto(w, pc),
         pc = "saving away" => Part(w) = "away",
         UNCHANGED <<undone, access>>, \A c \in undone : place'[c] # Nowhere
  PROVE  UInv'
<1>1. Turn(w, Part(w), pc)
  BY GoingTurns
<1>2. \A p \in Parts : ~ Closing(worker[w], p)
  BY DEF Closing, Late
<1>3. QED
  BY <1>1, <1>2, Stock, Advanced

(* A handler that ends may save a client it has and has not deleted.       *)
LEMMA Ending ==
  ASSUME IInv, UInv, NEW w \in Workers, Working(w), Leave(w),
         undone' = undone, place' = place,
         \A k \in Keys :
           \/ Settled(access'[k].login)
           \/ /\ access'[k].login = Got(w).login
              /\ ~ Closing(worker[w], Part(w))
  PROVE  UInv'
<1>1. Part(w) \in Parts
  BY DEF IInv, Sound, Working, Job, Part
<1>2. \A k \in Keys : \/ Settled(access'[k].login)
                      \/ Handed(w, Idle, access'[k].login)
  BY <1>1 DEF Handed, Got
<1>3. QED
  BY <1>2, Passed DEF Leave, UInv

(* So may one that ends a part.                                            *)
LEMMA PartEnding ==
  ASSUME IInv, UInv, NEW w \in Workers, Working(w), NEW part \in Parts,
         EndPart(w, part), undone' = undone, place' = place,
         \A p \in Parts \ {part} :
           Closing(worker[w], p) => p = "away" /\ part = "normal",
         \A k \in Keys :
           \/ Settled(access'[k].login)
           \/ /\ access'[k].login = worker[w].got[part].login
              /\ ~ Closing(worker[w], part)
  PROVE  UInv'
<1> DEFINE pc == IF part = "away" THEN "readying" ELSE "failing"
           got == [worker[w].got EXCEPT ![part] = NoMaterial]
           j == [worker[w] EXCEPT !.pc = pc, !.part = "normal", !.got = got]
<1>1. worker[w] \in Job
  BY DEF IInv, Sound, Working
<1>2. /\ j.rows = worker[w].rows /\ j.got = got /\ j.pc = pc
      /\ j.part = "normal"
  BY <1>1 DEF Job
<1>3. got[part] = NoMaterial
      /\ \A p \in Parts \ {part} : got[p] = worker[w].got[p]
  BY <1>1 DEF Job
<1>4. worker' = [worker EXCEPT ![w] = j]
  BY DEF EndPart
<1>5. \A p \in Parts \ {part} : Closing(worker[w], p) => Closing(j, p)
  <2> HIDE DEF j
  <2>1. QED
    BY <1>2 DEF Closing
<1>6. NoMaterial.login = None /\ ~ NoMaterial.fresh
  BY DEF NoMaterial
<1> HIDE DEF j, got, pc
<1>7. Follows(w, j)
  <2>1. pc # "saving away"
    BY DEF pc
  <2>2. QED
    BY <1>2, <1>3, <1>5, <1>6, <2>1, Stock DEF Follows
<1>8. \A k \in Keys : \/ Settled(access'[k].login)
                      \/ Handed(w, j, access'[k].login)
  BY <1>2, <1>3, <1>6 DEF Handed
<1>9. QED
  BY <1>4, <1>7, <1>8, Passed DEF UInv

(* A catch block is entered before it, or from that of the away profile.   *)
LEMMA Catching ==
  ASSUME IInv, UInv, NEW w \in Workers, Working(w), NEW part \in Parts,
         Catch(w, part), UNCHANGED <<undone, place, access>>,
         \/ worker[w].pc \notin Late
         \/ At(w, "returning") /\ Part(w) = "away" /\ part = "normal"
  PROVE  UInv'
<1>1. \A p \in Parts :
        Closing(worker[w], p) => p = "away" /\ part = "normal"
  BY DEF Closing, Late, At, Part
<1>2. \A k \in Keys : Settled(access'[k].login)
  BY Stock
<1>3. CASE worker[w].got[part].fresh
  <2> DEFINE j == [worker[w] EXCEPT !.pc = "undoing", !.part = part]
  <2>1. j.pc = "undoing" /\ j.part = part
    BY DEF IInv, Sound, Working, Job
  <2> HIDE DEF j
  <2>2. \A p \in Parts : Closing(worker[w], p) => Closing(j, p)
    BY <1>1, <2>1 DEF Closing
  <2>3. Turn(w, part, "undoing")
    BY <1>3 DEF Catch
  <2>4. QED
    BY <1>2, <2>2, <2>3, Advanced DEF j, UInv
<1>4. CASE ~ worker[w].got[part].fresh
  BY <1>1, <1>2, <1>4, PartEnding DEF Catch
<1>5. QED
  BY <1>3, <1>4

(* Nothing is held or undone at first.                                     *)
LEMMA InitUInv == Init => UInv
BY AccessAssumption DEF Init, UInv, Unread, Working

(* A handler that starts has read nothing and got nothing.                 *)
LEMMA BeginTidy ==
  ASSUME IInv, UInv, NEW w \in Workers, Begin(w)
  PROVE  UInv'
<1>1. UNCHANGED <<undone, place, access>>
  BY DEF Begin, StartSync, StartRevoke, StartSuspend, StartDelete, StartPay,
         Start, panel
<1>2. ASSUME NEW pc \in {"reading", "revoking", "paying"}, NEW kind, NEW devs,
             NEW d, Start(w, Run(pc, kind, devs, d))
      PROVE  UInv'
  <2> DEFINE j == Run(pc, kind, devs, d)
  <2>1. Follows(w, j)
    BY Stock DEF Run, Unread, NoMaterial, Follows
  <2>2. worker' = [worker EXCEPT ![w] = j]
    BY <1>2 DEF Start
  <2> HIDE DEF j
  <2>3. QED
    BY <1>1, <2>1, <2>2, Stock, Passed DEF UInv
<1>3. QED
  BY <1>2 DEF Begin, StartSync, StartRevoke, StartSuspend, StartDelete, StartPay

(* The steps of a payment hold no client.                                  *)
LEMMA PayTidy ==
  ASSUME IInv, UInv, NEW w \in Workers, Pay(w)
  PROVE  UInv'
<1>1. /\ Working(w) /\ worker[w].pc \notin Late
      /\ UNCHANGED <<undone, place, access>>
  BY Jobs DEF Pay, Activate, PayFails, PayEnds, At, Late, panel, history
<1>2. CASE Activate(w)
  BY <1>1, <1>2, Going DEF Activate, UInv
<1>3. CASE PayFails(w) \/ PayEnds(w)
  BY <1>1, <1>3, Ending, Stock DEF PayFails, PayEnds
<1>4. QED
  BY <1>2, <1>3 DEF Pay

(* The rows a handler reads name settled logins.                           *)
LEMMA ReadTidy ==
  ASSUME IInv, UInv, NEW w \in Workers, ReadRows(w) \/ ReadForRevoke(w)
  PROVE  UInv'
<1>1. /\ worker[w] \in Job /\ Working(w) /\ worker[w].pc \notin Late
      /\ UNCHANGED <<undone, place, access>>
  BY Jobs DEF ReadRows, ReadForRevoke, At, Late, panel, history
<1>2. PICK j : /\ worker' = [worker EXCEPT ![w] = j]
               /\ j.rows = access /\ j.got = worker[w].got
               /\ j.pc # "saving away"
  <2>1. CASE ReadRows(w)
    <3> DEFINE pc == IF worker[w].st = "active" THEN "selecting" ELSE "mapping"
               j == [worker[w] EXCEPT !.rows = access, !.pc = pc]
    <3>1. j.rows = access /\ j.got = worker[w].got /\ j.pc = pc
      BY <1>1 DEF Job
    <3>2. worker' = [worker EXCEPT ![w] = j]
      BY <2>1 DEF ReadRows
    <3>3. pc # "saving away"
      OBVIOUS
    <3> HIDE DEF j, pc
    <3>4. QED
      BY <3>1, <3>2, <3>3
  <2>2. CASE ReadForRevoke(w)
    <3>1. PICK d \in worker[w].devs : worker' = [worker EXCEPT ![w] =
            [@ EXCEPT !.rows = access, !.pc = "cutting",
                      !.dev = d, !.devs = worker[w].devs \ {d}]]
      BY <2>2 DEF ReadForRevoke
    <3> DEFINE j == [worker[w] EXCEPT !.rows = access, !.pc = "cutting",
                                      !.dev = d, !.devs = worker[w].devs \ {d}]
    <3>2. j.rows = access /\ j.got = worker[w].got /\ j.pc = "cutting"
      BY <1>1 DEF Job
    <3>3. worker' = [worker EXCEPT ![w] = j]
      BY <3>1
    <3> HIDE DEF j
    <3>4. QED
      BY <3>2, <3>3
  <2>3. QED
    BY <2>1, <2>2
<1>3. Follows(w, j)
  BY <1>1, <1>2, Stock DEF Follows, Closing, Late
<1>4. QED
  BY <1>1, <1>2, <1>3, Stock, Passed DEF UInv

(* What is selected is the row's client or none.                           *)
LEMMA SelectTidy ==
  ASSUME IInv, UInv, NEW w \in Workers, Select(w)
  PROVE  UInv'
<1>1. /\ worker[w] \in Job /\ Working(w) /\ At(w, "selecting")
      /\ Part(w) \in Parts /\ Got(w) \in Material /\ ~ Got(w).fresh
      /\ <<Dev(w), Part(w)>> \in Keys
      /\ UNCHANGED <<undone, place, access>>
  BY Jobs DEF Select, At, panel, history, Fits, Got, Part, Keys
<1>2. PICK prof \in Profiles \cup {None} :
        worker' = [worker EXCEPT ![w] =
         [@ EXCEPT
            !.got[Part(w)] =
              [Got(w) EXCEPT
                 !.prof = prof,
                 !.login = IF Reusable(w, prof) THEN Read(w).login
                           ELSE None],
            !.pc = IF Reusable(w, prof) THEN "linking"
                   ELSE IF Replaced(w, prof) THEN "dropping"
                   ELSE "counting"]]
  BY DEF Select
<1> DEFINE m == [Got(w) EXCEPT !.prof = prof,
                   !.login = IF Reusable(w, prof) THEN Read(w).login ELSE None]
           pc == IF Reusable(w, prof) THEN "linking"
                 ELSE IF Replaced(w, prof) THEN "dropping" ELSE "counting"
           got == [worker[w].got EXCEPT ![Part(w)] = m]
           j == [worker[w] EXCEPT !.got = got, !.pc = pc]
<1>3. ~ m.fresh /\ Settled(m.login)
  BY <1>1, Stock DEF Material, Read
<1>4. pc # "saving away"
  OBVIOUS
<1>5. j.rows = worker[w].rows /\ j.got = got /\ j.pc = pc
  BY <1>1 DEF Job
<1>6. worker' = [worker EXCEPT ![w] = j]
  BY <1>2 DEF Got
<1> HIDE DEF m, pc, j
<1>7. got[Part(w)] = m /\ \A p \in Parts \ {Part(w)} : got[p] = worker[w].got[p]
  BY <1>1 DEF Job
<1> HIDE DEF got
<1>8. Follows(w, j)
  BY <1>1, <1>3, <1>4, <1>5, <1>7, Stock DEF Follows, Closing, At
<1>9. QED
  BY <1>1, <1>6, <1>8, Stock, Passed DEF UInv

(* Steps that only go on.                                                  *)
LEMMA GoTidy ==
  ASSUME IInv, UInv, NEW w \in Workers,
         \/ MapConfig(w) \/ Drop(w) \/ DropSkipped(w) \/ Uncount(w)
         \/ Count(w) \/ CreateRefused(w) \/ Link(w) \/ Ready(w)
         \/ Cut(w) \/ CutSkipped(w) \/ GiveBack(w)
  PROVE  UInv'
<1> USE DEF MapConfig, Drop, DropSkipped, Uncount, Count, CreateRefused, Link,
            Ready, Cut, CutSkipped, GiveBack
<1>1. /\ Working(w) /\ worker[w].pc \notin Late
      /\ UNCHANGED <<undone, place, access>>
  BY Jobs DEF At, Late, panel, history
<1>2. \E pc : Goto(w, pc) /\ (pc = "saving away" => Part(w) = "away")
  <2>1. ASSUME NEW pc \in Pc \ {"saving away"}, Goto(w, pc)
        PROVE  \E to : Goto(w, to) /\ (to = "saving away" => Part(w) = "away")
    BY <2>1
  <2>2. CASE Link(w)
    <3> DEFINE to == IF Part(w) = "away" THEN "saving away"
                     ELSE IF "away" \in Parts THEN "away" ELSE "readying"
    <3>1. Goto(w, to) /\ (to = "saving away" => Part(w) = "away")
      BY <2>2
    <3> HIDE DEF to
    <3>2. QED
      BY <3>1
  <2>3. CASE ~ Link(w)
    BY <2>1, <2>3 DEF Pc
  <2>4. QED
    BY <2>2, <2>3
<1>3. QED
  BY <1>1, <1>2, Going DEF UInv

(* The rows that are saved as they were read, with another status.         *)
LEMMA AsRead ==
  ASSUME IInv, UInv, NEW w \in Workers, Working(w), NEW part \in Parts, NEW r,
         r.login = Read(w).login, Save(w, part, r)
  PROVE  \A k \in Keys : Settled(access'[k].login)
<1>1. worker[w] \in Job
  BY DEF IInv, Sound, Working
<1>2. <<Dev(w), Part(w)>> \in Keys /\ <<Dev(w), part>> \in Keys
  BY <1>1 DEF Job, Dev, Part, Keys
<1>3. Settled(r.login)
  BY <1>2, Stock DEF Read
<1>4. QED
  BY <1>2, <1>3, Stock DEF Save, IInv, TypeOK

(* Saving a row of its device leaves the other rows' clients in order.     *)
LEMMA RowTidy ==
  ASSUME IInv, UInv, NEW w \in Workers,
         MapAccess(w) \/ FailAccess(w) \/ CloseAccess(w)
  PROVE  UInv'
<1>1. /\ Working(w) /\ Part(w) \in Parts /\ Read(w) \in Row
      /\ UNCHANGED <<undone, place>>
  BY Jobs DEF MapAccess, FailAccess, CloseAccess, At, panel, history
<1>2. ASSUME NEW status, NEW part \in Parts,
             Save(w, part, [Read(w) EXCEPT !.status = status])
      PROVE  \A k \in Keys : Settled(access'[k].login)
  BY <1>1, <1>2, AsRead DEF Row
<1>3. \A k \in Keys : Settled(access'[k].login)
  BY <1>1, <1>2, AccessAssumption DEF MapAccess, FailAccess, CloseAccess
<1>4. CASE MapAccess(w) \/ FailAccess(w)
  BY <1>1, <1>3, <1>4, Ending DEF MapAccess, FailAccess
<1>5. CASE CloseAccess(w)
  <2>1. \A p \in Parts : ~ Closing(worker[w], p)
    BY <1>5 DEF CloseAccess, At, Closing
  <2>2. QED
    BY <1>1, <1>3, <1>5, <2>1, Advanced DEF CloseAccess, UInv
<1>6. QED
  BY <1>4, <1>5

(* Where a client is granted it is let go of.                              *)
LEMMA GrantTidy ==
  ASSUME IInv, UInv, NEW w \in Workers, SaveAway(w) \/ Grant(w)
  PROVE  UInv'
<1>1. /\ Working(w) /\ worker[w] \in Job /\ Part(w) \in Parts
      /\ Dev(w) \in Devices /\ worker[w].pc \notin Late
      /\ UNCHANGED <<undone, place>>
  BY Jobs DEF SaveAway, Grant, At, Late, panel, history
<1>2. \A p \in Parts : ~ Closing(worker[w], p)
  BY <1>1 DEF Closing, Late
<1>3. \A k \in Keys : \/ Settled(access'[k].login)
                      \/ access'[k].login = Got(w).login
  <2>1. \A k \in Keys : access'[k] = access[k] \/ access'[k] = Granted(w)
    BY DEF SaveAway, Grant, Save, IInv, TypeOK
  <2>2. QED
    BY <2>1, Stock DEF Granted
<1>4. CASE SaveAway(w)
  <2>1. Part(w) = "away"
    BY <1>1, <1>4 DEF SaveAway, At, Part, UInv, Tidy
  <2>2. QED
    BY <1>1, <1>2, <1>3, <1>4, <2>1, PartEnding DEF SaveAway, Got
<1>5. CASE Grant(w)
  BY <1>1, <1>2, <1>3, <1>5, Ending DEF Grant
<1>6. QED
  BY <1>4, <1>5

(* Exceptions lead to the catch block of their part.                       *)
LEMMA CatchTidy ==
  ASSUME IInv, UInv, NEW w \in Workers,
         CountRefused(w) \/ Uncreate(w) \/ LinkFails(w) \/ Throw(w)
  PROVE  UInv'
<1>1. /\ Working(w) /\ Part(w) \in Parts /\ "normal" \in Parts
      /\ UNCHANGED <<undone, place, access>>
  BY Jobs, AccessAssumption
     DEF CountRefused, Uncreate, LinkFails, Throw, At, InTry, AfterTry,
         panel, history
<1>2. CASE CountRefused(w) \/ Uncreate(w) \/ LinkFails(w)
  BY <1>1, <1>2, Catching DEF CountRefused, Uncreate, LinkFails, At, Late
<1>3. CASE Throw(w) /\ worker[w].pc \in InTry /\ Catch(w, Part(w))
  BY <1>1, <1>3, Catching DEF InTry, Late
<1>4. CASE At(w, "returning") /\ Part(w) = "away" /\ Catch(w, "normal")
  BY <1>1, <1>4, Catching
<1>5. CASE Leave(w)
  BY <1>1, <1>5, Stock, Ending
<1>6. QED
  BY <1>2, <1>3, <1>4, <1>5 DEF Throw

(* A unit given back ends the part; a config that failed leads to its row. *)
LEMMA ReturnTidy ==
  ASSUME IInv, UInv, NEW w \in Workers, Return(w) \/ FailConfig(w)
  PROVE  UInv'
<1>1. /\ Working(w) /\ worker[w] \in Job /\ Part(w) \in Parts
      /\ UNCHANGED <<undone, place, access>>
  BY Jobs DEF Return, FailConfig, At, panel, history
<1>2. CASE Return(w)
  <2>1. \A p \in Parts \ {Part(w)} :
          Closing(worker[w], p) => p = "away" /\ Part(w) = "normal"
    BY DEF Closing, Part
  <2>2. QED
    BY <1>1, <1>2, <2>1, Stock, PartEnding DEF Return
<1>3. CASE FailConfig(w)
  <2> DEFINE j == [worker[w] EXCEPT !.pc = "failing access", !.part = Part(w)]
  <2>1. j.pc = "failing access" /\ j.part = worker[w].part
    BY <1>1 DEF Job, Part
  <2> HIDE DEF j
  <2>2. \A p \in Parts : Closing(worker[w], p) => Closing(j, p)
    BY <1>3, <2>1 DEF Closing, FailConfig, At
  <2>3. QED
    BY <1>1, <1>3, <2>2, GoingTurns, Advanced, Stock DEF FailConfig, j, UInv
<1>4. QED
  BY <1>2, <1>3

(* A revocation holds no client.                                           *)
LEMMA CloseTidy ==
  ASSUME IInv, UInv, NEW w \in Workers, CloseConfig(w) \/ MarkDeleted(w)
  PROVE  UInv'
<1>1. /\ Working(w) /\ worker[w] \in Job /\ worker[w].pc \notin Late
      /\ UNCHANGED <<undone, place, access>>
  BY Jobs DEF CloseConfig, MarkDeleted, At, Late, panel, history
<1>2. CASE Leave(w)
  BY <1>1, <1>2, Ending, Stock
<1>3. CASE Goto(w, "marking")
  BY <1>1, <1>3, Going DEF UInv
<1>4. ASSUME NEW d,
             worker' = [worker EXCEPT ![w] =
               [@ EXCEPT !.pc = "cutting", !.dev = d,
                         !.devs = worker[w].devs \ {d}]]
      PROVE  UInv'
  <2> DEFINE j == [worker[w] EXCEPT !.pc = "cutting", !.dev = d,
                                    !.devs = worker[w].devs \ {d}]
  <2>1. /\ j.rows = worker[w].rows /\ j.got = worker[w].got
        /\ j.pc = "cutting"
    BY <1>1 DEF Job
  <2>2. worker' = [worker EXCEPT ![w] = j]
    BY <1>4
  <2> HIDE DEF j
  <2>3. Follows(w, j)
    BY <1>1, <2>1, Stock DEF Follows, Closing, Late
  <2>4. QED
    BY <1>1, <2>2, <2>3, Stock, Passed DEF UInv
<1>5. QED
  BY <1>2, <1>3, <1>4 DEF CloseConfig, MarkDeleted

(* An away profile starts with no client.                                  *)
LEMMA AwayTidy ==
  ASSUME IInv, UInv, NEW w \in Workers, SelectAway(w)
  PROVE  UInv'
<1>1. /\ Working(w) /\ worker[w] \in Job /\ worker[w].pc = "away"
      /\ UNCHANGED <<undone, place, access>>
  BY Jobs DEF SelectAway, At, panel, history
<1>2. CASE Goto(w, "readying")
  BY <1>1, <1>2, Going DEF Late, UInv
<1>3. ASSUME NEW n \in AwayNodes,
             worker' = [worker EXCEPT ![w] =
               [@ EXCEPT !.pc = "selecting",
                         !.part = "away",
                         !.got["away"] = [NoMaterial EXCEPT !.node = n]]]
      PROVE  UInv'
  <2> DEFINE m == [NoMaterial EXCEPT !.node = n]
             got == [worker[w].got EXCEPT !["away"] = m]
             j == [worker[w] EXCEPT !.pc = "selecting", !.part = "away",
                                    !.got = got]
  <2>1. m.login = None /\ ~ m.fresh
    BY DEF NoMaterial
  <2>2. j.rows = worker[w].rows /\ j.got = got /\ j.pc = "selecting"
    BY <1>1 DEF Job
  <2>3. worker' = [worker EXCEPT ![w] = j]
    BY <1>3
  <2> HIDE DEF m
  <2>4. \A p \in Parts : got[p] = m \/ got[p] = worker[w].got[p]
    BY <1>1 DEF Job
  <2> HIDE DEF j, got
  <2>5. Follows(w, j)
    BY <1>1, <2>1, <2>2, <2>4, Stock DEF Follows, Closing
  <2>6. QED
    BY <1>1, <2>3, <2>5, Stock, Passed DEF UInv
<1>4. QED
  BY <1>2, <1>3 DEF SelectAway

(* A new client's login has been in no hand and no row.                    *)
LEMMA CreateTidy ==
  ASSUME IInv, UInv, NEW w \in Workers, Create(w) \/ CreateLost(w)
  PROVE  UInv'
<1>1. /\ Working(w) /\ worker[w] \in Job /\ worker[w].pc = "creating"
      /\ Part(w) \in Parts /\ Got(w) \in Material
      /\ UNCHANGED <<undone, access>>
  BY Jobs DEF Create, CreateLost, At, history
<1>2. PICK c \in Logins :
        /\ AddClient(w, c)
        /\ \/ worker' = [worker EXCEPT ![w] =
                  [@ EXCEPT !.pc = "linking",
                            !.got[Part(w)] = [Got(w) EXCEPT !.login = c,
                                                            !.fresh = TRUE]]]
           \/ Goto(w, "uncreating")
  BY DEF Create, CreateLost
<1>3. \A l \in undone : place'[l] # Nowhere
  <2>1. \A r : r.login \in Logins \cup {None} /\ Names(place, r)
               => Names(place', r)
    BY <1>1, <1>2, Added
  <2>2. place'[c] # Nowhere /\ \A l \in Logins \ {c} : place'[l] = place[l]
    BY <1>1, <1>2, Added DEF AddClient, IInv, TypeOK
  <2>3. QED
    BY <2>2 DEF UInv, IInv, TypeOK
<1>4. CASE Goto(w, "uncreating")
  BY <1>1, <1>3, <1>4, Going DEF Late
<1>5. CASE worker' = [worker EXCEPT ![w] =
             [@ EXCEPT !.pc = "linking",
                       !.got[Part(w)] = [Got(w) EXCEPT !.login = c,
                                                       !.fresh = TRUE]]]
  <2> DEFINE m == [Got(w) EXCEPT !.login = c, !.fresh = TRUE]
             got == [worker[w].got EXCEPT ![Part(w)] = m]
             j == [worker[w] EXCEPT !.pc = "linking", !.got = got]
  <2>1. m.login = c /\ m.fresh
    BY <1>1 DEF Material
  <2>2. /\ j.rows = worker[w].rows /\ j.got = got /\ j.pc = "linking"
    BY <1>1 DEF Job
  <2>3. worker' = [worker EXCEPT ![w] = j]
    BY <1>5 DEF Got
  <2> HIDE DEF m, j
  <2>4. /\ got[Part(w)] = m
        /\ \A p \in Parts \ {Part(w)} : got[p] = worker[w].got[p]
    BY <1>1 DEF Job
  <2> HIDE DEF got
  <2>5. worker'[w] = j /\ \A v \in Workers \ {w} : worker'[v] = worker[v]
    BY <2>3 DEF IInv
  <2>6. c \notin undone /\ place[c] = Nowhere /\ c # None
    BY <1>2, AccessAssumption DEF AddClient, UInv
  <2>7. \A k \in Keys : access[k].login # c
    BY <2>6 DEF IInv, Names
  <2>8. \A v \in Workers : Working(v) =>
          /\ \A k \in Keys : worker[v].rows[k].login # c
          /\ \A q \in Parts : worker[v].got[q].login # c
    BY <2>6 DEF IInv, Sound, Knows, Names, Working
  <2>9. \A v \in Workers : Working(v)' => Tidy(undone, worker'[v])
    <3>1. Tidy(undone, j)
      BY <1>1, <2>1, <2>2, <2>4, <2>6 DEF UInv, Tidy, Closing
    <3>2. QED
      BY <2>5, <3>1 DEF UInv, Working
  <2>10. ASSUME NEW v \in Workers, NEW p \in Parts,
                Working(v)', worker'[v].got[p].fresh
         PROVE  Private(v, p, worker[v].got[p].login)'
    <3>1. CASE v = w /\ p = Part(w)
      <4>1. worker'[v].got[p].login = c
        BY <2>1, <2>2, <2>4, <2>5, <3>1
      <4>2. \A u \in Workers : Working(u)' =>
              /\ \A k \in Keys : worker'[u].rows[k].login # c
              /\ \A q \in Parts :
                   <<u, q>> # <<v, p>> => worker'[u].got[q].login # c
        BY <1>1, <2>2, <2>4, <2>5, <2>8, <3>1 DEF Working
      <4>3. QED
        BY <1>1, <2>7, <4>1, <4>2 DEF Private
    <3>2. CASE v # w \/ p # Part(w)
      <4>1. /\ Working(v) /\ worker[v].got[p].fresh
            /\ worker'[v].got[p] = worker[v].got[p]
        BY <1>1, <2>2, <2>4, <2>5, <2>10, <3>2 DEF Working
      <4>2. Private(v, p, worker[v].got[p].login)
        BY <4>1 DEF UInv
      <4>3. worker[v].got[p].login # c
        BY <2>8, <4>1
      <4>4. \A u \in Workers : Working(u)' =>
              /\ \A k \in Keys : worker'[u].rows[k].login # worker[v].got[p].login
              /\ \A q \in Parts :
                   <<u, q>> # <<v, p>>
                   => worker'[u].got[q].login # worker[v].got[p].login
        BY <1>1, <2>1, <2>2, <2>4, <2>5, <4>2, <4>3 DEF Private, Working
      <4>5. QED
        BY <1>1, <4>1, <4>2, <4>4 DEF Private
    <3>3. QED
      BY <3>1, <3>2
  <2>11. QED
    BY <1>1, <1>3, <2>9, <2>10 DEF UInv
<1>6. QED
  BY <1>2, <1>4, <1>5

(* A client that is undone was in the hand of its handler only.            *)
LEMMA UndoTidy ==
  ASSUME IInv, UInv, NEW w \in Workers, Undo(w)
  PROVE  UInv'
<1> DEFINE c == Got(w).login
           j == [worker[w] EXCEPT !.pc = "returning"]
<1>1. /\ Working(w) /\ worker[w] \in Job /\ worker[w].pc = "undoing"
      /\ Part(w) \in Parts /\ Got(w).fresh /\ c # None
      /\ Names(place, Got(w)) /\ UNCHANGED <<place, access>>
  BY Jobs DEF Undo, At, panel, Fits, Got, Part
<1>2. /\ j.rows = worker[w].rows /\ j.got = worker[w].got
      /\ j.pc = "returning" /\ j.part = Part(w)
  BY <1>1 DEF Job, Part
<1>3. worker' = [worker EXCEPT ![w] = j] /\ undone' = undone \cup {c}
  BY DEF Undo, Goto
<1>4. Private(w, Part(w), c)
  BY <1>1 DEF UInv, Got
<1>5. place[c] # Nowhere
  BY <1>1 DEF Names
<1>6. worker[w].got[Part(w)].login = c /\ worker[w].got[Part(w)].fresh
  BY <1>1 DEF Got
<1> HIDE DEF c, j
<1>7. worker'[w] = j /\ \A v \in Workers \ {w} : worker'[v] = worker[v]
  BY <1>3 DEF IInv
<1>8. \A k \in Keys : access'[k].login \notin undone'
  BY <1>1, <1>3, <1>4 DEF UInv, Private
<1>9. \A v \in Workers : Working(v)' => Tidy(undone', worker'[v])
  <2>1. ASSUME NEW v \in Workers \ {w}, Working(v)
        PROVE  Tidy(undone', worker[v])
    BY <1>3, <1>4, <2>1 DEF UInv, Tidy, Private
  <2>2. Tidy(undone', j)
    <3>1. \A k \in Keys : j.rows[k].login \notin undone'
      <4>1. \A k \in Keys : worker[w].rows[k].login \notin undone
        BY <1>1 DEF UInv, Tidy
      <4>2. \A k \in Keys : worker[w].rows[k].login # c
        BY <1>1, <1>4 DEF Private
      <4>3. QED
        BY <1>2, <1>3, <4>1, <4>2
    <3>2. ASSUME NEW p \in Parts, j.got[p].login \in undone'
          PROVE  j.got[p].fresh /\ Closing(j, p)
      <4>1. CASE p = Part(w)
        BY <1>2, <1>6, <4>1 DEF Closing
      <4>2. CASE p # Part(w)
        <5>1. worker[w].got[p].login \in undone
          BY <1>1, <1>2, <1>3, <1>4, <3>2, <4>2 DEF Private
        <5>2. worker[w].got[p].fresh /\ Closing(worker[w], p)
          BY <1>1, <5>1 DEF UInv, Tidy
        <5>3. QED
          BY <1>1, <1>2, <5>2 DEF Closing, Part
      <4>3. QED
        BY <4>1, <4>2
    <3>3. QED
      BY <1>2, <3>1, <3>2 DEF Tidy
  <2>3. QED
    BY <1>7, <2>1, <2>2 DEF Working
<1>10. ASSUME NEW v \in Workers, NEW p \in Parts,
              Working(v)', worker'[v].got[p].fresh
       PROVE  Private(v, p, worker[v].got[p].login)'
  <2>1. \A u \in Workers :
          /\ Working(u)' => Working(u)
          /\ worker'[u].rows = worker[u].rows
          /\ worker'[u].got = worker[u].got
    BY <1>1, <1>2, <1>7 DEF Working
  <2>2. Private(v, p, worker[v].got[p].login)
    BY <1>10, <2>1 DEF UInv
  <2>3. QED
    BY <1>1, <2>1, <2>2 DEF Private
<1>11. QED
  BY <1>1, <1>3, <1>5, <1>8, <1>9, <1>10 DEF UInv

(* Every step keeps deleted clients out of the rows.                       *)
LEMMA NextTidy ==
  ASSUME IInv, UInv, [Next]_vars
  PROVE  UInv'
<1>1. ASSUME NEW w \in Workers, Begin(w) \/ Pay(w) \/ Revoke(w) \/ Throw(w)
      PROVE  UInv'
  BY <1>1, BeginTidy, PayTidy, ReadTidy, GoTidy, RowTidy, CloseTidy, CatchTidy
     DEF Revoke
<1>2. ASSUME NEW w \in Workers, Sync(w)
      PROVE  UInv'
  <2>1. CASE ReadRows(w) \/ Select(w) \/ SelectAway(w)
             \/ MapAccess(w) \/ FailAccess(w) \/ SaveAway(w) \/ Grant(w)
    BY <2>1, ReadTidy, SelectTidy, AwayTidy, RowTidy, GrantTidy
  <2>2. CASE \/ MapConfig(w) \/ Drop(w) \/ DropSkipped(w) \/ Uncount(w)
             \/ Count(w) \/ CreateRefused(w) \/ Link(w) \/ Ready(w)
    BY <2>2, GoTidy
  <2>3. CASE \/ CountRefused(w) \/ Uncreate(w) \/ LinkFails(w)
             \/ Create(w) \/ CreateLost(w)
    BY <2>3, CatchTidy, CreateTidy
  <2>4. CASE Undo(w) \/ Return(w) \/ FailConfig(w)
    BY <2>4, UndoTidy, ReturnTidy
  <2>5. QED
    BY <1>2, <2>1, <2>2, <2>3, <2>4 DEF Sync
<1>3. CASE Crash
  BY <1>3 DEF Crash, UInv, Working, panel
<1>4. CASE UNCHANGED vars
  BY <1>4 DEF vars, panel, history, UInv, Tidy, Private, Working
<1>5. QED
  BY <1>1, <1>2, <1>3, <1>4 DEF Next

(* A client that a failed activation or refresh has deleted again is in no *)
(* access row: whatever other handlers of the device read, reuse, save and *)
(* fail meanwhile (syncDeviceSnapshot and buildAwayProfile against their   *)
(* catch blocks).                                                          *)
THEOREM UndoneClientsNotGranted == Spec => []UndoneIsNotGranted
<1>1. Init => UInv
  BY InitUInv
<1>2. IInv /\ UInv /\ [Next]_vars => UInv'
  BY NextTidy
<1>3. UInv => UndoneIsNotGranted
  BY DEF UInv, UndoneIsNotGranted
<1>4. QED
  BY <1>1, <1>2, <1>3, Invariance, PTL DEF Spec

On(n) == {c \in live : place[c].node = n}
Owing(n) == {w \in Workers : Owes(w, n)}
Unit(b) == IF b THEN 1 ELSE 0

LInv == IsFiniteSet(live) /\ NoUnitLeaks

(* What a handler's job says of the units it owes.                         *)
OwesAt(j, n) ==
  \/ j.pc \in {"uncounting", "giving"} /\ j.rows[<<j.dev, j.part>>].node = n
  \/ j.pc \in {"creating", "uncreating", "returning"}
     /\ j.got[j.part].node = n

(* The clients of a node and the handlers that owe it are finitely many.   *)
LEMMA Finitely ==
  ASSUME IsFiniteSet(live), NEW n
  PROVE  /\ IsFiniteSet(On(n)) /\ Cardinality(On(n)) \in Nat
         /\ IsFiniteSet(Owing(n)) /\ Cardinality(Owing(n)) \in Nat
<1>1. On(n) \subseteq live /\ Owing(n) \subseteq Workers
  BY DEF On, Owing
<1>2. QED
  BY <1>1, FS_Subset, FS_CardinalityType, AccessAssumption

(* Sets that differ in one element at most.                                *)
LEMMA OneApart ==
  ASSUME NEW A, NEW B, IsFiniteSet(A), IsFiniteSet(B), NEW x,
         A \ {x} = B \ {x}
  PROVE  Cardinality(B) = Cardinality(A) - Unit(x \in A) + Unit(x \in B)
<1>1. /\ Cardinality(A \ {x}) = IF x \in A THEN Cardinality(A) - 1
                                ELSE Cardinality(A)
      /\ Cardinality(B \ {x}) = IF x \in B THEN Cardinality(B) - 1
                                ELSE Cardinality(B)
  BY FS_RemoveElement
<1>2. Cardinality(A) \in Nat /\ Cardinality(B) \in Nat
  BY FS_CardinalityType
<1>3. Cardinality(A \ {x}) = Cardinality(A) - Unit(x \in A)
  BY <1>1, <1>2 DEF Unit
<1>4. Cardinality(B \ {x}) = Cardinality(B) - Unit(x \in B)
  BY <1>1, <1>2 DEF Unit
<1>5. Cardinality(A \ {x}) = Cardinality(B \ {x})
  OBVIOUS
<1>6. Unit(x \in A) \in {0, 1} /\ Unit(x \in B) \in {0, 1}
  BY DEF Unit
<1>7. QED
  BY <1>2, <1>3, <1>4, <1>5, <1>6

(* A step of w changes what w owes only.                                   *)
LEMMA OwesApart ==
  ASSUME IInv, NEW w \in Workers, NEW j, worker' = [worker EXCEPT ![w] = j],
         NEW n
  PROVE  Cardinality(Owing(n)')
         = Cardinality(Owing(n)) - Unit(Owes(w, n)) + Unit(j # Idle /\ OwesAt(j, n))
<1>1. worker'[w] = j /\ \A v \in Workers \ {w} : worker'[v] = worker[v]
  BY DEF IInv
<1>2. \A v \in Workers \ {w} : Owes(v, n)' <=> Owes(v, n)
  BY <1>1 DEF Owes, Working, Read, Got, Dev, Part
<1>3. Owes(w, n)' <=> j # Idle /\ OwesAt(j, n)
  BY <1>1 DEF Owes, OwesAt, Working, Read, Got, Dev, Part
<1>4. Owing(n) \subseteq Workers /\ Owing(n)' \subseteq Workers
  BY DEF Owing
<1>5. IsFiniteSet(Owing(n)) /\ IsFiniteSet(Owing(n)')
  BY <1>4, FS_Subset, AccessAssumption
<1>6. Owing(n) \ {w} = Owing(n)' \ {w}
  BY <1>2 DEF Owing
<1>7. Cardinality(Owing(n)')
      = Cardinality(Owing(n)) - Unit(w \in Owing(n)) + Unit(w \in Owing(n)')
  BY <1>5, <1>6, OneApart
<1>8. (w \in Owing(n) <=> Owes(w, n))
      /\ (w \in Owing(n)' <=> j # Idle /\ OwesAt(j, n))
  BY <1>3 DEF Owing
<1>9. QED
  BY <1>7, <1>8 DEF Unit

(* A node's load grows by no more than its clients, what w owes it and     *)
(* what is lost.                                                           *)
LEMMA Balanced ==
  ASSUME IInv, IInv', LInv, IsFiniteSet(live'),
         NEW w \in Workers, NEW j, worker' = [worker EXCEPT ![w] = j],
         \A n \in Nodes :
           \/ load'[n] = 0
           \/ load'[n] <= load[n] + Cardinality(On(n)') - Cardinality(On(n))
                          + Unit(j # Idle /\ OwesAt(j, n)) - Unit(Owes(w, n))
                          + leaked'[n] - leaked[n]
  PROVE  LInv'
<1>1. SUFFICES ASSUME NEW n \in Nodes
               PROVE  load'[n] <= Cardinality(On(n)') + Cardinality(Owing(n)')
                                  + leaked'[n]
  BY DEF LInv, NoUnitLeaks, On, Owing
<1>2. /\ load[n] \in Nat /\ load'[n] \in Nat
      /\ leaked[n] \in Nat /\ leaked'[n] \in Nat
  BY DEF IInv, TypeOK
<1>3. Cardinality(On(n)) \in Nat /\ Cardinality(Owing(n)) \in Nat
  BY Finitely DEF LInv
<1>4. Cardinality(On(n)') \in Nat /\ Cardinality(Owing(n)') \in Nat
  <2>1. On(n)' \subseteq live' /\ Owing(n)' \subseteq Workers
    BY DEF On, Owing
  <2>2. QED
    BY <2>1, FS_Subset, FS_CardinalityType, AccessAssumption
<1>5. load[n] <= Cardinality(On(n)) + Cardinality(Owing(n)) + leaked[n]
  BY DEF LInv, NoUnitLeaks, On, Owing
<1>6. Cardinality(Owing(n)')
      = Cardinality(Owing(n)) - Unit(Owes(w, n)) + Unit(j # Idle /\ OwesAt(j, n))
  BY OwesApart
<1>7. Unit(Owes(w, n)) \in {0, 1} /\ Unit(j # Idle /\ OwesAt(j, n)) \in {0, 1}
  BY DEF Unit
<1>8. \/ load'[n] = 0
      \/ load'[n] <= load[n] + Cardinality(On(n)') - Cardinality(On(n))
                     + Unit(j # Idle /\ OwesAt(j, n)) - Unit(Owes(w, n))
                     + leaked'[n] - leaked[n]
  OBVIOUS
<1> HIDE DEF On, Owing, Unit, OwesAt, Owes
<1>9. QED
  BY <1>2, <1>3, <1>4, <1>5, <1>6, <1>7, <1>8

(* The steps at which a handler owes a unit.                               *)
Owed == {"uncounting", "giving", "creating", "uncreating", "returning"}

(* A handler that owes nothing before and after a step that touches no     *)
(* client, load or loss.                                                   *)
LEMMA Even ==
  ASSUME IInv, IInv', LInv, NEW w \in Workers, NEW j,
         worker' = [worker EXCEPT ![w] = j],
         worker[w].pc \notin Owed, j = Idle \/ j.pc \notin Owed,
         UNCHANGED <<place, live, load, leaked>>
  PROVE  LInv'
<1>1. \A n \in Nodes : ~ Owes(w, n) /\ ~ (j # Idle /\ OwesAt(j, n))
  BY DEF Owes, OwesAt, Owed
<1>2. \A n \in Nodes : On(n)' = On(n)
  BY DEF On
<1>3. \A n \in Nodes : /\ load[n] \in Nat /\ leaked[n] \in Nat
                       /\ Cardinality(On(n)) \in Nat
  BY Finitely DEF IInv, TypeOK, LInv
<1> HIDE DEF On, OwesAt, Owes
<1>4. \A n \in Nodes :
        load'[n] <= load[n] + Cardinality(On(n)') - Cardinality(On(n))
                    + Unit(j # Idle /\ OwesAt(j, n)) - Unit(Owes(w, n))
                    + leaked'[n] - leaked[n]
  BY <1>1, <1>2, <1>3 DEF Unit
<1>5. QED
  BY <1>4, Balanced DEF LInv

(* w is left owing nothing.                                                *)
Square(w) ==
  \E j : /\ worker' = [worker EXCEPT ![w] = j]
         /\ j = Idle \/ j.pc \notin Owed

(* A handler that goes on to a step at which it owes nothing.              *)
LEMMA GoingSquare ==
  ASSUME IInv, NEW w \in Workers, Working(w),
         NEW pc \in Pc \ Owed, NEW part, Goto(w, pc) \/ Turn(w, part, pc)
  PROVE  Square(w)
<1>1. worker[w] \in Job
  BY DEF IInv, Sound, Working
<1>2. CASE Goto(w, pc)
  <2> DEFINE j == [worker[w] EXCEPT !.pc = pc]
  <2>1. j.pc = pc /\ worker' = [worker EXCEPT ![w] = j]
    BY <1>1, <1>2 DEF Job, Goto
  <2> HIDE DEF j
  <2>2. QED
    BY <2>1 DEF Square
<1>3. CASE Turn(w, part, pc)
  <2> DEFINE j == [worker[w] EXCEPT !.pc = pc, !.part = part]
  <2>1. j.pc = pc /\ worker' = [worker EXCEPT ![w] = j]
    BY <1>1, <1>3 DEF Job, Turn
  <2> HIDE DEF j
  <2>2. QED
    BY <2>1 DEF Square
<1>4. QED
  BY <1>2, <1>3

(* One that leaves.                                                        *)
LEMMA LeavingSquare ==
  ASSUME NEW w, Leave(w)
  PROVE  Square(w)
BY DEF Leave, Square

(* One whose part ends.                                                    *)
LEMMA PartSquare ==
  ASSUME IInv, NEW w \in Workers, Working(w), NEW part, EndPart(w, part)
  PROVE  Square(w)
<1> DEFINE pc == IF part = "away" THEN "readying" ELSE "failing"
           j == [worker[w] EXCEPT !.pc = pc, !.part = "normal",
                                  !.got[part] = NoMaterial]
<1>1. j.pc = pc /\ worker' = [worker EXCEPT ![w] = j]
  BY DEF EndPart, IInv, Sound, Working, Job
<1>2. pc \notin Owed
  BY DEF Owed
<1> HIDE DEF j, pc
<1>3. QED
  BY <1>1, <1>2 DEF Square

(* One that catches an exception.                                          *)
LEMMA CatchSquare ==
  ASSUME IInv, NEW w \in Workers, Working(w), NEW part, Catch(w, part)
  PROVE  Square(w)
<1>1. "undoing" \in Pc \ Owed
  BY DEF Pc, Owed
<1>2. QED
  BY <1>1, GoingSquare, PartSquare DEF Catch

(* Steps that owe nothing before and after.                                *)
LEMMA EvenSteps ==
  ASSUME IInv, IInv', LInv, NEW w \in Workers, Square(w),
         worker[w].pc \notin Owed, UNCHANGED <<place, live, load, leaked>>
  PROVE  LInv'
BY Even DEF Square

(* A handler that starts owes nothing yet.                                 *)
LEMMA BeginEven ==
  ASSUME IInv, IInv', LInv, NEW w \in Workers, Begin(w)
  PROVE  LInv'
<1>1. /\ ~ Working(w) /\ worker[w].pc \notin Owed
      /\ UNCHANGED <<place, live, load, leaked>>
  <2>1. ~ Working(w) /\ UNCHANGED <<place, live, load, leaked>>
    BY DEF Begin, StartSync, StartRevoke, StartSuspend, StartDelete, StartPay,
           Start, panel, history
  <2>2. worker[w].pc = "idle"
    BY <2>1 DEF Working, Idle
  <2>3. QED
    BY <2>1, <2>2 DEF Owed
<1>2. ASSUME NEW pc \in {"reading", "revoking", "paying"}, NEW kind, NEW devs,
             NEW d, Start(w, Run(pc, kind, devs, d))
      PROVE  Square(w)
  <2> DEFINE j == Run(pc, kind, devs, d)
  <2>1. worker' = [worker EXCEPT ![w] = j] /\ j.pc = pc
    BY <1>2 DEF Start, Run
  <2> HIDE DEF j
  <2>2. QED
    BY <2>1 DEF Owed, Square
<1>3. Square(w)
  BY <1>2 DEF Begin, StartSync, StartRevoke, StartSuspend, StartDelete, StartPay
<1>4. QED
  BY <1>1, <1>3, EvenSteps

(* Steps that neither move load nor create or delete a client.             *)
LEMMA GoEven ==
  ASSUME IInv, IInv', LInv, NEW w \in Workers,
         \/ Pay(w) \/ MapConfig(w) \/ MapAccess(w) \/ DropSkipped(w)
         \/ CountRefused(w) \/ Link(w) \/ LinkFails(w) \/ SaveAway(w)
         \/ Ready(w) \/ Grant(w) \/ FailConfig(w) \/ FailAccess(w)
         \/ CutSkipped(w) \/ CloseAccess(w) \/ MarkDeleted(w)
  PROVE  LInv'
<1> USE DEF Pay, Activate, PayFails, PayEnds, MapConfig, MapAccess, DropSkipped,
            CountRefused, Link, LinkFails, SaveAway, Ready, Grant, FailConfig,
            FailAccess, CutSkipped, CloseAccess, MarkDeleted
<1>1. /\ Working(w) /\ worker[w].pc \notin Owed
      /\ UNCHANGED <<place, live, load, leaked>>
  BY Jobs DEF At, Owed, panel, history
<1>2. ASSUME NEW pc \in Pc \ Owed, NEW part,
             Goto(w, pc) \/ Turn(w, part, pc)
      PROVE  Square(w)
  BY <1>1, <1>2, GoingSquare
<1>3. ASSUME NEW part,
             Catch(w, part) \/ EndPart(w, part) \/ Leave(w)
      PROVE  Square(w)
  BY <1>1, <1>3, CatchSquare, PartSquare, LeavingSquare
<1>4. Square(w)
  <2>1. CASE Link(w)
    <3> DEFINE to == IF Part(w) = "away" THEN "saving away"
                     ELSE IF "away" \in Parts THEN "away" ELSE "readying"
    <3>1. Goto(w, to)
      BY <2>1
    <3>2. to \in Pc \ Owed
      BY DEF Pc, Owed
    <3> HIDE DEF to
    <3>3. QED
      BY <1>2, <3>1, <3>2
  <2>2. CASE CloseAccess(w)
    BY <1>2, <2>2 DEF Pc, Owed
  <2>3. CASE ~ Link(w) /\ ~ CloseAccess(w)
    BY <1>2, <1>3, <2>3 DEF Pc, Owed
  <2>4. QED
    BY <2>1, <2>2, <2>3
<1>5. QED
  BY <1>1, <1>4, EvenSteps

(* Reading rows and choosing a profile or device.                          *)
LEMMA ReadEven ==
  ASSUME IInv, IInv', LInv, NEW w \in Workers,
         ReadRows(w) \/ ReadForRevoke(w) \/ Select(w) \/ SelectAway(w)
         \/ CloseConfig(w)
  PROVE  LInv'
<1>1. /\ Working(w) /\ worker[w] \in Job /\ worker[w].pc \notin Owed
      /\ UNCHANGED <<place, live, load, leaked>>
  BY Jobs DEF ReadRows, ReadForRevoke, Select, SelectAway, CloseConfig,
              At, Owed, panel, history
<1>2. CASE ReadRows(w)
  <2> DEFINE pc == IF worker[w].st = "active" THEN "selecting" ELSE "mapping"
             j == [worker[w] EXCEPT !.rows = access, !.pc = pc]
  <2>1. j.pc = pc /\ worker' = [worker EXCEPT ![w] = j] /\ pc \notin Owed
    BY <1>1, <1>2 DEF Job, ReadRows, Owed
  <2> HIDE DEF j, pc
  <2>2. QED
    BY <1>1, <2>1, Even
<1>3. ASSUME NEW rows, NEW d,
             worker' = [worker EXCEPT ![w] =
               [@ EXCEPT !.rows = rows, !.pc = "cutting",
                         !.dev = d, !.devs = worker[w].devs \ {d}]]
      PROVE  LInv'
  <2> DEFINE j == [worker[w] EXCEPT !.rows = rows, !.pc = "cutting",
                                    !.dev = d, !.devs = worker[w].devs \ {d}]
  <2>1. /\ j.pc = "cutting" /\ worker' = [worker EXCEPT ![w] = j]
        /\ "cutting" \notin Owed
    BY <1>1, <1>3 DEF Job, Owed
  <2> HIDE DEF j
  <2>2. QED
    BY <1>1, <2>1, Even
<1>4. CASE Select(w)
  <2>1. PICK prof \in Profiles \cup {None} :
          worker' = [worker EXCEPT ![w] =
           [@ EXCEPT
              !.got[Part(w)] =
                [Got(w) EXCEPT
                   !.prof = prof,
                   !.login = IF Reusable(w, prof) THEN Read(w).login
                             ELSE None],
              !.pc = IF Reusable(w, prof) THEN "linking"
                     ELSE IF Replaced(w, prof) THEN "dropping"
                     ELSE "counting"]]
    BY <1>4 DEF Select
  <2> DEFINE m == [Got(w) EXCEPT !.prof = prof,
                     !.login = IF Reusable(w, prof) THEN Read(w).login
                               ELSE None]
             pc == IF Reusable(w, prof) THEN "linking"
                   ELSE IF Replaced(w, prof) THEN "dropping" ELSE "counting"
             j == [worker[w] EXCEPT !.got[Part(w)] = m, !.pc = pc]
  <2>2. j.pc = pc /\ worker' = [worker EXCEPT ![w] = j] /\ pc \notin Owed
    BY <1>1, <2>1 DEF Job, Owed
  <2> HIDE DEF j, pc
  <2>3. QED
    BY <1>1, <2>2, Even
<1>5. CASE SelectAway(w)
  <2>1. CASE Goto(w, "readying")
    BY <1>1, <2>1, GoingSquare, EvenSteps DEF Pc, Owed
  <2>2. ASSUME NEW m, worker' = [worker EXCEPT ![w] =
                 [@ EXCEPT !.pc = "selecting", !.part = "away",
                           !.got["away"] = m]]
        PROVE  LInv'
    <3> DEFINE j == [worker[w] EXCEPT !.pc = "selecting", !.part = "away",
                                      !.got["away"] = m]
    <3>1. /\ j.pc = "selecting" /\ worker' = [worker EXCEPT ![w] = j]
          /\ "selecting" \notin Owed
      BY <1>1, <2>2 DEF Job, Owed
    <3> HIDE DEF j
    <3>2. QED
      BY <1>1, <3>1, Even
  <2>3. QED
    BY <1>5, <2>1, <2>2 DEF SelectAway
<1>6. CASE CloseConfig(w)
  <2>1. CASE Goto(w, "marking") \/ Leave(w)
    BY <1>1, <2>1, GoingSquare, LeavingSquare, EvenSteps DEF Pc, Owed
  <2>2. ASSUME NEW d, worker' = [worker EXCEPT ![w] =
                 [@ EXCEPT !.pc = "cutting", !.dev = d,
                           !.devs = worker[w].devs \ {d}]]
        PROVE  LInv'
    <3> DEFINE j == [worker[w] EXCEPT !.pc = "cutting", !.dev = d,
                                      !.devs = worker[w].devs \ {d}]
    <3>1. /\ j.pc = "cutting" /\ worker' = [worker EXCEPT ![w] = j]
          /\ "cutting" \notin Owed
      BY <1>1, <2>2 DEF Job, Owed
    <3> HIDE DEF j
    <3>2. QED
      BY <1>1, <3>1, Even
  <2>3. QED
    BY <1>6, <2>1, <2>2 DEF CloseConfig
<1>7. QED
  BY <1>2, <1>3, <1>4, <1>5, <1>6 DEF ReadForRevoke

(* Quiet deletion takes one client at most, of the node it is sent to.     *)
LEMMA DeletesOne ==
  ASSUME IsFiniteSet(live), NEW m, NEW i, NEW c, DeleteQuietly(m, i, c),
         place' = place
  PROVE  /\ IsFiniteSet(live')
         /\ \A n : /\ Cardinality(On(n)) \in Nat /\ Cardinality(On(n)') \in Nat
                   /\ Cardinality(On(n)') >= Cardinality(On(n)) - Unit(n = m)
<1>1. live' \subseteq live
  BY DeletedQuietly
<1>2. IsFiniteSet(live')
  BY <1>1, FS_Subset
<1>3. ASSUME NEW n
      PROVE  /\ Cardinality(On(n)) \in Nat /\ Cardinality(On(n)') \in Nat
             /\ Cardinality(On(n)') >= Cardinality(On(n)) - Unit(n = m)
  <2>1. IsFiniteSet(On(n)) /\ Cardinality(On(n)) \in Nat
    BY Finitely
  <2>2. On(n)' \subseteq live'
    BY DEF On
  <2>3. IsFiniteSet(On(n)') /\ Cardinality(On(n)') \in Nat
    BY <1>2, <2>2, FS_Subset, FS_CardinalityType
  <2>4. \A l : l # c => (l \in live' <=> l \in live)
    BY DEF DeleteQuietly
  <2>5. On(n) \ {c} = On(n)' \ {c}
    BY <2>4 DEF On
  <2>6. Cardinality(On(n)')
        = Cardinality(On(n)) - Unit(c \in On(n)) + Unit(c \in On(n)')
    BY <2>1, <2>3, <2>5, OneApart
  <2>7. c \in On(n) /\ c \notin On(n)' => n = m
    BY DEF On, DeleteQuietly
  <2>8. Unit(c \in On(n)) - Unit(c \in On(n)') <= Unit(n = m)
    BY <2>7 DEF Unit
  <2>9. /\ Unit(c \in On(n)) \in {0, 1} /\ Unit(c \in On(n)') \in {0, 1}
        /\ Unit(n = m) \in {0, 1}
    BY DEF Unit
  <2> HIDE DEF On, Unit
  <2>10. QED
    BY <2>1, <2>3, <2>6, <2>8, <2>9
<1>4. QED
  BY <1>2, <1>3

(* A handler that goes on holds and has read what it did.                  *)
LEMMA GoneOwing ==
  ASSUME IInv, NEW w \in Workers, Working(w), NEW pc, pc # "idle", Goto(w, pc)
  PROVE  \E j : /\ worker' = [worker EXCEPT ![w] = j] /\ j # Idle /\ j.pc = pc
                /\ \A n : OwesAt(j, n) <=>
                     \/ pc \in {"uncounting", "giving"} /\ Read(w).node = n
                     \/ pc \in {"creating", "uncreating", "returning"}
                        /\ Got(w).node = n
<1> DEFINE j == [worker[w] EXCEPT !.pc = pc]
<1>1. worker[w] \in Job
  BY DEF IInv, Sound, Working
<1>2. /\ j.pc = pc /\ j.rows = worker[w].rows /\ j.got = worker[w].got
      /\ j.dev = worker[w].dev /\ j.part = worker[w].part
  BY <1>1 DEF Job
<1>3. worker' = [worker EXCEPT ![w] = j]
  BY DEF Goto
<1> HIDE DEF j
<1>4. j # Idle
  BY <1>2 DEF Idle
<1>5. \A n : OwesAt(j, n) <=>
                     \/ pc \in {"uncounting", "giving"} /\ Read(w).node = n
                     \/ pc \in {"creating", "uncreating", "returning"}
                        /\ Got(w).node = n
  BY <1>2 DEF OwesAt, Read, Got, Dev, Part
<1>6. QED
  BY <1>2, <1>3, <1>4, <1>5

(* The client goes, its unit is owed.                                      *)
LEMMA DeleteBalanced ==
  ASSUME IInv, IInv', LInv, NEW w \in Workers, Drop(w) \/ Cut(w) \/ Undo(w)
  PROVE  LInv'
<1>1. Working(w) /\ worker[w].pc \notin Owed
      /\ UNCHANGED <<place, load, leaked>>
  BY Jobs DEF Drop, Cut, Undo, At, Owed, history
<1>2. \E m, i, c, pc :
         /\ DeleteQuietly(m, i, c)
         /\ Goto(w, pc)
         /\ \/ pc \in {"uncounting", "giving"} /\ m = Read(w).node
            \/ pc = "returning" /\ m = Got(w).node
  BY DEF Drop, Cut, Undo
<1>3. PICK m, i, c, pc :
         /\ DeleteQuietly(m, i, c)
         /\ Goto(w, pc)
         /\ \/ pc \in {"uncounting", "giving"} /\ m = Read(w).node
            \/ pc = "returning" /\ m = Got(w).node
  BY <1>2
<1>4. PICK j : /\ worker' = [worker EXCEPT ![w] = j] /\ j # Idle /\ j.pc = pc
               /\ \A n : OwesAt(j, n) <=> n = m
  BY <1>1, <1>3, GoneOwing
<1>5. \A n : ~ Owes(w, n)
  BY <1>1 DEF Owes, Owed
<1>6. /\ IsFiniteSet(live')
      /\ \A n : /\ Cardinality(On(n)) \in Nat /\ Cardinality(On(n)') \in Nat
                /\ Cardinality(On(n)') >= Cardinality(On(n)) - Unit(n = m)
  BY <1>1, <1>3, DeletesOne DEF LInv
<1>7. ASSUME NEW n \in Nodes
      PROVE  load'[n] <= load[n] + Cardinality(On(n)') - Cardinality(On(n))
                         + Unit(j # Idle /\ OwesAt(j, n)) - Unit(Owes(w, n))
                         + leaked'[n] - leaked[n]
  <2>1. Unit(j # Idle /\ OwesAt(j, n)) = Unit(n = m) /\ Unit(Owes(w, n)) = 0
    BY <1>4, <1>5 DEF Unit
  <2>2. load'[n] = load[n] /\ load[n] \in Nat
        /\ leaked'[n] = leaked[n] /\ leaked[n] \in Nat
    BY <1>1 DEF IInv, TypeOK
  <2>3. Unit(n = m) \in {0, 1}
    BY DEF Unit
  <2>4. /\ Cardinality(On(n)) \in Nat /\ Cardinality(On(n)') \in Nat
        /\ Cardinality(On(n)') >= Cardinality(On(n)) - Unit(n = m)
    BY <1>6
  <2> HIDE DEF On
  <2>5. QED
    BY <2>1, <2>2, <2>3, <2>4
<1>8. QED
  BY <1>4, <1>6, <1>7, Balanced

(* A unit is taken off a node's load, if it has one.                       *)
LEMMA TakesOne ==
  ASSUME IInv, NEW m, Decrement(m)
  PROVE  \A n \in Nodes : load'[n] = 0 \/ load'[n] <= load[n] - Unit(n = m)
BY DEF Decrement, Unit, IInv, TypeOK

(* A unit that is owed is given back.                                      *)
LEMMA GivenBack ==
  ASSUME IInv, IInv', LInv, NEW w \in Workers, Square(w), NEW m,
         \A n : Owes(w, n) <=> n = m, Decrement(m),
         UNCHANGED <<place, live, leaked>>
  PROVE  LInv'
<1>1. PICK j : /\ worker' = [worker EXCEPT ![w] = j]
               /\ j = Idle \/ j.pc \notin Owed
  BY DEF Square
<1>2. \A n : ~ (j # Idle /\ OwesAt(j, n))
  BY <1>1 DEF OwesAt, Owed
<1>3. \A n : On(n)' = On(n)
  BY DEF On
<1>4. ASSUME NEW n \in Nodes
      PROVE  \/ load'[n] = 0
             \/ load'[n] <= load[n] + Cardinality(On(n)') - Cardinality(On(n))
                         + Unit(j # Idle /\ OwesAt(j, n)) - Unit(Owes(w, n))
                         + leaked'[n] - leaked[n]
  <2>1. Unit(j # Idle /\ OwesAt(j, n)) = 0 /\ Unit(Owes(w, n)) = Unit(n = m)
    BY <1>2 DEF Unit
  <2>2. load'[n] = 0 \/ load'[n] <= load[n] - Unit(n = m)
    BY TakesOne
  <2>3. load[n] \in Nat /\ load'[n] \in Nat
        /\ leaked'[n] = leaked[n] /\ leaked[n] \in Nat
    BY DEF IInv, TypeOK
  <2>4. Cardinality(On(n)') = Cardinality(On(n)) /\ Cardinality(On(n)) \in Nat
    BY <1>3, Finitely DEF LInv
  <2>5. Unit(n = m) \in {0, 1}
    BY DEF Unit
  <2> HIDE DEF On
  <2>6. QED
    BY <2>1, <2>2, <2>3, <2>4, <2>5
<1>5. IsFiniteSet(live')
  BY DEF LInv
<1>6. QED
  BY <1>1, <1>4, <1>5, Balanced

(* A unit that is given back is owed no more.                              *)
LEMMA GiveBalanced ==
  ASSUME IInv, IInv', LInv, NEW w \in Workers,
         Uncount(w) \/ GiveBack(w) \/ Uncreate(w) \/ Return(w)
  PROVE  LInv'
<1>1. /\ Working(w) /\ Part(w) \in Parts
      /\ UNCHANGED <<place, live, leaked>>
  BY Jobs DEF Uncount, GiveBack, Uncreate, Return, At, panel, history
<1>2. CASE Uncount(w) \/ GiveBack(w)
  <2>1. Square(w)
    BY <1>1, <1>2, GoingSquare DEF Uncount, GiveBack, Pc, Owed
  <2>2. \A n : Owes(w, n) <=> n = Read(w).node
    BY <1>1, <1>2 DEF Uncount, GiveBack, At, Owes
  <2>3. Decrement(Read(w).node)
    BY <1>2 DEF Uncount, GiveBack
  <2>4. QED
    BY <1>1, <2>1, <2>2, <2>3, GivenBack
<1>3. CASE Uncreate(w) \/ Return(w)
  <2>1. Square(w)
    BY <1>1, <1>3, CatchSquare, PartSquare DEF Uncreate, Return
  <2>2. \A n : Owes(w, n) <=> n = Got(w).node
    BY <1>1, <1>3 DEF Uncreate, Return, At, Owes
  <2>3. Decrement(Got(w).node)
    BY <1>3 DEF Uncreate, Return
  <2>4. QED
    BY <1>1, <2>1, <2>2, <2>3, GivenBack
<1>4. QED
  BY <1>2, <1>3

(* A unit is counted and owed; a refusal leaves it owed.                   *)
LEMMA CountBalanced ==
  ASSUME IInv, IInv', LInv, NEW w \in Workers, Count(w) \/ CreateRefused(w)
  PROVE  LInv'
<1>1. Working(w) /\ UNCHANGED <<place, live, leaked>>
  BY Jobs DEF Count, CreateRefused, At, panel, history
<1>2. PICK pc \in {"creating", "uncreating"} : Goto(w, pc)
  BY DEF Count, CreateRefused
<1>3. PICK j : /\ worker' = [worker EXCEPT ![w] = j] /\ j # Idle /\ j.pc = pc
               /\ \A n : OwesAt(j, n) <=> n = Got(w).node
  BY <1>1, <1>2, GoneOwing
<1>4. ASSUME NEW n \in Nodes
      PROVE  load'[n] <= load[n] + Unit(n = Got(w).node) - Unit(Owes(w, n))
  <2>1. load[n] \in Nat
    BY DEF IInv, TypeOK
  <2>2. CASE Count(w)
    <3>1. ~ Owes(w, n)
      BY <2>2 DEF Count, At, Owes
    <3>2. load'[n] = IF n = Got(w).node THEN load[n] + 1 ELSE load[n]
      BY <2>2 DEF Count, IInv, TypeOK
    <3>3. QED
      BY <2>1, <3>1, <3>2 DEF Unit
  <2>3. CASE CreateRefused(w)
    <3>1. Owes(w, n) <=> n = Got(w).node
      BY <1>1, <2>3 DEF CreateRefused, At, Owes
    <3>2. load'[n] = load[n]
      BY <2>3 DEF CreateRefused
    <3>3. QED
      BY <2>1, <3>1, <3>2 DEF Unit
  <2>4. QED
    BY <2>2, <2>3
<1>5. \A n : On(n)' = On(n)
  BY <1>1 DEF On
<1>6. ASSUME NEW n \in Nodes
      PROVE  load'[n] <= load[n] + Cardinality(On(n)') - Cardinality(On(n))
                         + Unit(j # Idle /\ OwesAt(j, n)) - Unit(Owes(w, n))
                         + leaked'[n] - leaked[n]
  <2>1. Unit(j # Idle /\ OwesAt(j, n)) = Unit(n = Got(w).node)
    BY <1>3 DEF Unit
  <2>2. /\ load[n] \in Nat /\ load'[n] \in Nat
        /\ leaked'[n] = leaked[n] /\ leaked[n] \in Nat
    BY <1>1 DEF IInv, TypeOK
  <2>3. Cardinality(On(n)') = Cardinality(On(n)) /\ Cardinality(On(n)) \in Nat
    BY <1>5, Finitely DEF LInv
  <2>4. Unit(n = Got(w).node) \in {0, 1} /\ Unit(Owes(w, n)) \in {0, 1}
    BY DEF Unit
  <2>5. load'[n] <= load[n] + Unit(n = Got(w).node) - Unit(Owes(w, n))
    BY <1>4
  <2> HIDE DEF On, Owes, OwesAt, Unit
  <2>6. QED
    BY <2>1, <2>2, <2>3, <2>4, <2>5
<1>7. IsFiniteSet(live')
  BY <1>1 DEF LInv
<1>8. QED
  BY <1>3, <1>6, <1>7, Balanced

(* A client is created where a unit was owed; if the answer is lost, one   *)
(* still is.                                                               *)
LEMMA CreateBalanced ==
  ASSUME IInv, IInv', LInv, NEW w \in Workers, Create(w) \/ CreateLost(w)
  PROVE  LInv'
<1>1. /\ Working(w) /\ worker[w] \in Job /\ worker[w].pc = "creating"
      /\ UNCHANGED <<load, leaked>>
  BY Jobs DEF Create, CreateLost, At, history
<1>2. PICK c \in Logins :
        /\ AddClient(w, c)
        /\ \/ worker' = [worker EXCEPT ![w] =
                  [@ EXCEPT !.pc = "linking",
                            !.got[Part(w)] = [Got(w) EXCEPT !.login = c,
                                                            !.fresh = TRUE]]]
           \/ Goto(w, "uncreating")
  BY DEF Create, CreateLost
<1>3. PICK j : worker' = [worker EXCEPT ![w] = j]
  BY <1>2 DEF Goto
<1>4. /\ place[c] = Nowhere /\ place'[c] # Nowhere
      /\ place'[c].node = Got(w).node /\ live' = live \cup {c}
      /\ \A l \in Logins \ {c} : place'[l] = place[l]
  BY <1>1, <1>2, Added DEF AddClient, IInv, TypeOK
<1>5. c \notin live /\ \A l \in live : l \in Logins \ {c}
  BY <1>4 DEF IInv, TypeOK
<1>6. \A n : On(n)' = IF n = Got(w).node THEN On(n) \cup {c} ELSE On(n)
  BY <1>4, <1>5 DEF On
<1>7. \A n : Owes(w, n) <=> n = Got(w).node
  BY <1>1 DEF Owes
<1>8. \A n : /\ c \notin On(n) /\ IsFiniteSet(On(n))
             /\ Cardinality(On(n)) \in Nat
  BY <1>5, Finitely DEF On, LInv
<1>9. ASSUME NEW n \in Nodes
      PROVE  load'[n] <= load[n] + Cardinality(On(n)') - Cardinality(On(n))
                         + Unit(j # Idle /\ OwesAt(j, n)) - Unit(Owes(w, n))
                         + leaked'[n] - leaked[n]
  <2>1. Cardinality(On(n) \cup {c}) = Cardinality(On(n)) + 1
    BY <1>8, FS_AddElement
  <2>2. Cardinality(On(n)') = Cardinality(On(n)) + Unit(n = Got(w).node)
    BY <1>6, <1>8, <2>1 DEF Unit
  <2>3. Unit(Owes(w, n)) = Unit(n = Got(w).node)
    BY <1>7 DEF Unit
  <2>4. Unit(n = Got(w).node) \in {0, 1}
        /\ Unit(j # Idle /\ OwesAt(j, n)) \in {0, 1}
    BY DEF Unit
  <2>5. /\ load'[n] = load[n] /\ load[n] \in Nat
        /\ leaked'[n] = leaked[n] /\ leaked[n] \in Nat
    BY <1>1 DEF IInv, TypeOK
  <2>6. Cardinality(On(n)) \in Nat
    BY <1>8
  <2> HIDE DEF On, Owes, OwesAt, Unit
  <2>7. QED
    BY <2>2, <2>3, <2>4, <2>5, <2>6
<1>10. IsFiniteSet(live')
  BY <1>4, FS_AddElement DEF LInv
<1>11. QED
  BY <1>3, <1>9, <1>10, Balanced

(* What a failed call or a crash leaves owed is lost.                      *)
LEMMA ThrowBalanced ==
  ASSUME IInv, IInv', LInv, NEW w \in Workers, Throw(w)
  PROVE  LInv'
<1>1. /\ Working(w) /\ Part(w) \in Parts /\ Lose({w})
      /\ UNCHANGED <<place, live, load>>
  BY Jobs DEF Throw, InTry, AfterTry, At, panel
<1>2. Square(w)
  BY <1>1, CatchSquare, LeavingSquare DEF Throw
<1>3. PICK j : /\ worker' = [worker EXCEPT ![w] = j]
               /\ j = Idle \/ j.pc \notin Owed
  BY <1>2 DEF Square
<1>4. \A n : ~ (j # Idle /\ OwesAt(j, n))
  BY <1>3 DEF OwesAt, Owed
<1>5. \A n : On(n)' = On(n)
  BY <1>1 DEF On
<1>6. ASSUME NEW n \in Nodes
      PROVE  load'[n] <= load[n] + Cardinality(On(n)') - Cardinality(On(n))
                         + Unit(j # Idle /\ OwesAt(j, n)) - Unit(Owes(w, n))
                         + leaked'[n] - leaked[n]
  <2>1. Cardinality({v \in {w} : Owes(v, n)}) = Unit(Owes(w, n))
    <3>1. CASE Owes(w, n)
      <4>1. {v \in {w} : Owes(v, n)} = {w}
        BY <3>1
      <4>2. QED
        BY <3>1, <4>1, FS_Singleton DEF Unit
    <3>2. CASE ~ Owes(w, n)
      <4>1. {v \in {w} : Owes(v, n)} = {}
        BY <3>2
      <4>2. QED
        BY <3>2, <4>1, FS_EmptySet DEF Unit
    <3>3. QED
      BY <3>1, <3>2
  <2>2. leaked'[n] = leaked[n] + Unit(Owes(w, n))
    BY <1>1, <2>1 DEF Lose
  <2>3. Unit(j # Idle /\ OwesAt(j, n)) = 0 /\ Unit(Owes(w, n)) \in {0, 1}
    BY <1>4 DEF Unit
  <2>4. load'[n] = load[n] /\ load[n] \in Nat /\ leaked[n] \in Nat
    BY <1>1 DEF IInv, TypeOK
  <2>5. Cardinality(On(n)') = Cardinality(On(n)) /\ Cardinality(On(n)) \in Nat
    BY <1>5, Finitely DEF LInv
  <2> HIDE DEF On, Owes, OwesAt, Unit
  <2>6. QED
    BY <2>2, <2>3, <2>4, <2>5
<1>7. IsFiniteSet(live')
  BY <1>1 DEF LInv
<1>8. QED
  BY <1>3, <1>6, <1>7, Balanced

(* What the handlers owe when the process dies is lost.                    *)
LEMMA CrashBalanced ==
  ASSUME IInv, IInv', LInv, Crash
  PROVE  LInv'
<1>1. UNCHANGED <<place, live, load>>
  BY DEF Crash, panel
<1>2. \A w \in Workers : ~ Working(w)'
  BY DEF Crash, Working
<1>3. ASSUME NEW n \in Nodes
      PROVE  load'[n] <= Cardinality(On(n)') + Cardinality(Owing(n)')
                         + leaked'[n]
  <2>1. leaked'[n] = leaked[n] + Cardinality(Owing(n))
    BY DEF Crash, Lose, Owing
  <2>2. On(n)' = On(n)
    BY <1>1 DEF On
  <2>3. Owing(n)' = {}
    BY <1>2 DEF Owing, Owes
  <2>4. Cardinality(Owing(n)') = 0
    BY <2>3, FS_EmptySet
  <2>5. Cardinality(On(n)) \in Nat /\ Cardinality(Owing(n)) \in Nat
    BY Finitely DEF LInv
  <2>6. load[n] <= Cardinality(On(n)) + Cardinality(Owing(n)) + leaked[n]
    BY DEF LInv, NoUnitLeaks, On, Owing
  <2>7. load'[n] = load[n] /\ load[n] \in Nat /\ leaked[n] \in Nat
    BY <1>1 DEF IInv, TypeOK
  <2>8. Cardinality(On(n)') = Cardinality(On(n))
    BY <2>2
  <2> HIDE DEF On, Owing
  <2>9. QED
    BY <2>1, <2>4, <2>5, <2>6, <2>7, <2>8
<1>4. IsFiniteSet(live')
  BY <1>1 DEF LInv
<1>5. QED
  BY <1>3, <1>4 DEF LInv, NoUnitLeaks, On, Owing

(* No load and no clients.                                                 *)
LEMMA InitBalanced == Init => LInv
<1> SUFFICES ASSUME Init PROVE LInv
  OBVIOUS
<1>1. IsFiniteSet(live)
  BY FS_EmptySet DEF Init
<1>2. \A n \in Nodes : load[n] = 0 /\ leaked[n] = 0
  BY DEF Init
<1>3. \A n : Cardinality(On(n)) \in Nat /\ Cardinality(Owing(n)) \in Nat
  BY <1>1, Finitely
<1> HIDE DEF Init
<1>4. \A n \in Nodes : load[n] <= Cardinality(On(n)) + Cardinality(Owing(n))
                                  + leaked[n]
  BY <1>2, <1>3
<1>5. QED
  BY <1>1, <1>4 DEF LInv, NoUnitLeaks, On, Owing

(* Every step keeps the account of the units.                              *)
LEMMA NextBalanced ==
  ASSUME IInv, IInv', LInv, [Next]_vars
  PROVE  LInv'
<1>1. ASSUME NEW w \in Workers, Begin(w) \/ Pay(w) \/ Revoke(w) \/ Throw(w)
      PROVE  LInv'
  BY <1>1, BeginEven, GoEven, ReadEven, DeleteBalanced, GiveBalanced,
     ThrowBalanced DEF Revoke
<1>2. ASSUME NEW w \in Workers, Sync(w)
      PROVE  LInv'
  <2>1. CASE \/ MapConfig(w) \/ MapAccess(w) \/ DropSkipped(w)
             \/ CountRefused(w) \/ Link(w) \/ LinkFails(w) \/ SaveAway(w)
             \/ Ready(w) \/ Grant(w) \/ FailConfig(w) \/ FailAccess(w)
    BY <2>1, GoEven
  <2>2. CASE ReadRows(w) \/ Select(w) \/ SelectAway(w)
    BY <2>2, ReadEven
  <2>3. CASE Drop(w) \/ Undo(w) \/ Uncount(w) \/ Uncreate(w) \/ Return(w)
    BY <2>3, DeleteBalanced, GiveBalanced
  <2>4. CASE Count(w) \/ CreateRefused(w) \/ Create(w) \/ CreateLost(w)
    BY <2>4, CountBalanced, CreateBalanced
  <2>5. QED
    BY <1>2, <2>1, <2>2, <2>3, <2>4 DEF Sync
<1>3. CASE Crash
  BY <1>3, CrashBalanced
<1>4. CASE UNCHANGED vars
  <2>1. UNCHANGED <<live, place, load, leaked, worker>>
    BY <1>4 DEF vars, panel, history
  <2>2. \A n : On(n)' = On(n) /\ Owing(n)' = Owing(n)
    BY <2>1 DEF On, Owing, Owes, Working, Read, Got, Dev, Part
  <2>3. QED
    BY <2>1, <2>2 DEF LInv, NoUnitLeaks, On, Owing
<1>5. QED
  BY <1>1, <1>2, <1>3, <1>4 DEF Next

(* No unit of load is left behind: a node counts no more units than it has *)
(* clients, handlers that are about to create or give back one, and units  *)
(* that failed calls and crashes have lost (incrementLoad, decrementLoad,  *)
(* createClient, deleteClient, under any handlers at once).                *)
THEOREM UnitsAccounted == Spec => []NoUnitLeaks
<1>1. Init => LInv
  BY InitBalanced
<1>2. IInv /\ IInv' /\ LInv /\ [Next]_vars => LInv'
  BY NextBalanced
<1>3. LInv => NoUnitLeaks
  BY DEF LInv
<1>4. QED
  BY <1>1, <1>2, <1>3, Invariance, PTL DEF Spec

(* The client was created for that device and part.                        *)
Belongs(pl, k, l) == l # None => pl[l].dev = k[1] /\ pl[l].part = k[2]

Homed(l) == l \in live /\ place[l].node = Home

(* What is so of a device that no handler is at: an active access has its  *)
(* client, a ready config its active access; none is ready in the end.     *)
Fine(d) ==
  LET r == access[<<d, "normal">>]
  IN  /\ r.status = "active" => Homed(r.login)
      /\ conf[d] = "ready" => r.status = "active"

Over == provision \in {"suspended", "deleted"}

Rests(d) == Fine(d) /\ (Over => conf[d] # "ready")

Cutting == {"cutting", "giving", "closing"}
RevokePc == Cutting \cup {"revoking", "closing config", "marking"}
MapPc == {"reading", "mapping", "mapping access"}

(* The normal profile of the device has its client.                        *)
Holding(j) ==
  \/ j.part = "normal" /\ j.pc \in {"linking", "away", "readying", "granting"}
  \/ /\ j.part = "away"
     /\ j.pc \in {"selecting", "dropping", "uncounting", "counting",
                  "creating", "uncreating", "linking", "saving away",
                  "undoing", "returning"}

(* Which handler takes which steps, for which part and devices.            *)
Stages(j) ==
  /\ j.kind \in {"sync", "revoke", "suspend", "delete", "pay"}
  /\ j.pc \in {"reading", "mapping", "mapping access", "away", "readying",
               "granting", "failing", "failing access", "revoking",
               "closing config"} => j.part = "normal"
  /\ j.pc = "saving away" => j.part = "away"
  /\ j.pc \in RevokePc <=> j.kind \in {"revoke", "suspend", "delete"}
  /\ j.pc \in {"paying", "paid"} <=> j.kind = "pay"
  /\ j.pc = "marking" => j.kind = "delete"
  /\ j.kind = "revoke" => j.devs = IF j.pc = "revoking" THEN {j.dev} ELSE {}
  /\ j.kind \in {"suspend", "delete"} /\ j.pc = "revoking" => j.devs = Devices
  /\ j.kind = "sync" /\ j.pc \notin MapPc => j.st = "active"

(* Clients are held for their own device and part.                         *)
Owned(pl, j) ==
  /\ \A k \in Keys : Belongs(pl, k, j.rows[k].login)
  /\ \A p \in Parts : Belongs(pl, <<j.dev, p>>, j.got[p].login)
  /\ j.got["normal"].node = Home
  /\ j.pc \in RevokePc => \A p \in Parts : j.got[p].login = None

(* What a handler that minds the device alone makes of it on its way.      *)
Serves(j, d) ==
  /\ j.dev # d => Fine(d)
  /\ j.dev = d =>
       /\ j.pc \in MapPc \cup {"revoking", "marking"} => Fine(d)
       /\ j.pc \in {"mapping access", "failing access"} => conf[d] # "ready"
       /\ j.pc = "selecting" /\ j.part = "normal" =>
            LET r == j.rows[<<d, "normal">>]
            IN  r.status = "active" => Homed(r.login)
       /\ Holding(j) => Homed(j.got["normal"].login)
       /\ (j.pc \in Cutting /\ j.part = "away") \/ j.pc = "closing config"
          => access[<<d, "normal">>].status # "active"

(* Its config, of a subscription that ends.                                *)
Ends(j, d) ==
  /\ j.kind = "sync" /\ Over => j.st # "active"
  /\ j.kind # "suspend" /\ Over => conf[d] # "ready"
  /\ j.pc = "marking" => conf[d] # "ready"
  /\ /\ j.kind \in {"suspend", "delete"}
     /\ j.pc \in Cutting \cup {"closing config"}
     /\ d \notin j.devs \cup {j.dev}
     => conf[d] # "ready"

Promised(j, d) == IF j = Idle THEN Rests(d) ELSE Serves(j, d) /\ Ends(j, d)

SInv ==
  /\ \A k \in Keys : Belongs(place, k, access[k].login)
  /\ \A w \in Workers :
       Working(w) => Stages(worker[w]) /\ Owned(place, worker[w])
  /\ \A d \in Devices \ met : \A v, w \in Workers :
       Minds(v, d) /\ Minds(w, d) => v = w
  /\ \A d \in Devices \ met : \A w \in Workers :
       Minds(w, d) => Serves(worker[w], d) /\ Ends(worker[w], d)
  /\ \A d \in Devices : Alone(d) => Rests(d)

(* A step that leaves the device alone, and ends no subscription.          *)
Kept(d) ==
  /\ conf'[d] = conf[d]
  /\ access'[<<d, "normal">>] = access[<<d, "normal">>]
  /\ \A l : Homed(l) /\ Belongs(place, <<d, "normal">>, l) => Homed(l)'
  /\ Over' => Over

(* Such a step keeps what is so of the device.                             *)
LEMMA KeptFine ==
  ASSUME IInv, SInv, NEW d \in Devices, Kept(d)
  PROVE  /\ Fine(d) => Fine(d)'
         /\ Rests(d) => Rests(d)'
<1>1. Belongs(place, <<d, "normal">>, access[<<d, "normal">>].login)
  BY AccessAssumption DEF SInv, Keys
<1>2. PICK l : l = access[<<d, "normal">>].login
  OBVIOUS
<1>3. Homed(l) => Homed(l)'
  BY <1>1, <1>2 DEF Kept
<1>4. Fine(d) => Fine(d)'
  BY <1>2, <1>3 DEF Kept, Fine, Homed
<1>5. QED
  BY <1>4 DEF Rests, Kept

(* It keeps what another handler makes of it.                              *)
LEMMA KeptPromise ==
  ASSUME IInv, SInv, NEW d \in Devices, Kept(d), NEW j,
         Owned(place, j), Serves(j, d), Ends(j, d)
  PROVE  Serves(j, d)' /\ Ends(j, d)'
<1>1. Fine(d) => Fine(d)'
  BY KeptFine
<1>2. "normal" \in Parts /\ <<d, "normal">> \in Keys
  BY AccessAssumption DEF Keys
<1>3. PICK l, m : l = j.rows[<<d, "normal">>].login /\ m = j.got["normal"].login
  OBVIOUS
<1>4. Belongs(place, <<d, "normal">>, l)
  BY <1>2, <1>3 DEF Owned
<1>5. j.dev = d => Belongs(place, <<d, "normal">>, m)
  BY <1>2, <1>3 DEF Owned
<1>6. (Homed(l) => Homed(l)') /\ (j.dev = d /\ Homed(m) => Homed(m)')
  BY <1>4, <1>5 DEF Kept
<1>7. Serves(j, d)'
  <2>1. j.dev # d => Fine(d)'
    BY <1>1 DEF Serves
  <2>2. ASSUME j.dev = d
        PROVE  Serves(j, d)'
    BY <1>1, <1>3, <1>6, <2>2 DEF Serves, Kept, Homed
  <2>3. QED
    BY <2>1, <2>2 DEF Serves
<1>8. Ends(j, d)'
  BY DEF Ends, Kept
<1>9. QED
  BY <1>7, <1>8

(* A step of the handler w that becomes j.                                 *)
LEMMA Stepped ==
  ASSUME IInv, SInv, NEW w \in Workers, Working(w), NEW j,
         worker' = [worker EXCEPT ![w] = j], met \subseteq met',
         \A k \in Keys : Belongs(place', k, access'[k].login),
         \A v \in Workers \ {w} : Working(v) => Owned(place', worker[v]),
         j # Idle => /\ Stages(j) /\ Owned(place', j)
                     /\ Minded(j) = Minded(worker[w]),
         \A d \in Devices \ Minded(worker[w]) : Kept(d),
         \A d \in Devices \ met' : d \in Minded(worker[w]) => Promised(j, d)'
  PROVE  SInv'
<1>1. /\ worker'[w] = j
      /\ \A v \in Workers \ {w} : worker'[v] = worker[v]
  BY DEF IInv
<1>2. \A v \in Workers : \A d : Minds(v, d)' => Minds(v, d)
  BY <1>1 DEF Minds, Working
<1>3. \A v \in Workers \ {w} : \A d : Minds(v, d)' <=> Minds(v, d)
  BY <1>1 DEF Minds, Working
<1>4. ASSUME NEW v \in Workers, Working(v)'
      PROVE  (Stages(worker[v]) /\ Owned(place, worker[v]))'
  <2>1. CASE v = w
    BY <1>1, <1>4, <2>1 DEF Working, Stages, Owned
  <2>2. CASE v # w
    <3>1. worker'[v] = worker[v] /\ Working(v)
      BY <1>1, <1>4, <2>2 DEF Working
    <3>2. Stages(worker[v]) /\ Owned(place', worker[v])
      BY <2>2, <3>1 DEF SInv
    <3>3. QED
      BY <3>1, <3>2 DEF Stages, Owned
  <2>3. QED
    BY <2>1, <2>2
<1>5. ASSUME NEW d \in Devices, d \notin met',
             NEW u \in Workers, NEW v \in Workers, Minds(u, d)', Minds(v, d)'
      PROVE  u = v
  BY <1>2, <1>5 DEF SInv
<1>6. ASSUME NEW d \in Devices, d \notin met', NEW v \in Workers, Minds(v, d)'
      PROVE  (Serves(worker[v], d) /\ Ends(worker[v], d))'
  <2>1. CASE v = w
    <3>1. j # Idle /\ d \in Minded(worker[w])
      BY <1>1, <1>2, <1>6, <2>1 DEF Minds, Working
    <3>2. Serves(j, d)' /\ Ends(j, d)'
      BY <1>6, <3>1 DEF Promised
    <3>3. worker'[v] = j
      BY <1>1, <2>1
    <3>4. Serves(worker[v], d)'
      BY ONLY <3>2, <3>3 DEF Serves, Fine, Homed, Holding
    <3>5. Ends(worker[v], d)'
      BY <3>2, <3>3 DEF Ends
    <3>6. QED
      BY <3>4, <3>5
  <2>2. CASE v # w
    <3>1. worker'[v] = worker[v] /\ Minds(v, d) /\ d \notin met
      BY <1>1, <1>3, <1>6, <2>2
    <3>2. ~ Minds(w, d) /\ Working(v)
      BY <2>2, <3>1 DEF SInv, Minds
    <3>3. Kept(d)
      BY <3>2 DEF Minds
    <3>4. PICK h : h = worker[v]
      OBVIOUS
    <3>5. Owned(place, h) /\ Serves(h, d) /\ Ends(h, d)
      BY <3>1, <3>2, <3>4 DEF SInv
    <3>6. Serves(h, d)' /\ Ends(h, d)'
      BY <3>3, <3>5, KeptPromise
    <3>7. QED
      BY <3>1, <3>4, <3>6 DEF Serves, Ends, Fine, Homed, Over, Holding
  <2>3. QED
    BY <2>1, <2>2
<1>7. ASSUME NEW d \in Devices, Alone(d)'
      PROVE  Rests(d)'
  <2>1. d \notin met' /\ d \notin met /\ \A v \in Workers : ~ Minds(v, d)'
    BY <1>7 DEF Alone
  <2>2. CASE d \in Minded(worker[w])
    <3>1. j = Idle
      BY <1>1, <2>1, <2>2 DEF Minds, Working
    <3>2. QED
      BY <2>1, <2>2, <3>1 DEF Promised
  <2>3. CASE d \notin Minded(worker[w])
    <3>1. Alone(d)
      BY <1>3, <2>1, <2>3 DEF Alone, Minds
    <3>2. Rests(d) /\ Kept(d)
      BY <2>3, <3>1 DEF SInv
    <3>3. QED
      BY <3>2, KeptFine
  <2>4. QED
    BY <2>2, <2>3
<1>8. QED
  BY <1>4, <1>5, <1>6, <1>7 DEF SInv

(* One that leaves the subscription, its rows and its clients alone.       *)
LEMMA Inert ==
  ASSUME IInv, SInv, NEW w \in Workers, Working(w), NEW j,
         worker' = [worker EXCEPT ![w] = j],
         UNCHANGED <<provision, conf, access, place, live, met>>,
         j # Idle, Stages(j), Owned(place, j), Minded(j) = Minded(worker[w]),
         \A d \in Devices :
           /\ d \in Minded(worker[w])
           /\ Serves(worker[w], d) /\ Ends(worker[w], d)
           => Serves(j, d) /\ Ends(j, d)
  PROVE  SInv'
<1>1. \A k \in Keys : Belongs(place', k, access'[k].login)
  BY DEF SInv
<1>2. \A v \in Workers \ {w} : Working(v) => Owned(place', worker[v])
  BY DEF SInv
<1>3. \A d : Kept(d)
  BY DEF Kept, Homed, Over
<1>4. ASSUME NEW d \in Devices \ met', d \in Minded(worker[w])
      PROVE  Promised(j, d)'
  <2>1. Serves(worker[w], d) /\ Ends(worker[w], d)
    BY <1>4 DEF SInv, Minds
  <2>2. Serves(j, d) /\ Ends(j, d)
    BY <1>4, <2>1
  <2>3. Serves(j, d)' /\ Ends(j, d)'
    BY <1>3, <1>4, <2>2, KeptPromise
  <2>4. QED
    BY <2>3 DEF Promised
<1>5. QED
  BY <1>1, <1>2, <1>3, <1>4, Stepped
(* A job that has gone on.                                                 *)
Same(j, h) ==
  /\ j.kind = h.kind /\ j.st = h.st /\ j.dev = h.dev /\ j.devs = h.devs
  /\ j.rows = h.rows

(* The job of a handler that turns to a step of a part.                    *)
LEMMA TurnedJob ==
  ASSUME IInv, NEW w \in Workers, Working(w), NEW pc \in Pc, NEW part,
         Turn(w, part, pc)
  PROVE  \E j : /\ worker' = [worker EXCEPT ![w] = j] /\ j # Idle
                /\ Same(j, worker[w]) /\ j.got = worker[w].got
                /\ j.pc = pc /\ j.part = part
<1> DEFINE j == [worker[w] EXCEPT !.pc = pc, !.part = part]
<1>1. worker[w] \in Job
  BY DEF IInv, Sound, Working
<1>2. Same(j, worker[w]) /\ j.got = worker[w].got /\ j.pc = pc /\ j.part = part
  BY <1>1 DEF Job, Same
<1>3. worker' = [worker EXCEPT ![w] = j]
  BY DEF Turn
<1> HIDE DEF j
<1>4. j # Idle
  <2>1. pc # "idle"
    BY DEF Pc
  <2>2. QED
    BY <1>2, <2>1 DEF Idle
<1>5. QED
  BY <1>2, <1>3, <1>4

(* The job of one that goes on with its part.                              *)
LEMMA GoneJob ==
  ASSUME IInv, NEW w \in Workers, Working(w), NEW pc \in Pc, Goto(w, pc)
  PROVE  \E j : /\ worker' = [worker EXCEPT ![w] = j] /\ j # Idle
                /\ Same(j, worker[w]) /\ j.got = worker[w].got
                /\ j.pc = pc /\ j.part = worker[w].part
BY GoingTurns, TurnedJob DEF Part

(* The job of one whose part has ended.                                    *)
LEMMA PartJob ==
  ASSUME IInv, NEW w \in Workers, Working(w), NEW part \in Parts,
         EndPart(w, part)
  PROVE  \E j : /\ worker' = [worker EXCEPT ![w] = j] /\ j # Idle
                /\ Same(j, worker[w])
                /\ j.got[part] = NoMaterial
                /\ \A p \in Parts \ {part} : j.got[p] = worker[w].got[p]
                /\ j.pc = IF part = "away" THEN "readying" ELSE "failing"
                /\ j.part = "normal"
<1> DEFINE pc == IF part = "away" THEN "readying" ELSE "failing"
           got == [worker[w].got EXCEPT ![part] = NoMaterial]
           j == [worker[w] EXCEPT !.pc = pc, !.part = "normal", !.got = got]
<1>1. worker[w] \in Job
  BY DEF IInv, Sound, Working
<1>2. Same(j, worker[w]) /\ j.got = got /\ j.pc = pc /\ j.part = "normal"
  BY <1>1 DEF Job, Same
<1>3. worker' = [worker EXCEPT ![w] = j]
  BY DEF EndPart
<1>4. /\ got[part] = NoMaterial
      /\ \A p \in Parts \ {part} : got[p] = worker[w].got[p]
  BY <1>1 DEF Job
<1> HIDE DEF j, got
<1>5. j # Idle
  BY <1>2 DEF Idle
<1>6. QED
  BY <1>2, <1>3, <1>4, <1>5

(* A handler at a step does what the invariant says.                       *)
LEMMA AtStep ==
  ASSUME IInv, SInv, NEW w \in Workers, worker[w].pc # "idle"
  PROVE  /\ Working(w) /\ worker[w] \in Job
         /\ Stages(worker[w]) /\ Owned(place, worker[w])
         /\ Part(w) \in Parts /\ Dev(w) \in Devices /\ "normal" \in Parts
         /\ \A k \in Keys : Belongs(place, k, access[k].login)
BY Jobs, AccessAssumption DEF SInv

(* What is minded stays so with the kind and the device.                   *)
LEMMA MindedSame ==
  ASSUME NEW h, NEW j, Same(j, h)
  PROVE  Minded(j) = Minded(h)
BY DEF Minded, Same

(* Going on inside an activation or a revocation.                          *)
LEMMA GoSerial ==
  ASSUME IInv, SInv, NEW w \in Workers,
         \/ Uncount(w) \/ Count(w) \/ CreateRefused(w) \/ Link(w)
         \/ DropSkipped(w) \/ CutSkipped(w) \/ GiveBack(w)
  PROVE  SInv'
<1> USE DEF Uncount, Count, CreateRefused, Link, DropSkipped, CutSkipped, GiveBack
<1>1. /\ Working(w) /\ worker[w] \in Job
      /\ Stages(worker[w]) /\ Owned(place, worker[w])
      /\ UNCHANGED <<provision, conf, access, place, live, met>>
  BY AtStep DEF At, panel, history
<1>2. \E pc \in Pc : Goto(w, pc) /\
        \/ worker[w].pc \in {"dropping", "uncounting"} /\ pc = "counting"
        \/ worker[w].pc = "counting" /\ pc = "creating"
        \/ worker[w].pc = "creating" /\ pc = "uncreating"
        \/ worker[w].pc = "linking" /\ worker[w].part = "away"
           /\ pc = "saving away"
        \/ worker[w].pc = "linking" /\ worker[w].part # "away"
           /\ pc \in {"away", "readying"}
        \/ worker[w].pc \in {"cutting", "giving"} /\ pc = "closing"
  BY DEF At, Part, Pc
<1>3. PICK pc \in Pc : Goto(w, pc) /\
        \/ worker[w].pc \in {"dropping", "uncounting"} /\ pc = "counting"
        \/ worker[w].pc = "counting" /\ pc = "creating"
        \/ worker[w].pc = "creating" /\ pc = "uncreating"
        \/ worker[w].pc = "linking" /\ worker[w].part = "away"
           /\ pc = "saving away"
        \/ worker[w].pc = "linking" /\ worker[w].part # "away"
           /\ pc \in {"away", "readying"}
        \/ worker[w].pc \in {"cutting", "giving"} /\ pc = "closing"
  BY <1>2
<1>4. PICK j : /\ worker' = [worker EXCEPT ![w] = j] /\ j # Idle
               /\ Same(j, worker[w]) /\ j.got = worker[w].got
               /\ j.pc = pc /\ j.part = worker[w].part
  BY <1>1, <1>3, GoneJob
<1>5. worker[w].part \in {"normal", "away"}
  BY <1>1, AccessAssumption DEF Job
<1>6. Stages(j)
  BY <1>1, <1>3, <1>4, <1>5 DEF Stages, Same, RevokePc, MapPc, Cutting
<1>7. Owned(place, j)
  BY <1>1, <1>3, <1>4 DEF Owned, Same, RevokePc, Cutting
<1>8. ASSUME NEW d \in Devices, Serves(worker[w], d)
      PROVE  Serves(j, d)
  BY <1>3, <1>4, <1>5, <1>8
     DEF Serves, Same, Holding, RevokePc, MapPc, Cutting
<1>9. ASSUME NEW d \in Devices, Ends(worker[w], d)
      PROVE  Ends(j, d)
  BY <1>3, <1>4, <1>9 DEF Ends, Same, Cutting
<1>10. QED
  BY <1>1, <1>4, <1>6, <1>7, <1>8, <1>9, MindedSame, Inert

(* Where an exception may lead to the catch block of the part.              *)
Throws(w, part) ==
  \/ part = Part(w) /\ worker[w].pc \in InTry \cup {"linking", "returning"}
  \/ At(w, "returning") /\ Part(w) = "away" /\ part = "normal"

(* A catch block is entered without a change, or a part ends.              *)
LEMMA CaughtSerial ==
  ASSUME IInv, SInv, NEW w \in Workers, NEW q \in Parts,
         Turn(w, q, "undoing") \/ EndPart(w, q),
         UNCHANGED <<provision, conf, access, place, live, met>>,
         Throws(w, q)
  PROVE  SInv'
<1>0. worker[w].pc \in {"uncounting", "counting", "uncreating",
        "saving away", "readying", "granting", "away", "linking", "returning"}
  BY DEF InTry, At, Throws
<1>1. /\ Working(w) /\ worker[w] \in Job
      /\ Stages(worker[w]) /\ Owned(place, worker[w])
      /\ Part(w) \in Parts /\ "normal" \in Parts
  BY <1>0, AtStep
<1>2. /\ worker[w].part \in {"normal", "away"}
      /\ q \in {"normal", "away"}
      /\ q = "away" => worker[w].part = "away"
  BY <1>1, AccessAssumption DEF Part, Throws
<1>3. worker[w].kind = "sync"
  BY <1>0, <1>1 DEF Stages, RevokePc, Cutting
<1>4. CASE Turn(w, q, "undoing")
  <2>1. PICK j : /\ worker' = [worker EXCEPT ![w] = j] /\ j # Idle
                 /\ Same(j, worker[w]) /\ j.got = worker[w].got
                 /\ j.pc = "undoing" /\ j.part = q
    <3>1. "undoing" \in Pc
      BY DEF Pc
    <3>2. QED
      BY <1>1, <1>4, <3>1, TurnedJob
  <2>2. Stages(j) /\ Owned(place, j)
    BY <1>0, <1>1, <1>2, <1>3, <2>1
       DEF Stages, Owned, Same, RevokePc, MapPc, Cutting
  <2>3. ASSUME NEW d \in Devices, Serves(worker[w], d)
        PROVE  Serves(j, d)
    BY <1>0, <1>1, <1>2, <2>1, <2>3
       DEF Serves, Same, Holding, RevokePc, MapPc, Cutting, Stages
  <2>4. ASSUME NEW d \in Devices, Ends(worker[w], d)
        PROVE  Ends(j, d)
    BY <1>0, <1>1, <1>3, <2>1, <2>4 DEF Ends, Same, Cutting
  <2>5. QED
    BY <1>0, <1>1, <2>1, <2>2, <2>3, <2>4, MindedSame, Inert
<1>5. CASE EndPart(w, q)
  <2>1. PICK j : /\ worker' = [worker EXCEPT ![w] = j] /\ j # Idle
                 /\ Same(j, worker[w])
                 /\ j.got[q] = NoMaterial
                 /\ \A p \in Parts \ {q} : j.got[p] = worker[w].got[p]
                 /\ j.pc = IF q = "away" THEN "readying" ELSE "failing"
                 /\ j.part = "normal"
    BY <1>0, <1>1, <1>5, PartJob
  <2>2. Stages(j)
    BY <1>0, <1>1, <1>2, <1>3, <2>1 DEF Stages, Same, RevokePc, MapPc, Cutting
  <2>3. Owned(place, j)
    <3>1. j.got["normal"].node = Home
      BY <1>1, <1>2, <2>1 DEF Owned, NoMaterial
    <3>2. \A p \in Parts : Belongs(place, <<j.dev, p>>, j.got[p].login)
      BY <1>1, <1>2, <2>1 DEF Owned, Same, NoMaterial, Belongs
    <3>3. j.pc \notin RevokePc
      BY <2>1 DEF RevokePc, Cutting
    <3>4. QED
      BY <1>0, <1>1, <2>1, <3>1, <3>2, <3>3 DEF Owned, Same
  <2>4. ASSUME NEW d \in Devices, Serves(worker[w], d)
        PROVE  Serves(j, d)
    <3>1. j.dev = worker[w].dev
      BY <2>1 DEF Same
    <3>2. j.dev # d => Fine(d)
      BY <2>4, <3>1 DEF Serves
    <3>3. j.pc = "readying" => q = "away"
      BY <2>1
    <3>4. j.pc \in {"readying", "failing"} /\ j.part = "normal"
      BY <2>1
    <3>5. ASSUME j.dev = d, Holding(j) PROVE Homed(j.got["normal"].login)
      <4>1. q = "away" /\ worker[w].part = "away"
        BY <1>2, <3>4, <3>5, <3>3 DEF Holding
      <4>2. j.got["normal"] = worker[w].got["normal"]
        BY <1>1, <2>1, <4>1
      <4>3. worker[w].pc \in {"uncounting", "counting", "uncreating",
              "saving away", "linking", "returning"}
        BY <1>0, <1>1, <1>2, <4>1 DEF Stages
      <4>4. Holding(worker[w])
        BY <1>2, <4>1, <4>3 DEF Holding
      <4>5. QED
        BY <2>4, <3>1, <3>5, <4>2, <4>4 DEF Serves
    <3>6. QED
      BY <3>2, <3>4, <3>5 DEF Serves, MapPc, Cutting
  <2>5. ASSUME NEW d \in Devices, Ends(worker[w], d)
        PROVE  Ends(j, d)
    BY <1>3, <2>1, <2>5 DEF Ends, Same, Cutting
  <2>6. QED
    BY <1>0, <1>1, <2>1, <2>2, <2>3, <2>4, <2>5, MindedSame, Inert
<1>6. QED
  BY <1>4, <1>5

(* So it is when a call refuses or a query throws in a part.               *)
LEMMA CatchSerial ==
  ASSUME IInv, SInv, NEW w \in Workers,
         CountRefused(w) \/ Uncreate(w) \/ LinkFails(w) \/ Return(w)
  PROVE  SInv'
<1>1. /\ UNCHANGED <<provision, conf, access, place, live, met>>
      /\ worker[w].pc \in InTry \cup {"linking", "returning"}
      /\ worker[w].pc # "idle"
  BY DEF CountRefused, Uncreate, LinkFails, Return, At, InTry, panel, history
<1>2. Part(w) \in Parts
  BY <1>1, AtStep
<1>3. Turn(w, Part(w), "undoing") \/ EndPart(w, Part(w))
  BY DEF CountRefused, Uncreate, LinkFails, Return, Catch
<1>4. QED
  BY <1>1, <1>2, <1>3, CaughtSerial DEF Throws

(* The rows as they are now: of fine devices, with their own clients.      *)
LEMMA ReadSerial ==
  ASSUME IInv, SInv, NEW w \in Workers,
         ReadRows(w) \/ ReadForRevoke(w)
  PROVE  SInv'
<1>1. /\ Working(w) /\ worker[w] \in Job
      /\ Stages(worker[w]) /\ Owned(place, worker[w])
      /\ UNCHANGED <<provision, conf, access, place, live, met>>
      /\ \A k \in Keys : Belongs(place, k, access[k].login)
  BY AtStep DEF ReadRows, ReadForRevoke, At, panel, history, SInv
<1>2. CASE ReadRows(w)
  <2> DEFINE pc == IF worker[w].st = "active" THEN "selecting" ELSE "mapping"
             j == [worker[w] EXCEPT !.rows = access, !.pc = pc]
  <2>1. /\ j.rows = access /\ j.got = worker[w].got /\ j.pc = pc
        /\ j.kind = worker[w].kind /\ j.st = worker[w].st
        /\ j.dev = worker[w].dev /\ j.devs = worker[w].devs
        /\ j.part = worker[w].part
    BY <1>1 DEF Job
  <2>2. worker' = [worker EXCEPT ![w] = j]
    BY <1>2 DEF ReadRows
  <2>3. worker[w].pc = "reading"
    BY <1>2 DEF ReadRows, At
  <2>4. \/ worker[w].st = "active" /\ pc = "selecting"
        \/ worker[w].st # "active" /\ pc = "mapping"
    OBVIOUS
  <2> HIDE DEF j, pc
  <2>5. j # Idle
    BY <2>1, <2>4 DEF Idle
  <2>6. Stages(j)
    BY <1>1, <2>1, <2>3, <2>4
       DEF Stages, RevokePc, MapPc, Cutting
  <2>7. Owned(place, j)
    BY <1>1, <2>1, <2>3, <2>4
       DEF Owned, RevokePc, Cutting
  <2>8. ASSUME NEW d \in Devices, Serves(worker[w], d)
        PROVE  Serves(j, d)
    BY <1>1, <2>1, <2>3, <2>4, <2>8
       DEF Serves, Stages, Holding, MapPc, Cutting, Fine
  <2>9. ASSUME NEW d \in Devices, Ends(worker[w], d)
        PROVE  Ends(j, d)
    BY <1>1, <2>1, <2>3, <2>4, <2>9 DEF Ends, Cutting
  <2>10. Minded(j) = Minded(worker[w])
    BY <2>1 DEF Minded
  <2>11. QED
    BY <1>1, <2>2, <2>5, <2>6, <2>7, <2>8, <2>9, <2>10, Inert
<1>3. CASE ReadForRevoke(w)
  <2>1. PICK d \in worker[w].devs :
          worker' = [worker EXCEPT ![w] =
            [@ EXCEPT !.rows = access, !.pc = "cutting",
                      !.dev = d, !.devs = worker[w].devs \ {d}]]
    BY <1>3 DEF ReadForRevoke
  <2> DEFINE j == [worker[w] EXCEPT !.rows = access, !.pc = "cutting",
                                    !.dev = d, !.devs = worker[w].devs \ {d}]
  <2>2. /\ j.rows = access /\ j.got = worker[w].got /\ j.pc = "cutting"
        /\ j.kind = worker[w].kind /\ j.st = worker[w].st
        /\ j.dev = d /\ j.devs = worker[w].devs \ {d}
        /\ j.part = worker[w].part
    BY <1>1 DEF Job
  <2>3. worker' = [worker EXCEPT ![w] = j]
    BY <2>1
  <2>4. worker[w].pc = "revoking"
    BY <1>3 DEF ReadForRevoke, At
  <2> HIDE DEF j
  <2>5. j # Idle
    BY <2>2 DEF Idle
  <2>6. Stages(j)
    BY <1>1, <2>2, <2>4 DEF Stages, RevokePc, MapPc, Cutting
  <2>7. Owned(place, j)
    BY <1>1, <2>2, <2>4 DEF Owned, RevokePc, Cutting, Belongs
  <2>8. ASSUME NEW e \in Devices, Serves(worker[w], e)
        PROVE  Serves(j, e)
    <3>1. Fine(e)
      BY <2>4, <2>8 DEF Serves
    <3>2. j.part = "normal"
      BY <1>1, <2>2, <2>4 DEF Stages
    <3>3. QED
      BY <2>2, <3>1, <3>2 DEF Serves, Holding, MapPc, Cutting
  <2>9. ASSUME NEW e \in Devices, Ends(worker[w], e)
        PROVE  Ends(j, e)
    BY <1>1, <2>2, <2>4, <2>9 DEF Ends, Stages, Cutting
  <2>10. Minded(j) = Minded(worker[w])
    BY <1>1, <2>1, <2>2, <2>4 DEF Minded, Stages, RevokePc
  <2>11. QED
    BY <1>1, <2>3, <2>5, <2>6, <2>7, <2>8, <2>9, <2>10, Inert
<1>4. QED
  BY <1>2, <1>3

(* A client that is reused is one the row has; an away profile starts anew. *)
LEMMA SelectSerial ==
  ASSUME IInv, SInv, NEW w \in Workers, Select(w)
  PROVE  SInv'
<1>1. /\ Working(w) /\ worker[w] \in Job
      /\ Stages(worker[w]) /\ Owned(place, worker[w])
      /\ UNCHANGED <<provision, conf, access, place, live, met>>
      /\ worker[w].pc = "selecting" /\ Part(w) \in Parts
      /\ <<Dev(w), Part(w)>> \in Keys
  BY AtStep DEF Select, At, panel, history, Keys
<1>2. PICK prof \in Profiles \cup {None} :
        worker' = [worker EXCEPT ![w] =
         [@ EXCEPT
            !.got[Part(w)] =
              [Got(w) EXCEPT
                 !.prof = prof,
                 !.login = IF Reusable(w, prof) THEN Read(w).login
                           ELSE None],
            !.pc = IF Reusable(w, prof) THEN "linking"
                   ELSE IF Replaced(w, prof) THEN "dropping"
                   ELSE "counting"]]
  BY DEF Select
<1> DEFINE m == [Got(w) EXCEPT !.prof = prof,
                   !.login = IF Reusable(w, prof) THEN Read(w).login ELSE None]
           pc == IF Reusable(w, prof) THEN "linking"
                 ELSE IF Replaced(w, prof) THEN "dropping" ELSE "counting"
           got == [worker[w].got EXCEPT ![Part(w)] = m]
           j == [worker[w] EXCEPT !.got = got, !.pc = pc]
<1>3. Got(w) \in Material
  BY <1>1, Jobs
<1>4. /\ m.node = Got(w).node
      /\ \/ m.login = None /\ pc \in {"dropping", "counting"}
         \/ m.login = Read(w).login /\ pc = "linking" /\ Read(w).status = "active"
  BY <1>3 DEF Material, Reusable
<1>5. /\ Same(j, worker[w]) /\ j.got = got /\ j.pc = pc
      /\ j.part = worker[w].part
  BY <1>1 DEF Job, Same
<1>6. worker' = [worker EXCEPT ![w] = j]
  BY <1>2 DEF Got
<1> HIDE DEF m, pc, j
<1>7. got[Part(w)] = m /\ \A p \in Parts \ {Part(w)} : got[p] = worker[w].got[p]
  BY <1>1 DEF Job
<1> HIDE DEF got
<1>8. j # Idle
  BY <1>4, <1>5 DEF Idle
<1>9. worker[w].part = Part(w) /\ worker[w].dev = Dev(w)
      /\ Part(w) \in {"normal", "away"} /\ "normal" \in Parts
  BY <1>1, AccessAssumption DEF Part, Dev
<1>10. Stages(j)
  BY <1>1, <1>4, <1>5 DEF Stages, Same, RevokePc, MapPc, Cutting
<1>11. Owned(place, j)
  <2>1. Belongs(place, <<Dev(w), Part(w)>>, m.login)
    BY <1>1, <1>4 DEF Owned, Read, Belongs
  <2>2. \A p \in Parts : Belongs(place, <<j.dev, p>>, j.got[p].login)
    BY <1>1, <1>5, <1>7, <1>9, <2>1 DEF Owned, Same
  <2>3. j.got["normal"].node = Home
    BY <1>1, <1>4, <1>5, <1>7, <1>9 DEF Owned, Got
  <2>4. j.pc \notin RevokePc
    BY <1>4, <1>5 DEF RevokePc, Cutting
  <2>5. QED
    BY <1>1, <1>5, <2>2, <2>3, <2>4 DEF Owned, Same
<1>12. ASSUME NEW d \in Devices, Serves(worker[w], d)
       PROVE  Serves(j, d)
  <2>1. ASSUME j.dev = d, Holding(j) PROVE Homed(j.got["normal"].login)
    <3>1. CASE Part(w) = "normal"
      <4>1. pc = "linking"
        BY <1>4, <1>5, <1>9, <2>1, <3>1 DEF Holding
      <4>2. m.login = Read(w).login /\ Read(w).status = "active"
        BY <1>4, <4>1
      <4>3. Homed(Read(w).login)
        BY <1>1, <1>5, <1>9, <1>12, <2>1, <3>1, <4>2 DEF Serves, Same, Read
      <4>4. QED
        BY <1>5, <1>7, <1>9, <3>1, <4>2, <4>3
    <3>2. CASE Part(w) = "away"
      <4>1. Homed(worker[w].got["normal"].login)
        BY <1>1, <1>5, <1>9, <1>12, <2>1, <3>2 DEF Serves, Same, Holding
      <4>2. j.got["normal"] = worker[w].got["normal"]
        BY <1>5, <1>7, <1>9, <3>2
      <4>3. QED
        BY <4>1, <4>2
    <3>3. QED
      BY <1>9, <3>1, <3>2
  <2>2. j.pc \in {"linking", "dropping", "counting"}
    BY <1>4, <1>5
  <2>3. j.dev # d => Fine(d)
    BY <1>5, <1>12 DEF Serves, Same
  <2>4. QED
    BY <2>1, <2>2, <2>3 DEF Serves, MapPc, Cutting
<1>13. ASSUME NEW d \in Devices, Ends(worker[w], d)
       PROVE  Ends(j, d)
  BY <1>1, <1>4, <1>5, <1>13 DEF Ends, Same, Cutting
<1>14. QED
  BY <1>1, <1>5, <1>6, <1>8, <1>10, <1>11, <1>12, <1>13, MindedSame, Inert

(* The away profile of a device whose normal one has its client.           *)
LEMMA AwaySerial ==
  ASSUME IInv, SInv, NEW w \in Workers, SelectAway(w)
  PROVE  SInv'
<1>1. /\ Working(w) /\ worker[w] \in Job
      /\ Stages(worker[w]) /\ Owned(place, worker[w])
      /\ UNCHANGED <<provision, conf, access, place, live, met>>
      /\ worker[w].pc = "away" /\ worker[w].part = "normal"
      /\ "normal" \in Parts
  BY AtStep DEF SelectAway, At, panel, history, Stages
<1>2. ASSUME NEW d \in Devices, Serves(worker[w], d), worker[w].dev = d
      PROVE  Homed(worker[w].got["normal"].login)
  BY <1>1, <1>2 DEF Serves, Holding
<1>3. CASE Goto(w, "readying")
  <2>1. "readying" \in Pc
    BY DEF Pc
  <2>2. PICK j : /\ worker' = [worker EXCEPT ![w] = j] /\ j # Idle
                 /\ Same(j, worker[w]) /\ j.got = worker[w].got
                 /\ j.pc = "readying" /\ j.part = worker[w].part
    BY <1>1, <1>3, <2>1, GoneJob
  <2>3. Stages(j) /\ Owned(place, j)
    BY <1>1, <2>2 DEF Stages, Owned, Same, RevokePc, MapPc, Cutting
  <2>4. ASSUME NEW d \in Devices, Serves(worker[w], d)
        PROVE  Serves(j, d)
    BY <1>1, <1>2, <2>2, <2>4 DEF Serves, Same, Holding, MapPc, Cutting
  <2>5. ASSUME NEW d \in Devices, Ends(worker[w], d)
        PROVE  Ends(j, d)
    BY <1>1, <2>2, <2>5 DEF Ends, Same, Cutting
  <2>6. QED
    BY <1>1, <2>2, <2>3, <2>4, <2>5, MindedSame, Inert
<1>4. ASSUME NEW n \in AwayNodes,
             worker' = [worker EXCEPT ![w] =
               [@ EXCEPT !.pc = "selecting",
                         !.part = "away",
                         !.got["away"] = [NoMaterial EXCEPT !.node = n]]]
      PROVE  SInv'
  <2> DEFINE m == [NoMaterial EXCEPT !.node = n]
             got == [worker[w].got EXCEPT !["away"] = m]
             j == [worker[w] EXCEPT !.pc = "selecting", !.part = "away",
                                    !.got = got]
  <2>1. m.login = None
    BY DEF NoMaterial
  <2>2. /\ Same(j, worker[w]) /\ j.got = got /\ j.pc = "selecting"
        /\ j.part = "away"
    BY <1>1 DEF Job, Same
  <2>3. worker' = [worker EXCEPT ![w] = j]
    BY <1>4
  <2> HIDE DEF m
  <2>4. /\ \A p \in Parts \ {"away"} : got[p] = worker[w].got[p]
        /\ "away" \in Parts => got["away"] = m
    BY <1>1 DEF Job
  <2> HIDE DEF j, got
  <2>5. j # Idle
    BY <2>2 DEF Idle
  <2>6. Stages(j)
    BY <1>1, <2>2 DEF Stages, Same, RevokePc, MapPc, Cutting
  <2>7. j.got["normal"] = worker[w].got["normal"]
    BY <1>1, <2>2, <2>4
  <2>8. Owned(place, j)
    <3>1. \A p \in Parts : Belongs(place, <<j.dev, p>>, j.got[p].login)
      BY <1>1, <2>1, <2>2, <2>4 DEF Owned, Same, Belongs
    <3>2. j.pc \notin RevokePc
      BY <2>2 DEF RevokePc, Cutting
    <3>3. QED
      BY <1>1, <2>2, <2>7, <3>1, <3>2 DEF Owned, Same
  <2>9. ASSUME NEW d \in Devices, Serves(worker[w], d)
        PROVE  Serves(j, d)
    BY <1>1, <1>2, <2>2, <2>7, <2>9 DEF Serves, Same, Holding, MapPc, Cutting
  <2>10. ASSUME NEW d \in Devices, Ends(worker[w], d)
         PROVE  Ends(j, d)
    BY <1>1, <2>2, <2>10 DEF Ends, Same, Cutting
  <2>11. QED
    BY <1>1, <2>2, <2>3, <2>5, <2>6, <2>8, <2>9, <2>10, MindedSame, Inert
<1>5. QED
  BY <1>3, <1>4 DEF SelectAway

(* A step that is about the handler's own device, or about none.           *)
LEMMA OwnStep ==
  ASSUME IInv, SInv, NEW w \in Workers, Working(w), NEW j,
         worker' = [worker EXCEPT ![w] = j], met' = met,
         worker[w].kind # "pay",
         \A k \in Keys : Belongs(place', k, access'[k].login),
         \A v \in Workers \ {w} : Working(v) => Owned(place', worker[v]),
         j # Idle => /\ Stages(j) /\ Owned(place', j)
                     /\ Minded(j) = Minded(worker[w]),
         \A d \in Devices \ {worker[w].dev} : Kept(d),
         \A d \in Devices :
           /\ d \in Minded(worker[w])
           /\ Serves(worker[w], d) /\ Ends(worker[w], d)
           => Promised(j, d)'
  PROVE  SInv'
<1>1. \A d \in Devices \ Minded(worker[w]) : d # worker[w].dev
  BY DEF Minded
<1>2. \A d \in Devices \ Minded(worker[w]) : Kept(d)
  BY <1>1
<1>3. \A d \in Devices \ met' : d \in Minded(worker[w]) => Promised(j, d)'
  BY DEF SInv, Minds
<1>4. QED
  BY <1>2, <1>3, Stepped

(* The job a handler starts with.                                          *)
LEMMA RunJob ==
  ASSUME NEW pc, NEW kind, NEW devs, NEW d, pc # "idle"
  PROVE  LET j == Run(pc, kind, devs, d)
         IN  /\ j # Idle /\ j.pc = pc /\ j.kind = kind /\ j.devs = devs
             /\ j.dev = d /\ j.part = "normal"
             /\ j.st = IF kind = "sync" THEN provision ELSE "active"
             /\ \A k \in Keys : j.rows[k].login = None
             /\ \A p \in Parts : j.got[p] = NoMaterial
BY DEF Run, Idle, Unread

(* A handler that starts finds the devices it minds alone at rest.         *)
LEMMA Begun ==
  ASSUME IInv, SInv, NEW w \in Workers, ~ Working(w), NEW j, j # Idle,
         worker' = [worker EXCEPT ![w] = j],
         met' = met \cup {d \in Minded(j) : \E v \in Workers : Minds(v, d)},
         UNCHANGED <<conf, access, place, live>>,
         Stages(j), Owned(place, j),
         \A d \in Devices \ Minded(j) : Over' => Over,
         \A d \in Devices : d \in Minded(j) /\ Rests(d)
                            => Serves(j, d)' /\ Ends(j, d)'
  PROVE  SInv'
<1>1. /\ worker'[w] = j
      /\ \A v \in Workers \ {w} : worker'[v] = worker[v]
  BY DEF IInv
<1>2. \A v \in Workers \ {w} : \A d : Minds(v, d)' <=> Minds(v, d)
  BY <1>1 DEF Minds, Working
<1>3. \A d : Minds(w, d)' <=> d \in Minded(j)
  BY <1>1 DEF Minds, Working
<1>4. \A d : ~ Minds(w, d)
  BY DEF Minds
<1>5. ASSUME NEW v \in Workers, Working(v)'
      PROVE  (Stages(worker[v]) /\ Owned(place, worker[v]))'
  <2>1. CASE v = w
    BY <1>1, <1>5, <2>1 DEF Stages, Owned
  <2>2. CASE v # w
    <3>1. worker'[v] = worker[v] /\ Working(v)
      BY <1>1, <1>5, <2>2 DEF Working
    <3>2. Stages(worker[v]) /\ Owned(place, worker[v])
      BY <2>2, <3>1 DEF SInv
    <3>3. QED
      BY <3>1, <3>2 DEF Stages, Owned
  <2>3. QED
    BY <2>1, <2>2
<1>6. ASSUME NEW d \in Devices, d \notin met', d \in Minded(j)
      PROVE  /\ d \notin met /\ Rests(d)
             /\ \A v \in Workers \ {w} : ~ Minds(v, d)'
  <2>1. d \notin met /\ \A v \in Workers : ~ Minds(v, d)
    BY <1>6
  <2>2. Rests(d)
    BY <2>1 DEF SInv, Alone
  <2>3. QED
    BY <1>2, <2>1, <2>2
<1>7. ASSUME NEW d \in Devices, d \notin Minded(j)
      PROVE  Kept(d)
  BY <1>7 DEF Kept, Homed
<1>8. ASSUME NEW d \in Devices, d \notin met',
             NEW u \in Workers, NEW v \in Workers, Minds(u, d)', Minds(v, d)'
      PROVE  u = v
  <2>1. CASE d \in Minded(j)
    BY <1>6, <1>8, <2>1
  <2>2. CASE d \notin Minded(j)
    BY <1>2, <1>3, <1>8, <2>2 DEF SInv
  <2>3. QED
    BY <2>1, <2>2
<1>9. ASSUME NEW d \in Devices, d \notin met', NEW v \in Workers, Minds(v, d)'
      PROVE  (Serves(worker[v], d) /\ Ends(worker[v], d))'
  <2>1. CASE v = w
    <3>1. d \in Minded(j)
      BY <1>3, <1>9, <2>1
    <3>2. Serves(j, d)' /\ Ends(j, d)'
      BY <1>6, <1>9, <3>1
    <3>3. worker'[v] = j
      BY <1>1, <2>1
    <3>4. Serves(worker[v], d)'
      BY ONLY <3>2, <3>3 DEF Serves, Fine, Homed, Holding
    <3>5. Ends(worker[v], d)'
      BY ONLY <3>2, <3>3 DEF Ends
    <3>6. QED
      BY <3>4, <3>5
  <2>2. CASE v # w
    <3>1. worker'[v] = worker[v] /\ Minds(v, d) /\ d \notin met
      BY <1>1, <1>2, <1>9, <2>2
    <3>2. d \notin Minded(j) /\ Working(v)
      BY <1>6, <1>9, <2>2, <3>1 DEF Minds
    <3>3. Kept(d)
      BY <1>7, <3>2
    <3>4. PICK h : h = worker[v]
      OBVIOUS
    <3>5. Owned(place, h) /\ Serves(h, d) /\ Ends(h, d)
      BY <3>1, <3>2, <3>4 DEF SInv
    <3>6. Serves(h, d)' /\ Ends(h, d)'
      BY <3>3, <3>5, KeptPromise
    <3>7. QED
      BY <3>1, <3>4, <3>6 DEF Serves, Ends, Fine, Homed, Over, Holding
  <2>3. QED
    BY <2>1, <2>2
<1>10. ASSUME NEW d \in Devices, Alone(d)'
       PROVE  Rests(d)'
  <2>1. d \notin met' /\ d \notin met /\ \A v \in Workers : ~ Minds(v, d)'
    BY <1>10 DEF Alone
  <2>2. d \notin Minded(j)
    BY <1>3, <2>1
  <2>3. Alone(d)
    BY <1>2, <1>4, <2>1 DEF Alone
  <2>4. Rests(d) /\ Kept(d)
    BY <1>7, <2>2, <2>3 DEF SInv
  <2>5. QED
    BY <2>4, KeptFine
<1>11. \A k \in Keys : Belongs(place', k, access'[k].login)
  BY DEF SInv
<1>12. QED
  BY <1>5, <1>8, <1>9, <1>10, <1>11 DEF SInv

(* Starting; some handlers mark the provision first.                       *)
LEMMA BeginSerial ==
  ASSUME IInv, SInv, NEW w \in Workers, Begin(w)
  PROVE  SInv'
<1>1. /\ ~ Working(w) /\ UNCHANGED <<conf, access, place, live>>
  BY DEF Begin, StartSync, StartRevoke, StartSuspend, StartDelete, StartPay,
         Start, panel
<1>2. NoMaterial.login = None /\ NoMaterial.node = Home /\ "normal" \in Parts
  BY AccessAssumption DEF NoMaterial
<1>3. ASSUME NEW pc \in {"reading", "revoking", "paying"}, NEW kind,
             NEW devs, NEW d \in Devices, Start(w, Run(pc, kind, devs, d)),
             pc = "reading" => kind = "sync",
             pc = "revoking" => kind \in {"revoke", "suspend", "delete"},
             pc = "paying" => kind = "pay",
             kind = "revoke" => devs = {d},
             kind \in {"suspend", "delete"} => devs = Devices,
             kind # "suspend" /\ Over' => Over
      PROVE  SInv'
  <2>1. PICK j :
        /\ j = Run(pc, kind, devs, d)
        /\ j # Idle /\ j.pc = pc /\ j.kind = kind /\ j.devs = devs
        /\ j.dev = d /\ j.part = "normal"
        /\ j.st = IF kind = "sync" THEN provision ELSE "active"
        /\ \A k \in Keys : j.rows[k].login = None
        /\ \A p \in Parts : j.got[p] = NoMaterial
    BY <1>3, RunJob
  <2>2. /\ worker' = [worker EXCEPT ![w] = j]
        /\ met' = met \cup {e \in Minded(j) : \E v \in Workers : Minds(v, e)}
    BY <1>3, <2>1 DEF Start, Meet
  <2>3. Stages(j)
    BY <1>3, <2>1 DEF Stages, RevokePc, MapPc, Cutting
  <2>4. Owned(place, j)
    BY <1>2, <2>1 DEF Owned, Belongs
  <2>5. j.pc \in {"reading", "revoking", "paying"}
    BY <1>3, <2>1
  <2>6. ASSUME NEW e \in Devices, Rests(e)
        PROVE  Serves(j, e)'
    <3>1. Fine(e)'
      BY <1>1, <2>6 DEF Rests, Fine, Homed
    <3>2. QED
      BY <1>3, <2>1, <2>5, <3>1 DEF Serves, Holding, MapPc, Cutting
  <2>7. ASSUME NEW e \in Devices, e \in Minded(j), Rests(e)
        PROVE  Ends(j, e)'
    <3>1. conf'[e] = conf[e] /\ (Over => conf[e] # "ready")
      BY <1>1, <2>7 DEF Rests
    <3>2. j.pc \notin {"marking", "closing config"} \cup Cutting
      BY <2>5 DEF Cutting
    <3>3. kind = "sync" /\ Over => j.st # "active"
      BY <2>1 DEF Over
    <3>4. QED
      BY <1>3, <2>1, <3>1, <3>2, <3>3 DEF Ends
  <2>8. ASSUME NEW e \in Devices \ Minded(j), Over'
        PROVE  Over
    BY <1>3, <2>1, <2>8 DEF Minded
  <2>9. QED
    BY <1>1, <2>1, <2>2, <2>3, <2>4, <2>6, <2>7, <2>8, Begun
<1>4. ASSUME NEW d \in Devices, StartSync(w, d)
      PROVE  SInv'
  BY <1>3, <1>4 DEF StartSync, Over
<1>5. ASSUME NEW d \in Devices, StartRevoke(w, d)
      PROVE  SInv'
  BY <1>3, <1>5 DEF StartRevoke, Over
<1>6. CASE StartSuspend(w)
  BY <1>3, <1>6 DEF StartSuspend
<1>7. CASE StartDelete(w)
  BY <1>3, <1>7 DEF StartDelete, Over
<1>8. CASE StartPay(w)
  BY <1>3, <1>8 DEF StartPay, Over
<1>9. QED
  BY <1>4, <1>5, <1>6, <1>7, <1>8 DEF Begin

(* The status of the subscription moves; the devices are as they were.     *)
LEMMA StatusSerial ==
  ASSUME IInv, SInv, NEW w \in Workers, Pay(w) \/ MarkDeleted(w)
  PROVE  SInv'
<1> USE DEF Pay, Activate, PayFails, PayEnds, MarkDeleted
<1>1. /\ Working(w) /\ worker[w] \in Job
      /\ Stages(worker[w]) /\ Owned(place, worker[w])
      /\ UNCHANGED <<conf, access, place, live, met>>
      /\ \A k \in Keys : Belongs(place', k, access'[k].login)
  BY AtStep DEF At, panel, history
<1>2. \A v \in Workers \ {w} : Working(v) => Owned(place', worker[v])
  BY <1>1 DEF SInv
<1>3. CASE Pay(w)
  <2>1. worker[w].kind = "pay" /\ Minded(worker[w]) = {}
    BY <1>1, <1>3 DEF Stages, At, Minded
  <2>2. \A d \in Devices : Kept(d)
    BY <1>1, <1>3 DEF Kept, Homed, Over
  <2>3. CASE Activate(w)
    <3>1. Goto(w, "paid") /\ worker[w].pc = "paying" /\ "paid" \in Pc
      BY <2>3 DEF At, Pc
    <3>2. PICK j : /\ worker' = [worker EXCEPT ![w] = j] /\ j # Idle
                   /\ Same(j, worker[w]) /\ j.got = worker[w].got
                   /\ j.pc = "paid" /\ j.part = worker[w].part
      BY <1>1, <3>1, GoneJob
    <3>3. Stages(j)
      BY <1>1, <2>1, <3>2 DEF Stages, Same, RevokePc, MapPc, Cutting
    <3>4. Owned(place', j)
      BY <1>1, <3>2 DEF Owned, Same, RevokePc, Cutting
    <3>5. Minded(j) = Minded(worker[w])
      BY <3>2, MindedSame
    <3>6. QED
      BY <1>1, <1>2, <2>1, <2>2, <3>2, <3>3, <3>4, <3>5, Stepped
  <2>4. CASE Leave(w)
    <3>1. PICK j : j = Idle /\ worker' = [worker EXCEPT ![w] = j]
      BY <2>4 DEF Leave
    <3>2. QED
      BY <1>1, <1>2, <2>1, <2>2, <3>1, Stepped
  <2>5. QED
    BY <1>3, <2>3, <2>4
<1>4. CASE MarkDeleted(w)
  <2>1. /\ worker[w].kind = "delete" /\ worker[w].pc = "marking"
        /\ Minded(worker[w]) = Devices
    BY <1>1, <1>4 DEF Stages, At, Minded
  <2>2. PICK j : j = Idle /\ worker' = [worker EXCEPT ![w] = j]
    BY <1>4 DEF Leave
  <2>3. ASSUME NEW d \in Devices \ met'
        PROVE  Promised(j, d)'
    <3>1. Serves(worker[w], d) /\ Ends(worker[w], d)
      BY <1>1, <2>1, <2>3 DEF SInv, Minds
    <3>2. Fine(d) /\ conf[d] # "ready"
      BY <2>1, <3>1 DEF Serves, Ends
    <3>3. Fine(d)' /\ conf'[d] # "ready"
      BY <1>1, <3>2 DEF Fine, Homed
    <3>4. QED
      BY <2>2, <3>3 DEF Promised, Rests
  <2>4. QED
    BY <1>1, <1>2, <2>1, <2>2, <2>3, Stepped
<1>5. QED
  BY <1>3, <1>4

(* A config saved by w is its device's.                                    *)
LEMMA ConfApart ==
  ASSUME IInv, NEW w \in Workers, worker[w].pc # "idle", NEW status,
         NEW e, e = worker[w].dev,
         SetConf(w, status), UNCHANGED <<provision, access, place, live>>
  PROVE  /\ e \in Devices /\ conf'[e] = status
         /\ \A d \in Devices \ {e} : Kept(d)
         /\ \A l : Homed(l)' <=> Homed(l)
         /\ status # "ready" /\ Fine(e) => Fine(e)'
<1>1. e \in Devices /\ conf \in [Devices -> ConfStatus]
  BY Jobs DEF Dev, IInv, TypeOK
<1>2. conf' = [conf EXCEPT ![e] = status]
  BY DEF SetConf, Dev
<1>3. conf'[e] = status /\ \A d \in Devices \ {e} : conf'[d] = conf[d]
  BY <1>1, <1>2
<1>4. \A l : Homed(l)' <=> Homed(l)
  BY DEF Homed
<1>5. \A d \in Devices \ {e} : Kept(d)
  BY <1>3, <1>4 DEF Kept, Over
<1>6. status # "ready" /\ Fine(e) => Fine(e)'
  BY <1>3, <1>4 DEF Fine, Homed
<1>7. QED
  BY <1>1, <1>3, <1>4, <1>5, <1>6

(* A config saved on the way: ready only with a client for its access.     *)
LEMMA ConfSerial ==
  ASSUME IInv, SInv, NEW w \in Workers,
         MapConfig(w) \/ Ready(w) \/ FailConfig(w)
  PROVE  SInv'
<1>1. /\ Working(w) /\ worker[w] \in Job
      /\ Stages(worker[w]) /\ Owned(place, worker[w])
      /\ UNCHANGED <<provision, access, place, live, met>>
      /\ worker[w].pc \in {"mapping", "readying", "failing"}
      /\ \A k \in Keys : Belongs(place', k, access'[k].login)
      /\ Fits(worker[w])
  BY AtStep, Jobs DEF MapConfig, Ready, FailConfig, At, panel, history
<1>2. worker[w].part = "normal" /\ worker[w].kind = "sync"
  BY <1>1 DEF Stages, RevokePc, Cutting
<1>3. \A v \in Workers \ {w} : Working(v) => Owned(place', worker[v])
  BY <1>1 DEF SInv
<1>4. ASSUME NEW pc \in Pc, NEW status, SetConf(w, status), Goto(w, pc),
             \/ /\ worker[w].pc = "mapping" /\ pc = "mapping access"
                /\ status # "ready"
             \/ worker[w].pc = "readying" /\ pc = "granting"
             \/ /\ worker[w].pc = "failing" /\ pc = "failing access"
                /\ status # "ready"
      PROVE  SInv'
  <2>1. PICK j : /\ worker' = [worker EXCEPT ![w] = j] /\ j # Idle
                 /\ Same(j, worker[w]) /\ j.got = worker[w].got
                 /\ j.pc = pc /\ j.part = worker[w].part
    BY <1>1, <1>4, GoneJob
  <2>2. j.dev = worker[w].dev /\ j.kind = "sync" /\ j.st = worker[w].st
    BY <1>2, <2>1 DEF Same
  <2>3. /\ j.dev \in Devices /\ conf'[j.dev] = status
        /\ \A d \in Devices \ {j.dev} : Kept(d)
        /\ \A l : Homed(l)' <=> Homed(l)
        /\ status # "ready" /\ Fine(j.dev) => Fine(j.dev)'
    BY <1>1, <1>4, <2>2, ConfApart
  <2>4. Stages(j)
    BY <1>1, <1>2, <1>4, <2>1 DEF Stages, Same, RevokePc, MapPc, Cutting
  <2>5. Owned(place', j)
    BY <1>1, <1>4, <2>1 DEF Owned, Same, RevokePc, Cutting
  <2>6. ASSUME NEW d \in Devices, d \in Minded(worker[w]),
               Serves(worker[w], d), Ends(worker[w], d)
        PROVE  Promised(j, d)'
    <3>1. d = j.dev
      BY <1>2, <2>2, <2>6 DEF Minded
    <3>2. j.pc = "mapping access" => Fine(d)'
      BY <1>1, <1>4, <2>1, <2>2, <2>3, <2>6, <3>1 DEF Serves, MapPc
    <3>3. j.pc \in {"mapping access", "failing access"} => conf'[d] # "ready"
      BY <1>4, <2>1, <2>3, <3>1
    <3>4. Holding(j) => Homed(j.got["normal"].login)'
      <4>1. Holding(j) => Holding(worker[w])
        BY <1>2, <1>4, <2>1 DEF Holding
      <4>2. QED
        BY <2>1, <2>2, <2>3, <2>6, <3>1, <4>1 DEF Serves
    <3>5. j.pc \in {"mapping access", "granting", "failing access"}
      BY <1>4, <2>1
    <3>6. Serves(j, d)'
      BY <3>1, <3>2, <3>3, <3>4, <3>5 DEF Serves, Holding, MapPc, Cutting
    <3>7. ASSUME Over'
          PROVE  j.st # "active" /\ conf'[d] # "ready"
      <4>1. Over /\ worker[w].st # "active" /\ conf[d] # "ready"
        BY <1>1, <1>2, <2>6, <3>7 DEF Over, Ends
      <4>2. worker[w].pc = "mapping"
        BY <1>1, <1>2, <4>1 DEF Stages, MapPc
      <4>3. QED
        BY <1>4, <2>2, <2>3, <3>1, <4>1, <4>2
    <3>8. Ends(j, d)'
      BY <2>2, <3>5, <3>7 DEF Ends
    <3>9. QED
      BY <2>1, <3>6, <3>8 DEF Promised
  <2>7. Minded(j) = Minded(worker[w])
    BY <2>1, MindedSame
  <2>8. QED
    BY <1>1, <1>2, <1>3, <2>1, <2>2, <2>3, <2>4, <2>5, <2>6, <2>7, OwnStep
<1>5. CASE MapConfig(w)
  <2>1. worker[w].st \in ProvisionStatus \ {"active"}
    BY <1>1, <1>5 DEF MapConfig, At, Fits, Job
  <2>2. mapDeviceStatus[worker[w].st] # "ready"
    BY <2>1 DEF mapDeviceStatus, ProvisionStatus
  <2>3. "mapping access" \in Pc
    BY DEF Pc
  <2>4. QED
    BY <1>4, <1>5, <2>2, <2>3 DEF MapConfig, At
<1>6. CASE Ready(w)
  BY <1>4, <1>6 DEF Ready, At, Pc
<1>7. CASE FailConfig(w)
  BY <1>4, <1>7 DEF FailConfig, At, Pc
<1>8. QED
  BY <1>5, <1>6, <1>7

(* A row saved by w is its device's: another device stays as it is.        *)
LEMMA RowApart ==
  ASSUME IInv, SInv, NEW w \in Workers, worker[w].pc # "idle",
         NEW e, e = worker[w].dev, NEW part \in Parts, NEW r,
         Belongs(place, <<e, part>>, r.login),
         Save(w, part, r), UNCHANGED <<provision, conf, place, live>>
  PROVE  /\ e \in Devices /\ access'[<<e, part>>] = r
         /\ \A k \in Keys : Belongs(place', k, access'[k].login)
         /\ \A d \in Devices \ {e} : Kept(d)
         /\ \A l : Homed(l)' <=> Homed(l)
         /\ part # "normal" => Kept(e)
<1>1. /\ e \in Devices /\ <<e, part>> \in Keys
      /\ access \in [Keys -> Row] /\ "normal" \in Parts
  BY Jobs, AccessAssumption DEF Dev, IInv, TypeOK, Keys
<1>2. access' = [access EXCEPT ![<<e, part>>] = r]
  BY DEF Save, Dev
<1>3. /\ access'[<<e, part>>] = r
      /\ \A k \in Keys \ {<<e, part>>} : access'[k] = access[k]
  BY <1>1, <1>2
<1>4. \A l : Homed(l)' <=> Homed(l)
  BY DEF Homed
<1>5. \A d \in Devices : <<d, "normal">> \in Keys
  BY <1>1 DEF Keys
<1>6. \A d \in Devices : d # e \/ part # "normal" =>
        access'[<<d, "normal">>] = access[<<d, "normal">>]
  BY <1>3, <1>5
<1>7. \A d \in Devices : d # e \/ part # "normal" => Kept(d)
  BY <1>4, <1>6 DEF Kept, Over
<1>8. \A k \in Keys : Belongs(place', k, access'[k].login)
  BY <1>3 DEF SInv
<1>9. QED
  BY <1>1, <1>3, <1>4, <1>7, <1>8

(* A handler that saves its device's row last leaves the device at rest.   *)
LEMMA LastRow ==
  ASSUME IInv, SInv, NEW w \in Workers,
         MapAccess(w) \/ Grant(w) \/ FailAccess(w)
  PROVE  SInv'
<1>1. /\ Working(w) /\ worker[w] \in Job
      /\ Stages(worker[w]) /\ Owned(place, worker[w])
      /\ UNCHANGED <<provision, conf, place, live, met>> /\ Leave(w)
      /\ worker[w].pc \in {"mapping access", "granting", "failing access"}
      /\ Fits(worker[w]) /\ "normal" \in Parts
      /\ Read(w) \in Row /\ Got(w) \in Material
  BY AtStep, Jobs DEF MapAccess, Grant, FailAccess, At, panel, history
<1>2. /\ worker[w].part = "normal" /\ Part(w) = "normal"
      /\ worker[w].kind = "sync"
  BY <1>1 DEF Stages, RevokePc, Cutting, Part
<1>3. PICK e : e = worker[w].dev
  OBVIOUS
<1>4. e \in Devices /\ <<e, "normal">> \in Keys
  BY <1>1, <1>3 DEF Job, Keys
<1>5. /\ Read(w) = worker[w].rows[<<e, "normal">>]
      /\ Got(w) = worker[w].got["normal"]
  BY <1>2, <1>3 DEF Read, Got, Dev, Part
<1>6. \E r : /\ Save(w, "normal", r)
             /\ Belongs(place, <<e, "normal">>, r.login)
             /\ Serves(worker[w], e) =>
                  /\ r.status = "active" => Homed(r.login)
                  /\ conf[e] = "ready" => r.status = "active"
  <2>1. Belongs(place, <<e, "normal">>, Read(w).login)
    BY <1>1, <1>4, <1>5 DEF Owned
  <2>2. CASE MapAccess(w)
    <3> DEFINE r == [Read(w) EXCEPT
                       !.status = mapProviderStatus[worker[w].st]]
    <3>1. worker[w].st \in ProvisionStatus \ {"active"}
      BY <1>1, <2>2 DEF MapAccess, At, Fits, Job
    <3>2. mapProviderStatus[worker[w].st] # "active"
      BY <3>1 DEF mapProviderStatus, ProvisionStatus
    <3>3. r.login = Read(w).login /\ r.status # "active"
      BY <1>1, <3>2 DEF Row
    <3>4. Serves(worker[w], e) => conf[e] # "ready"
      BY <1>3, <2>2 DEF MapAccess, At, Serves
    <3>5. Save(w, "normal", r)
      BY <2>2 DEF MapAccess
    <3> HIDE DEF r
    <3>6. QED
      BY <2>1, <3>3, <3>4, <3>5
  <2>3. CASE FailAccess(w)
    <3> DEFINE r == [Read(w) EXCEPT !.status = "failed"]
    <3>1. r.login = Read(w).login /\ r.status = "failed"
      BY <1>1 DEF Row
    <3>2. Serves(worker[w], e) => conf[e] # "ready"
      BY <1>3, <2>3 DEF FailAccess, At, Serves
    <3>3. Save(w, "normal", r)
      BY <2>3 DEF FailAccess
    <3> HIDE DEF r
    <3>4. QED
      BY <2>1, <3>1, <3>2, <3>3
  <2>4. CASE Grant(w)
    <3>1. Granted(w).login = Got(w).login /\ Granted(w).status = "active"
      BY DEF Granted
    <3>2. Belongs(place, <<e, "normal">>, Got(w).login)
      BY <1>1, <1>3, <1>5 DEF Owned
    <3>3. Serves(worker[w], e) => Homed(Got(w).login)
      BY <1>2, <1>3, <1>5, <2>4 DEF Grant, At, Serves, Holding
    <3>4. Save(w, "normal", Granted(w))
      BY <2>4 DEF Grant
    <3>5. QED
      BY <3>1, <3>2, <3>3, <3>4
  <2>5. QED
    BY <2>2, <2>3, <2>4
<1>7. PICK r : /\ Save(w, "normal", r)
               /\ Belongs(place, <<e, "normal">>, r.login)
               /\ Serves(worker[w], e) =>
                    /\ r.status = "active" => Homed(r.login)
                    /\ conf[e] = "ready" => r.status = "active"
  BY <1>6
<1>8. /\ access'[<<e, "normal">>] = r
      /\ \A k \in Keys : Belongs(place', k, access'[k].login)
      /\ \A d \in Devices \ {e} : Kept(d)
      /\ \A l : Homed(l)' <=> Homed(l)
  <2>1. worker[w].pc # "idle" /\ UNCHANGED <<provision, conf, place, live>>
    BY <1>1
  <2>2. /\ "normal" \in Parts /\ Belongs(place, <<e, "normal">>, r.login)
        /\ Save(w, "normal", r)
    BY <1>1, <1>7
  <2>3. QED
    BY <1>3, <2>1, <2>2, RowApart
<1>9. \A v \in Workers \ {w} : Working(v) => Owned(place', worker[v])
  BY <1>1 DEF SInv
<1>10. PICK j : j = Idle /\ worker' = [worker EXCEPT ![w] = j]
  BY <1>1 DEF Leave
<1>11. ASSUME NEW d \in Devices, d \in Minded(worker[w]),
              Serves(worker[w], d), Ends(worker[w], d)
       PROVE  Promised(j, d)'
  <2>1. d = e
    BY <1>2, <1>3, <1>11 DEF Minded
  <2>2. Fine(d)'
    BY <1>1, <1>7, <1>8, <1>11, <2>1 DEF Fine, Homed
  <2>3. Over' => conf'[d] # "ready"
    BY <1>1, <1>2, <1>11 DEF Over, Ends
  <2>4. QED
    BY <1>10, <2>2, <2>3 DEF Promised, Rests
<1>12. QED
  BY <1>1, <1>2, <1>3, <1>8, <1>9, <1>10, <1>11, OwnStep

(* The away profile's row is not the normal one's.                         *)
LEMMA SaveAwaySerial ==
  ASSUME IInv, SInv, NEW w \in Workers, SaveAway(w)
  PROVE  SInv'
<1>1. /\ Working(w) /\ worker[w] \in Job
      /\ Stages(worker[w]) /\ Owned(place, worker[w])
      /\ UNCHANGED <<provision, conf, place, live, met>>
      /\ worker[w].pc = "saving away" /\ EndPart(w, "away")
      /\ Save(w, "away", Granted(w)) /\ "normal" \in Parts /\ "away" \in Parts
  BY AtStep, Jobs DEF SaveAway, At, panel, history, Fits
<1>2. worker[w].part = "away" /\ worker[w].kind = "sync"
  BY <1>1 DEF Stages, RevokePc, Cutting
<1>3. PICK j : /\ worker' = [worker EXCEPT ![w] = j] /\ j # Idle
               /\ Same(j, worker[w])
               /\ j.got["away"] = NoMaterial
               /\ \A p \in Parts \ {"away"} : j.got[p] = worker[w].got[p]
               /\ j.pc = "readying" /\ j.part = "normal"
  BY <1>1, PartJob
<1>4. j.dev = worker[w].dev
  BY <1>3 DEF Same
<1>5. Belongs(place, <<j.dev, "away">>, Granted(w).login)
  BY <1>1, <1>2, <1>4 DEF Owned, Granted, Got, Part
<1>6. /\ j.dev \in Devices
      /\ \A k \in Keys : Belongs(place', k, access'[k].login)
      /\ \A d \in Devices \ {j.dev} : Kept(d)
      /\ Kept(j.dev)
  BY <1>1, <1>4, <1>5, RowApart
<1>7. Stages(j)
  BY <1>1, <1>2, <1>3 DEF Stages, Same, RevokePc, MapPc, Cutting
<1>8. j.got["normal"] = worker[w].got["normal"]
  BY <1>1, <1>3
<1>9. Owned(place, j)
  <2>1. \A p \in Parts : Belongs(place, <<j.dev, p>>, j.got[p].login)
    <3>1. Belongs(place, <<j.dev, "away">>, j.got["away"].login)
      BY <1>3 DEF NoMaterial, Belongs
    <3>2. \A p \in Parts : Belongs(place, <<j.dev, p>>, worker[w].got[p].login)
      BY <1>1, <1>4 DEF Owned
    <3>3. QED
      BY <1>3, <3>1, <3>2
  <2>2. j.pc \notin RevokePc
    BY <1>3 DEF RevokePc, Cutting
  <2>3. QED
    BY <1>1, <1>3, <1>8, <2>1, <2>2 DEF Owned, Same
<1>10. ASSUME NEW d \in Devices, d \in Minded(worker[w]),
              Serves(worker[w], d), Ends(worker[w], d)
       PROVE  Promised(j, d)'
  <2>1. d = j.dev /\ Kept(d)
    BY <1>2, <1>4, <1>6, <1>10 DEF Minded
  <2>2. Holding(worker[w])
    BY <1>1, <1>2 DEF Holding
  <2>3. Homed(j.got["normal"].login)
    BY <1>4, <1>8, <1>10, <2>1, <2>2 DEF Serves
  <2>4. Serves(j, d)
    BY <1>3, <2>1, <2>3 DEF Serves, MapPc, Cutting
  <2>5. Ends(j, d)
    BY <1>2, <1>3, <1>10 DEF Ends, Same, Cutting
  <2>6. Serves(j, d)' /\ Ends(j, d)'
    BY <1>9, <2>1, <2>4, <2>5, KeptPromise
  <2>7. QED
    BY <1>3, <2>6 DEF Promised
<1>11. \A v \in Workers \ {w} : Working(v) => Owned(place', worker[v])
  BY <1>1 DEF SInv
<1>12. Owned(place', j) /\ Minded(j) = Minded(worker[w])
  BY <1>1, <1>3, <1>9, MindedSame
<1>13. QED
  BY <1>1, <1>2, <1>3, <1>4, <1>6, <1>7, <1>10, <1>11, <1>12, OwnStep

(* A revoked access is not active, and keeps its client's device and part.  *)
LEMMA CloseAccessSerial ==
  ASSUME IInv, SInv, NEW w \in Workers, CloseAccess(w)
  PROVE  SInv'
<1>1. /\ Working(w) /\ worker[w] \in Job
      /\ Stages(worker[w]) /\ Owned(place, worker[w])
      /\ UNCHANGED <<provision, conf, place, live, met>>
      /\ worker[w].pc = "closing" /\ Part(w) \in Parts
      /\ Read(w) \in Row /\ "normal" \in Parts
  BY AtStep, Jobs DEF CloseAccess, At, panel, history
<1>2. worker[w].part = Part(w) /\ Part(w) \in {"normal", "away"}
      /\ worker[w].kind \in {"revoke", "suspend", "delete"}
  BY <1>1, AccessAssumption DEF Part, Stages, RevokePc, Cutting
<1> DEFINE r == [Read(w) EXCEPT !.status = EndStatus(w)]
<1>3. r.login = Read(w).login /\ r.status # "active" /\ Save(w, Part(w), r)
  BY <1>1 DEF Row, EndStatus, CloseAccess
<1> HIDE DEF r
<1>4. PICK part, pc : /\ Turn(w, part, pc)
                      /\ \/ part = "away" /\ pc = "cutting" /\ Part(w) = "normal"
                         \/ part = "normal" /\ pc = "closing config"
  BY DEF CloseAccess
<1>5. pc \in Pc
  BY <1>4 DEF Pc
<1>6. PICK j : /\ worker' = [worker EXCEPT ![w] = j] /\ j # Idle
               /\ Same(j, worker[w]) /\ j.got = worker[w].got
               /\ j.pc = pc /\ j.part = part
  <2>1. Working(w) /\ Turn(w, part, pc)
    BY <1>1, <1>4
  <2>2. QED
    BY <1>5, <2>1, TurnedJob
<1>7. /\ j.dev = worker[w].dev /\ j.devs = worker[w].devs
      /\ j.kind = worker[w].kind
  BY <1>6 DEF Same
<1>8. Belongs(place, <<j.dev, Part(w)>>, r.login)
  <2>1. <<j.dev, Part(w)>> \in Keys
        /\ Read(w) = worker[w].rows[<<j.dev, Part(w)>>]
    BY <1>1, <1>7 DEF Read, Dev, Keys, Job
  <2>2. QED
    BY <1>1, <1>3, <2>1 DEF Owned
<1>9. /\ j.dev \in Devices /\ access'[<<j.dev, Part(w)>>] = r
      /\ \A k \in Keys : Belongs(place', k, access'[k].login)
      /\ \A d \in Devices \ {j.dev} : Kept(d)
      /\ Part(w) # "normal" => Kept(j.dev)
  <2>1. worker[w].pc # "idle" /\ UNCHANGED <<provision, conf, place, live>>
    BY <1>1
  <2>2. QED
    BY <1>1, <1>3, <1>7, <1>8, <2>1, RowApart
<1>10. Stages(j)
  BY <1>1, <1>4, <1>6 DEF Stages, Same, RevokePc, MapPc, Cutting
<1>11. Owned(place', j)
  BY <1>1, <1>4, <1>6 DEF Owned, Same, RevokePc, Cutting
<1>12. ASSUME NEW d \in Devices, d \in Minded(worker[w]),
              Serves(worker[w], d), Ends(worker[w], d)
       PROVE  Promised(j, d)'
  <2>1. j.pc \in {"cutting", "closing config"}
    BY <1>4, <1>6
  <2>2. ASSUME j.dev = d
        PROVE  access'[<<d, "normal">>].status # "active"
    <3>1. CASE Part(w) = "normal"
      BY <1>3, <1>9, <2>2, <3>1
    <3>2. CASE Part(w) = "away"
      <4>1. access[<<d, "normal">>].status # "active"
        BY <1>1, <1>2, <1>7, <1>12, <2>2, <3>2 DEF Serves, Cutting
      <4>2. QED
        BY <1>9, <2>2, <3>2, <4>1 DEF Kept
    <3>3. QED
      BY <1>2, <3>1, <3>2
  <2>3. j.dev # d => Fine(d)'
    BY <1>7, <1>9, <1>12, KeptFine DEF Serves
  <2>4. Serves(j, d)'
    BY <2>1, <2>2, <2>3 DEF Serves, Holding, MapPc
  <2>5. conf'[d] = conf[d] /\ (Over' <=> Over)
    BY <1>1 DEF Over
  <2>6. Ends(j, d)'
    BY <1>1, <1>2, <1>7, <1>12, <2>1, <2>5 DEF Ends, Cutting
  <2>7. QED
    BY <1>6, <2>4, <2>6 DEF Promised
<1>13. \A v \in Workers \ {w} : Working(v) => Owned(place', worker[v])
  BY <1>1 DEF SInv
<1>14. Minded(j) = Minded(worker[w])
  BY <1>6, MindedSame
<1>15. QED
  BY <1>1, <1>2, <1>6, <1>7, <1>9, <1>10, <1>11, <1>12, <1>13, <1>14, OwnStep

(* The last save for a device leaves it fine; the last device ends the loop. *)
LEMMA CloseConfigSerial ==
  ASSUME IInv, SInv, NEW w \in Workers, CloseConfig(w)
  PROVE  SInv'
<1>1. /\ Working(w) /\ worker[w] \in Job
      /\ Stages(worker[w]) /\ Owned(place, worker[w])
      /\ UNCHANGED <<provision, access, place, live, met>>
      /\ worker[w].pc = "closing config"
      /\ \A k \in Keys : Belongs(place', k, access'[k].login)
      /\ SetConf(w, EndStatus(w)) /\ EndStatus(w) # "ready"
  BY AtStep DEF CloseConfig, At, panel, history, EndStatus
<1>2. worker[w].part = "normal" /\ worker[w].kind \in {"revoke", "suspend", "delete"}
  BY <1>1 DEF Stages, RevokePc
<1>3. PICK e, left : e = worker[w].dev /\ left = worker[w].devs
  OBVIOUS
<1>4. /\ e \in Devices /\ conf'[e] = EndStatus(w)
      /\ \A d \in Devices \ {e} : Kept(d)
  <2>1. worker[w].pc # "idle"
    BY <1>1
  <2>2. QED
    BY <1>1, <1>3, <2>1, ConfApart
<1>5. left \subseteq Devices /\ (worker[w].kind = "revoke" => left = {})
  BY <1>1, <1>3 DEF Job, Stages
<1>6. Over' <=> Over
  BY <1>1 DEF Over
<1>7. ASSUME NEW d \in Devices, d \in Minded(worker[w]),
             Serves(worker[w], d), Ends(worker[w], d)
      PROVE  /\ Fine(d)'
             /\ worker[w].kind # "suspend" /\ Over => conf'[d] # "ready"
             /\ d \notin left => conf'[d] # "ready"
  <2>1. CASE d = e
    <3>1. conf'[d] # "ready"
      BY <1>1, <1>4, <2>1
    <3>2. access'[<<d, "normal">>].status # "active"
      BY <1>1, <1>3, <1>7, <2>1 DEF Serves
    <3>3. QED
      BY <3>1, <3>2 DEF Fine
  <2>2. CASE d # e
    <3>1. Kept(d) /\ conf'[d] = conf[d]
      BY <1>4, <2>2 DEF Kept
    <3>2. Fine(d)'
      BY <1>3, <1>7, <2>2, <3>1, KeptFine DEF Serves
    <3>3. worker[w].kind \in {"suspend", "delete"}
      BY <1>2, <1>3, <1>7, <2>2 DEF Minded
    <3>4. d \notin left => conf[d] # "ready"
      BY <1>1, <1>3, <1>7, <2>2, <3>3 DEF Ends
    <3>5. worker[w].kind # "suspend" /\ Over => conf[d] # "ready"
      BY <1>7 DEF Ends
    <3>6. QED
      BY <3>1, <3>2, <3>4, <3>5
  <2>3. QED
    BY <2>1, <2>2
<1>8. \A v \in Workers \ {w} : Working(v) => Owned(place', worker[v])
  BY <1>1 DEF SInv
<1>9. ASSUME NEW d \in worker[w].devs,
             worker' = [worker EXCEPT ![w] =
               [@ EXCEPT !.pc = "cutting", !.dev = d,
                         !.devs = worker[w].devs \ {d}]]
      PROVE  SInv'
  <2>1. PICK j : j = [worker[w] EXCEPT !.pc = "cutting", !.dev = d,
                                       !.devs = worker[w].devs \ {d}]
    OBVIOUS
  <2>2. /\ j.rows = worker[w].rows /\ j.got = worker[w].got /\ j.pc = "cutting"
        /\ j.kind = worker[w].kind /\ j.st = worker[w].st
        /\ j.dev = d /\ j.devs = left \ {d} /\ j.part = worker[w].part
        /\ d \in left
        /\ worker' = [worker EXCEPT ![w] = j]
    BY <1>1, <1>3, <1>9, <2>1 DEF Job
  <2>3. j # Idle
    BY <2>2 DEF Idle
  <2>4. worker[w].kind \in {"suspend", "delete"}
    BY <1>2, <1>5, <2>2
  <2>5. Stages(j)
    BY <1>1, <2>2, <2>4 DEF Stages, RevokePc, MapPc, Cutting
  <2>6. Owned(place', j)
    <3>1. /\ \A p \in Parts : worker[w].got[p].login = None
          /\ \A k \in Keys : Belongs(place', k, worker[w].rows[k].login)
          /\ worker[w].got["normal"].node = Home
      BY <1>1 DEF Owned, RevokePc
    <3>2. \A p \in Parts : Belongs(place', <<j.dev, p>>, j.got[p].login)
      BY <2>2, <3>1 DEF Belongs
    <3>3. QED
      BY <1>1, <2>2, <3>1, <3>2 DEF Owned
  <2>7. Minded(j) = Minded(worker[w])
    BY <2>2, <2>4 DEF Minded
  <2>8. ASSUME NEW c \in Devices, c \in Minded(worker[w]),
               Serves(worker[w], c), Ends(worker[w], c)
        PROVE  Promised(j, c)'
    <3>1. Serves(j, c)'
      BY <1>2, <1>7, <2>2, <2>8 DEF Serves, Holding, MapPc, Cutting
    <3>2. Ends(j, c)'
      BY <1>6, <1>7, <2>2, <2>4, <2>8 DEF Ends
    <3>3. QED
      BY <2>3, <3>1, <3>2 DEF Promised
  <2>9. QED
    BY <1>1, <1>2, <1>3, <1>4, <1>8, <2>2, <2>3, <2>5, <2>6, <2>7, <2>8, OwnStep
<1>10. ASSUME worker[w].devs = {}, worker[w].kind = "delete", Goto(w, "marking")
       PROVE  SInv'
  <2>1. "marking" \in Pc
    BY DEF Pc
  <2>2. PICK j : /\ worker' = [worker EXCEPT ![w] = j] /\ j # Idle
                 /\ Same(j, worker[w]) /\ j.got = worker[w].got
                 /\ j.pc = "marking" /\ j.part = worker[w].part
    BY <1>1, <1>10, <2>1, GoneJob
  <2>3. Stages(j)
    BY <1>1, <1>10, <2>2 DEF Stages, Same, RevokePc, MapPc, Cutting
  <2>4. Owned(place', j)
    BY <1>1, <2>2 DEF Owned, Same, RevokePc, Cutting
  <2>5. Minded(j) = Minded(worker[w])
    BY <2>2, MindedSame
  <2>6. ASSUME NEW c \in Devices, c \in Minded(worker[w]),
               Serves(worker[w], c), Ends(worker[w], c)
        PROVE  Promised(j, c)'
    <3>1. Fine(c)' /\ conf'[c] # "ready"
      BY <1>3, <1>7, <1>10, <2>6
    <3>2. Serves(j, c)'
      BY <2>2, <3>1 DEF Serves, Holding, MapPc, Cutting
    <3>3. Ends(j, c)'
      BY <1>10, <2>2, <3>1 DEF Ends, Same, Cutting
    <3>4. QED
      BY <2>2, <3>2, <3>3 DEF Promised
  <2>7. QED
    BY <1>1, <1>2, <1>3, <1>4, <1>8, <2>2, <2>3, <2>4, <2>5, <2>6, OwnStep
<1>11. ASSUME worker[w].devs = {}, worker[w].kind # "delete", Leave(w)
       PROVE  SInv'
  <2>1. PICK j : j = Idle /\ worker' = [worker EXCEPT ![w] = j]
    BY <1>11 DEF Leave
  <2>2. ASSUME NEW c \in Devices, c \in Minded(worker[w]),
               Serves(worker[w], c), Ends(worker[w], c)
        PROVE  Promised(j, c)'
    BY <1>3, <1>7, <1>11, <2>1, <2>2 DEF Promised, Rests
  <2>3. QED
    BY <1>1, <1>2, <1>3, <1>4, <1>8, <2>1, <2>2, OwnStep
<1>12. QED
  BY <1>9, <1>10, <1>11 DEF CloseConfig

(* Clients that go are those of one device and part; the others stay.      *)
LEMMA GoneApart ==
  ASSUME IInv, SInv, NEW e, NEW part, NEW n, NEW i, NEW c,
         DeleteQuietly(n, i, c), Belongs(place, <<e, part>>, c),
         UNCHANGED <<provision, conf, access, place>>
  PROVE  \A d : d # e \/ part # "normal" => Kept(d)
<1>1. live \subseteq Logins /\ None \notin Logins
  BY AccessAssumption DEF IInv, TypeOK
<1>2. ASSUME NEW d, NEW l, Homed(l), Belongs(place, <<d, "normal">>, l),
             d # e \/ part # "normal"
      PROVE  Homed(l)'
  <2>1. l # None /\ place[l].dev = d /\ place[l].part = "normal"
    BY <1>1, <1>2 DEF Homed, Belongs
  <2>2. l # c
    BY <1>2, <2>1 DEF Belongs
  <2>3. QED
    BY <1>2, <2>2 DEF Homed, DeleteQuietly
<1>3. QED
  BY <1>2 DEF Kept, Over

(* Deleting a client: of a row as it was read, or the one just created.     *)
LEMMA DeleteSerial ==
  ASSUME IInv, SInv, NEW w \in Workers, Drop(w) \/ Cut(w) \/ Undo(w)
  PROVE  SInv'
<1>1. /\ Working(w) /\ worker[w] \in Job
      /\ Stages(worker[w]) /\ Owned(place, worker[w])
      /\ UNCHANGED <<provision, conf, access, place, met>>
      /\ Part(w) \in Parts /\ <<Dev(w), Part(w)>> \in Keys
      /\ \A k \in Keys : Belongs(place', k, access'[k].login)
  BY AtStep DEF Drop, Cut, Undo, At, Keys, history
<1>2. worker[w].part = Part(w) /\ Part(w) \in {"normal", "away"}
      /\ "normal" \in Parts
  BY <1>1, AccessAssumption DEF Part
<1>3. /\ Belongs(place, <<Dev(w), Part(w)>>, Read(w).login)
      /\ Belongs(place, <<Dev(w), Part(w)>>, Got(w).login)
  BY <1>1 DEF Owned, Read, Got, Dev
<1>4. PICK pc, n, i, c :
        /\ pc \in Pc /\ Goto(w, pc) /\ DeleteQuietly(n, i, c)
        /\ Belongs(place, <<Dev(w), Part(w)>>, c)
        /\ \/ worker[w].pc = "dropping" /\ pc = "uncounting"
           \/ worker[w].pc = "cutting" /\ pc = "giving"
           \/ worker[w].pc = "undoing" /\ pc = "returning"
  <2>1. {"uncounting", "giving", "returning"} \subseteq Pc
    BY DEF Pc
  <2>2. CASE Drop(w)
    BY <1>3, <2>1, <2>2 DEF Drop, At
  <2>3. CASE Cut(w)
    BY <1>3, <2>1, <2>3 DEF Cut, At
  <2>4. CASE Undo(w)
    BY <1>3, <2>1, <2>4 DEF Undo, At
  <2>5. QED
    BY <2>2, <2>3, <2>4
<1>5. PICK j : /\ worker' = [worker EXCEPT ![w] = j] /\ j # Idle
               /\ Same(j, worker[w]) /\ j.got = worker[w].got
               /\ j.pc = pc /\ j.part = worker[w].part
  <2>1. Working(w) /\ pc \in Pc /\ Goto(w, pc)
    BY <1>1, <1>4
  <2>2. QED
    BY <2>1, GoneJob
<1>6. /\ j.dev = worker[w].dev /\ j.dev = Dev(w) /\ j.part = Part(w)
      /\ j.kind = worker[w].kind /\ j.st = worker[w].st
      /\ j.devs = worker[w].devs
  BY <1>5 DEF Same, Dev, Part
<1>7. \A d : d # j.dev \/ j.part # "normal" => Kept(d)
  <2>1. Belongs(place, <<j.dev, j.part>>, c) /\ DeleteQuietly(n, i, c)
    BY <1>4, <1>6
  <2>2. UNCHANGED <<provision, conf, access, place>>
    BY <1>1
  <2>3. QED
    BY <2>1, <2>2, GoneApart
<1>8. Stages(j)
  BY <1>1, <1>4, <1>5 DEF Stages, Same, RevokePc, MapPc, Cutting
<1>9. Owned(place, j) /\ Owned(place', j)
  BY <1>1, <1>4, <1>5 DEF Owned, Same, RevokePc, Cutting
<1>10. worker[w].kind # "pay"
  BY <1>1, <1>4 DEF Stages
<1>11. ASSUME NEW d \in Devices, d \in Minded(worker[w]),
              Serves(worker[w], d), Ends(worker[w], d)
       PROVE  Promised(j, d)'
  <2>1. j.pc \in {"uncounting", "giving", "returning"}
    BY <1>4, <1>5
  <2>2. ASSUME j.dev = d, Holding(j)
        PROVE  Homed(j.got["normal"].login)'
    <3>1. j.part = "away" /\ Holding(worker[w])
      BY <1>4, <1>5, <2>2 DEF Holding
    <3>2. Homed(j.got["normal"].login)
      BY <1>5, <1>6, <1>11, <2>2, <3>1 DEF Serves
    <3>3. Belongs(place, <<d, "normal">>, j.got["normal"].login)
      BY <1>2, <1>9, <2>2 DEF Owned
    <3>4. Kept(d)
      BY <1>7, <3>1
    <3>5. PICK l : l = j.got["normal"].login
      OBVIOUS
    <3>6. Homed(l)'
      BY <3>2, <3>3, <3>4, <3>5 DEF Kept
    <3>7. QED
      BY <3>5, <3>6 DEF Homed
  <2>3. j.dev # d => Fine(d)'
    BY <1>6, <1>7, <1>11, KeptFine DEF Serves
  <2>4. j.dev = d /\ j.pc \in Cutting /\ j.part = "away"
        => access'[<<d, "normal">>].status # "active"
    BY <1>1, <1>4, <1>5, <1>6, <1>11 DEF Serves, Cutting
  <2>5. Serves(j, d)'
    BY <2>1, <2>2, <2>3, <2>4 DEF Serves, MapPc
  <2>6. Ends(j, d)'
    <3>1. conf'[d] = conf[d] /\ (Over' <=> Over)
      BY <1>1 DEF Over
    <3>2. QED
      BY <1>4, <1>5, <1>6, <1>11, <3>1 DEF Ends, Cutting
  <2>7. QED
    BY <1>5, <2>5, <2>6 DEF Promised
<1>12. \A v \in Workers \ {w} : Working(v) => Owned(place', worker[v])
  BY <1>1 DEF SInv
<1>13. Minded(j) = Minded(worker[w])
  BY <1>5, MindedSame
<1>14. QED
  BY <1>1, <1>5, <1>6, <1>7, <1>8, <1>9, <1>10, <1>11, <1>12, <1>13, OwnStep

(* A new client is its device's and part's; what is known stays so.        *)
LEMMA AddedApart ==
  ASSUME IInv, SInv, NEW w \in Workers, worker[w].pc # "idle",
         NEW c \in Logins, AddClient(w, c),
         UNCHANGED <<provision, conf, access>>
  PROVE  /\ \A v \in Workers : Working(v) => Owned(place', worker[v])
         /\ \A k \in Keys : Belongs(place', k, access'[k].login)
         /\ \A d \in Devices : Kept(d)
         /\ Belongs(place', <<Dev(w), Part(w)>>, c)
         /\ c \in live' /\ place'[c].node = Got(w).node
<1>1. /\ place \in [Logins -> Place \cup {Nowhere}]
      /\ \A l \in live : l \in Logins /\ place[l] # Nowhere
      /\ access \in [Keys -> Row]
  BY DEF IInv, TypeOK
<1> DEFINE new == [dev |-> Dev(w), part |-> Part(w), node |-> Got(w).node,
                   inbound |-> Inbound(Got(w).prof)]
<1>2. place' = [place EXCEPT ![c] = new] /\ place[c] = Nowhere
      /\ live' = live \cup {c}
  BY DEF AddClient
<1>3. /\ new.dev = Dev(w) /\ new.part = Part(w) /\ new.node = Got(w).node
  OBVIOUS
<1> HIDE DEF new
<1>4. place'[c] = new /\ \A l \in Logins \ {c} : place'[l] = place[l]
  BY <1>1, <1>2
<1>5. \A k, r : /\ r.login \in Logins \cup {None} /\ Names(place, r)
                /\ Belongs(place, k, r.login)
                => Belongs(place', k, r.login)
  BY <1>2, <1>4 DEF Names, Belongs
<1>6. \A k \in Keys : Belongs(place', k, access'[k].login)
  BY <1>1, <1>5 DEF IInv, SInv, Row
<1>7. \A l : Homed(l) => Homed(l)'
  BY <1>1, <1>2, <1>4 DEF Homed
<1>8. \A d \in Devices : Kept(d)
  BY <1>7 DEF Kept, Over
<1>9. Belongs(place', <<Dev(w), Part(w)>>, c)
  BY <1>3, <1>4 DEF Belongs
<1>10. ASSUME NEW v \in Workers, Working(v)
       PROVE  Owned(place', worker[v])
  <2>1. worker[v] \in Job /\ Knows(place, worker[v]) /\ Owned(place, worker[v])
    BY <1>10 DEF IInv, Sound, Working, SInv
  <2>2. \A k \in Keys : Belongs(place', k, worker[v].rows[k].login)
    <3>1. \A k \in Keys : /\ worker[v].rows[k].login \in Logins \cup {None}
                          /\ Names(place, worker[v].rows[k])
                          /\ Belongs(place, k, worker[v].rows[k].login)
      BY <2>1 DEF Job, Row, Knows, Owned
    <3>2. QED
      BY <1>5, <3>1
  <2>3. \A p \in Parts :
          Belongs(place', <<worker[v].dev, p>>, worker[v].got[p].login)
    <3>1. \A p \in Parts :
            /\ worker[v].got[p].login \in Logins \cup {None}
            /\ Names(place, worker[v].got[p])
            /\ Belongs(place, <<worker[v].dev, p>>, worker[v].got[p].login)
      BY <2>1 DEF Job, Material, Knows, Owned
    <3>2. QED
      BY <1>5, <3>1
  <2>4. QED
    BY <2>1, <2>2, <2>3 DEF Owned
<1>11. QED
  BY <1>2, <1>3, <1>4, <1>6, <1>8, <1>9, <1>10

(* A client the handler may learn of, or not.                              *)
LEMMA CreateSerial ==
  ASSUME IInv, SInv, NEW w \in Workers, Create(w) \/ CreateLost(w)
  PROVE  SInv'
<1>1. /\ Working(w) /\ worker[w] \in Job
      /\ Stages(worker[w]) /\ Owned(place, worker[w])
      /\ UNCHANGED <<provision, conf, access, met>>
      /\ worker[w].pc = "creating"
      /\ Part(w) \in Parts /\ Got(w) \in Material
      /\ worker[w].pc # "idle"
  BY AtStep, Jobs DEF Create, CreateLost, At, history
<1>2. worker[w].part = Part(w) /\ Part(w) \in {"normal", "away"}
      /\ "normal" \in Parts /\ Got(w) = worker[w].got[Part(w)]
      /\ worker[w].kind \notin {"pay", "revoke", "suspend", "delete"}
  BY <1>1, AccessAssumption DEF Part, Got, Stages, RevokePc, Cutting
<1>3. PICK c \in Logins :
        /\ AddClient(w, c)
        /\ \/ worker' = [worker EXCEPT ![w] =
                  [@ EXCEPT !.pc = "linking",
                            !.got[Part(w)] = [Got(w) EXCEPT !.login = c,
                                                            !.fresh = TRUE]]]
           \/ Goto(w, "uncreating")
  BY DEF Create, CreateLost
<1>4. /\ \A v \in Workers : Working(v) => Owned(place', worker[v])
      /\ \A k \in Keys : Belongs(place', k, access'[k].login)
      /\ \A d \in Devices : Kept(d)
      /\ Belongs(place', <<Dev(w), Part(w)>>, c)
      /\ c \in live' /\ place'[c].node = Got(w).node
  BY <1>1, <1>3, AddedApart
<1>5. \E j : /\ worker' = [worker EXCEPT ![w] = j] /\ j # Idle
             /\ Same(j, worker[w]) /\ j.part = Part(w)
             /\ j.pc \in {"linking", "uncreating"}
             /\ \A p \in Parts \ {Part(w)} : j.got[p] = worker[w].got[p]
             /\ \/ /\ j.pc = "uncreating"
                   /\ j.got[Part(w)] = worker[w].got[Part(w)]
                \/ /\ j.pc = "linking" /\ j.got[Part(w)].login = c
                   /\ j.got[Part(w)].node = Got(w).node
  <2>1. CASE Goto(w, "uncreating")
    <3>1. "uncreating" \in Pc /\ Working(w)
      BY <1>1 DEF Pc
    <3>2. PICK j : /\ worker' = [worker EXCEPT ![w] = j] /\ j # Idle
                   /\ Same(j, worker[w]) /\ j.got = worker[w].got
                   /\ j.pc = "uncreating" /\ j.part = worker[w].part
      BY <2>1, <3>1, GoneJob
    <3>3. QED
      BY <1>2, <3>2
  <2>2. CASE worker' = [worker EXCEPT ![w] =
               [@ EXCEPT !.pc = "linking",
                         !.got[Part(w)] = [Got(w) EXCEPT !.login = c,
                                                         !.fresh = TRUE]]]
    <3> DEFINE m == [Got(w) EXCEPT !.login = c, !.fresh = TRUE]
               got == [worker[w].got EXCEPT ![Part(w)] = m]
               j == [worker[w] EXCEPT !.pc = "linking", !.got = got]
    <3>1. m.login = c /\ m.node = Got(w).node
      BY <1>1 DEF Material
    <3>2. /\ Same(j, worker[w]) /\ j.got = got /\ j.pc = "linking"
          /\ j.part = Part(w)
      BY <1>1, <1>2 DEF Job, Same
    <3>3. worker' = [worker EXCEPT ![w] = j]
      BY <2>2
    <3> HIDE DEF m
    <3>4. /\ got[Part(w)] = m
          /\ \A p \in Parts \ {Part(w)} : got[p] = worker[w].got[p]
      BY <1>1 DEF Job
    <3> HIDE DEF j, got
    <3>5. j # Idle
      BY <3>2 DEF Idle
    <3>6. QED
      BY <3>1, <3>2, <3>3, <3>4, <3>5
  <2>3. QED
    BY <1>3, <2>1, <2>2
<1>6. PICK j : /\ worker' = [worker EXCEPT ![w] = j] /\ j # Idle
               /\ Same(j, worker[w]) /\ j.part = Part(w)
               /\ j.pc \in {"linking", "uncreating"}
               /\ \A p \in Parts \ {Part(w)} : j.got[p] = worker[w].got[p]
               /\ \/ /\ j.pc = "uncreating"
                     /\ j.got[Part(w)] = worker[w].got[Part(w)]
                  \/ /\ j.pc = "linking" /\ j.got[Part(w)].login = c
                     /\ j.got[Part(w)].node = Got(w).node
  BY <1>5
<1>7. Stages(j)
  BY <1>1, <1>2, <1>6 DEF Stages, Same, RevokePc, MapPc, Cutting
<1>8. j.got["normal"].node = Home
  BY <1>1, <1>2, <1>6 DEF Owned
<1>9. j.dev = Dev(w) /\ j.dev = worker[w].dev /\ j.rows = worker[w].rows
  BY <1>6 DEF Same, Dev
<1>10. Owned(place', j)
  <2>1. Owned(place', worker[w])
    BY <1>1, <1>4
  <2>2. \A p \in Parts : Belongs(place', <<j.dev, p>>, j.got[p].login)
    BY <1>1, <1>4, <1>6, <1>9, <2>1 DEF Owned
  <2>3. j.pc \notin RevokePc
    BY <1>6 DEF RevokePc, Cutting
  <2>4. QED
    BY <1>8, <1>9, <2>1, <2>2, <2>3 DEF Owned
<1>11. ASSUME NEW d \in Devices, d \in Minded(worker[w]),
              Serves(worker[w], d), Ends(worker[w], d)
       PROVE  Promised(j, d)'
  <2>1. d = j.dev /\ Kept(d)
    BY <1>2, <1>4, <1>9, <1>11 DEF Minded
  <2>2. ASSUME Holding(j)
        PROVE  Homed(j.got["normal"].login)'
    <3>1. CASE j.part = "normal"
      <4>1. j.got["normal"].login = c
        BY <1>6, <2>2, <3>1 DEF Holding
      <4>2. Homed(c)'
        BY <1>1, <1>2, <1>4, <1>6, <3>1 DEF Homed, Owned
      <4>3. QED
        BY <4>1, <4>2 DEF Homed
    <3>2. CASE j.part = "away"
      <4>1. Homed(worker[w].got["normal"].login)
        BY <1>1, <1>2, <1>6, <1>9, <1>11, <2>1, <3>2 DEF Serves, Holding
      <4>2. j.got["normal"] = worker[w].got["normal"]
        BY <1>2, <1>6, <3>2
      <4>3. PICK l : l = worker[w].got["normal"].login
        OBVIOUS
      <4>4. Belongs(place, <<d, "normal">>, l)
        BY <1>1, <1>2, <1>9, <2>1, <4>3 DEF Owned
      <4>5. Homed(l)'
        BY <2>1, <4>1, <4>3, <4>4 DEF Kept
      <4>6. QED
        BY <4>2, <4>3, <4>5 DEF Homed
    <3>3. QED
      BY <1>2, <1>6, <3>1, <3>2
  <2>3. Serves(j, d)'
    BY <1>6, <2>1, <2>2 DEF Serves, MapPc, Cutting
  <2>4. Ends(j, d)'
    <3>1. j.kind = worker[w].kind /\ j.st = worker[w].st
      BY <1>6 DEF Same
    <3>2. conf'[d] = conf[d] /\ (Over' <=> Over)
      BY <1>1 DEF Over
    <3>3. QED
      BY <1>2, <1>6, <1>11, <3>1, <3>2 DEF Ends
  <2>5. QED
    BY <1>6, <2>3, <2>4 DEF Promised
<1>12. Minded(j) = Minded(worker[w])
  BY <1>6, MindedSame
<1>13. QED
  BY <1>1, <1>2, <1>4, <1>6, <1>7, <1>10, <1>11, <1>12, OwnStep

(* A database call that throws leads to a catch block, or breaks its       *)
(* handler off at the devices it minds.                                    *)
LEMMA ThrowSerial ==
  ASSUME IInv, SInv, NEW w \in Workers, Throw(w)
  PROVE  SInv'
<1>1. /\ UNCHANGED <<provision, conf, access, place, live>>
      /\ worker[w].pc # "idle"
  BY DEF Throw, InTry, AfterTry, At, panel
<1>2. /\ Working(w) /\ Part(w) \in Parts /\ "normal" \in Parts
      /\ \A k \in Keys : Belongs(place', k, access'[k].login)
  BY <1>1, AtStep
<1>3. ASSUME NEW q \in Parts, Catch(w, q), Throws(w, q), met' = met
      PROVE  SInv'
  <2>1. Turn(w, q, "undoing") \/ EndPart(w, q)
    BY <1>3 DEF Catch
  <2>2. QED
    BY <1>1, <1>3, <2>1, CaughtSerial
<1>4. ASSUME Leave(w), met' = met \cup Minded(worker[w])
      PROVE  SInv'
  <2>1. PICK j : j = Idle /\ worker' = [worker EXCEPT ![w] = j]
    BY <1>4 DEF Leave
  <2>2. \A d \in Devices : Kept(d)
    BY <1>1 DEF Kept, Homed, Over
  <2>3. \A v \in Workers \ {w} : Working(v) => Owned(place', worker[v])
    BY <1>1 DEF SInv
  <2>4. met \subseteq met' /\ \A d \in Devices \ met' : d \notin Minded(worker[w])
    BY <1>4
  <2>5. QED
    BY <1>2, <2>1, <2>2, <2>3, <2>4, Stepped
<1>5. QED
  BY <1>2, <1>3, <1>4 DEF Throw, Throws, Meet

(* A crash breaks all handlers off.                                        *)
LEMMA CrashSerial ==
  ASSUME IInv, SInv, Crash
  PROVE  SInv'
<1>1. /\ UNCHANGED <<provision, conf, access, place, live>>
      /\ met' = met \cup {d \in Devices : \E w \in Workers : Minds(w, d)}
      /\ \A w \in Workers : worker'[w] = Idle
  BY DEF Crash, panel, Meet
<1>2. \A w \in Workers : ~ Working(w)' /\ \A d : ~ Minds(w, d)'
  BY <1>1 DEF Working, Minds
<1>3. \A d \in Devices : Kept(d)
  BY <1>1 DEF Kept, Homed, Over
<1>4. ASSUME NEW d \in Devices, Alone(d)'
      PROVE  Rests(d)'
  <2>1. Alone(d)
    BY <1>1, <1>4 DEF Alone
  <2>2. Rests(d)
    BY <2>1 DEF SInv
  <2>3. QED
    BY <1>3, <2>2, KeptFine
<1>5. \A k \in Keys : Belongs(place', k, access'[k].login)
  BY <1>1 DEF SInv
<1>6. QED
  BY <1>2, <1>4, <1>5 DEF SInv

(* Devices that are not served.                                            *)
LEMMA InitSInv == Init => SInv
<1> SUFFICES ASSUME Init PROVE SInv
  OBVIOUS
<1>1. \A k \in Keys : access[k].status = "pending" /\ access[k].login = None
  BY DEF Init, Unread
<1>2. "normal" \in Parts /\ \A d \in Devices : <<d, "normal">> \in Keys
  BY AccessAssumption DEF Keys
<1>3. \A d \in Devices : Rests(d)
  BY <1>1, <1>2 DEF Init, Fine, Rests
<1>4. \A w \in Workers : ~ Working(w) /\ \A d : ~ Minds(w, d)
  BY DEF Init, Working, Minds
<1>5. QED
  BY <1>1, <1>3, <1>4 DEF SInv, Belongs

(* Whatever handlers overlap, calls fail and processes crash.              *)
LEMMA NextSerial ==
  ASSUME IInv, SInv, [Next]_vars
  PROVE  SInv'
<1>1. ASSUME NEW w \in Workers, Sync(w)
      PROVE  SInv'
  BY <1>1, ReadSerial, ConfSerial, LastRow, SelectSerial, DeleteSerial,
     GoSerial, CatchSerial, CreateSerial, AwaySerial, SaveAwaySerial DEF Sync
<1>2. ASSUME NEW w \in Workers, Revoke(w)
      PROVE  SInv'
  BY <1>2, ReadSerial, DeleteSerial, GoSerial, CloseAccessSerial,
     CloseConfigSerial, StatusSerial DEF Revoke
<1>3. ASSUME NEW w \in Workers, Begin(w) \/ Pay(w) \/ Throw(w)
      PROVE  SInv'
  BY <1>3, BeginSerial, StatusSerial, ThrowSerial
<1>4. CASE Crash
  BY <1>4, CrashSerial
<1>5. CASE UNCHANGED vars
  <2>1. UNCHANGED <<provision, conf, access, place, live, worker, met>>
    BY <1>5 DEF vars, panel, history
  <2>2. \A v \in Workers : \A d : Minds(v, d)' <=> Minds(v, d)
    BY <2>1 DEF Minds, Working
  <2>3. \A d : (Alone(d)' <=> Alone(d)) /\ (Rests(d)' <=> Rests(d))
    BY <2>1, <2>2 DEF Alone, Rests, Fine, Homed, Over
  <2>4. \A v \in Workers : \A d :
          /\ Serves(worker[v], d)' <=> Serves(worker[v], d)
          /\ Ends(worker[v], d)' <=> Ends(worker[v], d)
    BY <2>1 DEF Serves, Ends, Fine, Homed, Over
  <2>5. \A v \in Workers :
          /\ Working(v)' <=> Working(v)
          /\ Stages(worker[v])' <=> Stages(worker[v])
          /\ Owned(place, worker[v])' <=> Owned(place, worker[v])
    BY <2>1 DEF Working
  <2>6. QED
    BY <2>1, <2>2, <2>3, <2>4, <2>5 DEF SInv
<1>6. QED
  BY <1>1, <1>2, <1>3, <1>4, <1>5 DEF Next

(* The invariant, of any devices, nodes, profiles, handlers and failures.  *)
LEMMA SerialInvariance == Spec => [](IInv /\ SInv)
<1>1. Init => IInv /\ SInv
  BY InitIInv, InitSInv
<1>2. IInv /\ IInv' /\ SInv /\ [Next]_vars => SInv'
  BY NextSerial
<1>3. QED
  BY <1>1, <1>2, Invariance, PTL DEF Spec

(* A device that is alone and ready has its living client, through any     *)
(* handlers of other devices, payments, refusals, failing database calls   *)
(* and crashes: one handler at a device leaves it so wherever it ends      *)
(* (syncDeviceSnapshot, revokeDeviceSnapshot).                             *)
THEOREM ReadyDevicesAreLive == Spec => []ReadyIsLive
<1>1. SInv => ReadyIsLive
  BY DEF SInv, Rests, Fine, Homed, ReadyIsLive
<1>2. QED
  BY <1>1, SerialInvariance, PTL

(* No device that is alone is ready once its subscription has ended,       *)
(* through overlapping payments and failures anywhere (suspend, cancel,    *)
(* deleteProvisionResources).                                              *)
THEOREM EndedDevicesNotReady == Spec => []EndedNotReady
<1>1. SInv => EndedNotReady
  BY DEF SInv, Rests, Over, EndedNotReady
<1>2. QED
  BY <1>1, SerialInvariance, PTL

=============================================================================
