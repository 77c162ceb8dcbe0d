--------------------------- MODULE ServicesProofs ---------------------------
(***************************************************************************)
(* Proofs about the services around provisioning, one section each:        *)
(* transport profiles, hourly telemetry, the decisions made from it, the   *)
(* rate limiter, the HTTP edge, the configurator's catalogue, the rows of  *)
(* device_configs and the plans.  Their modules share no variable; each    *)
(* section has inductive invariants of its own and ends in the theorems it *)
(* is for.                                                                 *)
(***************************************************************************)
EXTENDS TransportProfiles, TelemetryHourly, RouteDecisions, RateLimit, WebhookGate,
        Catalogue, DeviceRows, PlanMapping, FiniteSetTheorems, TLAPS
-----------------------------------------------------------------------------
(* Transport profiles and the panel.                                       *)

(* A request that holds a row of transport_profiles.                       *)
WithRow == {"editing", "checking", "sending", "saving", "failing"}

Used(i) == i # NoInbound => i \in InboundIds /\ inbound[i] # NoRowYet

(* The row a request holds is of a profile that was made, and names no     *)
(* inbound that was not; an apply is about that inbound, or a new one.     *)
HoldsARow(c) ==
  LET call == tpCall[c] IN
  call.pc \in WithRow =>
    /\ call.prof \in ProfileIds /\ profile[call.prof] # NoProfile
    /\ call.copy \in ProfileRow /\ Used(call.copy.inbound)
    /\ call.pc \in {"sending", "saving", "failing"} =>
         /\ call.new <=> call.copy.inbound = NoInbound
         /\ ~call.new => call.inb = call.copy.inbound
    /\ call.pc = "sending" /\ call.new => call.seen = {} /\ call.inb = NoInbound
    /\ call.pc = "saving" => call.inb \in InboundIds /\ inbound[call.inb] # NoRowYet

(* It is the row as stored, unless the request is out of date.             *)
RowAsRead(c) ==
  LET call == tpCall[c] IN
  call.pc \in WithRow /\ ~IsStale(c) =>
    /\ call.copy.inbound = profile[call.prof].inbound
    /\ call.pc # "editing" => call.copy = profile[call.prof]

ClientsAsListed(c) ==
  LET call == tpCall[c] IN
  call.pc = "sending" /\ call.inb \in intact /\ OnPanel(call.inb)
    /\ <<c, "clients">> \notin stale => call.seen = made[call.inb]

InboundAsSent(c) ==
  LET call == tpCall[c] IN
  call.pc = "saving" /\ ~IsStale(c) =>
    /\ OnPanel(call.inb)
    /\ inbound[call.inb].enable <=> call.copy.status # "disabled"
    /\ call.new =>
         /\ \A p \in ProfileIds : profile[p].inbound # call.inb
         /\ \A d \in Admins : tpCall[d].pc \in WithRow => tpCall[d].copy.inbound # call.inb

ListAsRead(c) ==
  LET call == tpCall[c] IN
  call.pc \in {"reading", "syncing"} =>
    /\ \A i \in call.todo : Used(i)
    /\ ~IsStale(c) => \A i \in call.todo :
         OnPanel(i) /\ inbound[i].enable = call.list[i].enable

RowsAsRead(c) ==
  LET call == tpCall[c] IN
  call.pc = "syncing" /\ ~IsStale(c) =>
    \A p \in ProfileIds :
      /\ profile[p].inbound \in call.todo => call.rows[p].inbound = profile[p].inbound
      /\ call.rows[p].inbound # NoInbound => profile[p].inbound = call.rows[p].inbound

InboundsUsed ==
  /\ \A p \in ProfileIds : Used(profile[p].inbound)
  /\ \A i \in InboundIds : inbound[i] = NoRowYet => made[i] = {}

Agreed ==
  \A p \in settled :
    /\ OnPanel(profile[p].inbound)
    /\ profile[p].status = "disabled" <=> ~inbound[profile[p].inbound].enable

TpInv ==
  /\ TpTypeOK
  /\ \A c \in Admins : /\ HoldsARow(c) /\ RowAsRead(c) /\ ClientsAsListed(c)
                       /\ InboundAsSent(c) /\ ListAsRead(c) /\ RowsAsRead(c)
  /\ InboundsUsed /\ Agreed /\ OwnedOnce /\ ClientsSurviveApply

(* An administrator opens a profile and edits it (update).                 *)
LEMMA EditStarts ==
  ASSUME TpInv, NEW c \in Admins, NEW p \in ProfileIds, NEW status \in EditStatuses,
         StartEdit(c, p, status)
  PROVE  TpInv'
<1> USE ProfilesAssumption
<1> PICK j : j = [NoTpCall EXCEPT !.pc = "editing", !.prof = p,
                                  !.copy = [profile[p] EXCEPT !.status = status]]
  OBVIOUS
<1>a. tpCall' = [tpCall EXCEPT ![c] = j]
  BY DEF StartEdit, Begin, HasProfile
<1>b. j.pc = "editing" /\ j.prof = p /\ j.copy \in ProfileRow
      /\ j.copy.inbound = profile[p].inbound /\ profile[p] # NoProfile
  BY DEF TpInv, TpTypeOK, NoTpCall, NoProfile, StartEdit, Begin, HasProfile, ProfileRow,
     ProfileStatus
<1>t. j \in TpCall
  BY <1>b DEF TpInv, TpTypeOK, TpCall, NoTpCall, Unlisted, UnreadRows, StartEdit, Begin,
     HasProfile, ProfileRow, ProfileStatus
<1>1. TpTypeOK'
  BY <1>a, <1>b, <1>t DEF TpInv, TpTypeOK, StartEdit, Begin, HasProfile, ProfileRow,
     ProfileStatus, InboundRow, NoProfile, GoneProfile, ProfileRow, ProfileStatus
<1>2. ASSUME NEW d \in Admins PROVE HoldsARow(d)'
  BY <1>a, <1>b DEF TpInv, TpTypeOK, StartEdit, Begin, HasProfile, HoldsARow, WithRow,
     InboundsUsed, Used, NoProfile, GoneProfile
<1>3. ASSUME NEW d \in Admins PROVE RowAsRead(d)'
  BY <1>a, <1>b DEF TpInv, TpTypeOK, StartEdit, Begin, HasProfile, RowAsRead, HoldsARow,
     WithRow, IsStale
<1>4. ASSUME NEW d \in Admins PROVE ClientsAsListed(d)'
  BY <1>a, <1>b DEF TpInv, TpTypeOK, StartEdit, Begin, HasProfile, ClientsAsListed,
     HoldsARow, WithRow, OnPanel, Used
<1>5. ASSUME NEW d \in Admins PROVE InboundAsSent(d)'
  BY <1>a, <1>b DEF TpInv, TpTypeOK, StartEdit, Begin, HasProfile, InboundAsSent,
     HoldsARow, WithRow, IsStale, OnPanel, Used
<1>6. ASSUME NEW d \in Admins PROVE ListAsRead(d)'
  BY <1>a, <1>b DEF TpInv, TpTypeOK, StartEdit, Begin, HasProfile, ListAsRead, IsStale,
     OnPanel, Used
<1>7. ASSUME NEW d \in Admins PROVE RowsAsRead(d)'
  BY <1>a, <1>b DEF TpInv, TpTypeOK, StartEdit, Begin, HasProfile, RowsAsRead, IsStale
<1>8. InboundsUsed'
  BY <1>a, <1>b DEF TpInv, TpTypeOK, StartEdit, Begin, HasProfile, InboundsUsed, Used
<1>9. Agreed'
  BY <1>a, <1>b DEF TpInv, TpTypeOK, StartEdit, Begin, HasProfile, Agreed, OnPanel
<1>10. OwnedOnce'
  BY <1>a, <1>b DEF TpInv, TpTypeOK, StartEdit, Begin, HasProfile, OwnedOnce
<1>11. ClientsSurviveApply'
  BY <1>a, <1>b DEF TpInv, TpTypeOK, StartEdit, Begin, HasProfile, ClientsSurviveApply, OnPanel
<1>12. QED
  BY <1>1, <1>2, <1>3, <1>4, <1>5, <1>6, <1>7, <1>8, <1>9, <1>10, <1>11 DEF TpInv

(* A check reads its profile's row (check).                                *)
LEMMA CheckStarts ==
  ASSUME TpInv, NEW c \in Admins, NEW p \in ProfileIds, StartCheck(c, p)
  PROVE  TpInv'
<1> USE ProfilesAssumption
<1> PICK j : j = [NoTpCall EXCEPT !.pc = "checking", !.prof = p, !.copy = profile[p]]
  OBVIOUS
<1>a. tpCall' = [tpCall EXCEPT ![c] = j]
  BY DEF StartCheck, Begin, HasProfile
<1>b. j.pc = "checking" /\ j.prof = p /\ j.copy = profile[p]
      /\ j.copy \in ProfileRow /\ profile[p] # NoProfile
  BY DEF TpInv, TpTypeOK, NoTpCall, NoProfile, StartCheck, Begin, HasProfile, ProfileRow,
     ProfileStatus
<1>t. j \in TpCall
  BY <1>b DEF TpInv, TpTypeOK, TpCall, NoTpCall, Unlisted, UnreadRows, StartCheck, Begin,
     HasProfile, ProfileRow, ProfileStatus
<1>1. TpTypeOK'
  BY <1>a, <1>b, <1>t DEF TpInv, TpTypeOK, StartCheck, Begin, HasProfile, ProfileRow,
     ProfileStatus, InboundRow, NoProfile, GoneProfile, ProfileRow, ProfileStatus
<1>2. ASSUME NEW d \in Admins PROVE HoldsARow(d)'
  BY <1>a, <1>b DEF TpInv, TpTypeOK, StartCheck, Begin, HasProfile, HoldsARow, WithRow,
     InboundsUsed, Used, NoProfile, GoneProfile
<1>3. ASSUME NEW d \in Admins PROVE RowAsRead(d)'
  BY <1>a, <1>b DEF TpInv, TpTypeOK, StartCheck, Begin, HasProfile, RowAsRead, HoldsARow,
     WithRow, IsStale
<1>4. ASSUME NEW d \in Admins PROVE ClientsAsListed(d)'
  BY <1>a, <1>b DEF TpInv, TpTypeOK, StartCheck, Begin, HasProfile, ClientsAsListed,
     HoldsARow, WithRow, OnPanel, Used
<1>5. ASSUME NEW d \in Admins PROVE InboundAsSent(d)'
  BY <1>a, <1>b DEF TpInv, TpTypeOK, StartCheck, Begin, HasProfile, InboundAsSent,
     HoldsARow, WithRow, IsStale, OnPanel, Used
<1>6. ASSUME NEW d \in Admins PROVE ListAsRead(d)'
  BY <1>a, <1>b DEF TpInv, TpTypeOK, StartCheck, Begin, HasProfile, ListAsRead, IsStale,
     OnPanel, Used
<1>7. ASSUME NEW d \in Admins PROVE RowsAsRead(d)'
  BY <1>a, <1>b DEF TpInv, TpTypeOK, StartCheck, Begin, HasProfile, RowsAsRead, IsStale
<1>8. InboundsUsed'
  BY <1>a, <1>b DEF TpInv, TpTypeOK, StartCheck, Begin, HasProfile, InboundsUsed, Used
<1>9. Agreed'
  BY <1>a, <1>b DEF TpInv, TpTypeOK, StartCheck, Begin, HasProfile, Agreed, OnPanel
<1>10. OwnedOnce'
  BY <1>a, <1>b DEF TpInv, TpTypeOK, StartCheck, Begin, HasProfile, OwnedOnce
<1>11. ClientsSurviveApply'
  BY <1>a, <1>b DEF TpInv, TpTypeOK, StartCheck, Begin, HasProfile, ClientsSurviveApply,
     OnPanel
<1>12. QED
  BY <1>1, <1>2, <1>3, <1>4, <1>5, <1>6, <1>7, <1>8, <1>9, <1>10, <1>11 DEF TpInv

(* An apply reads its profile's row and settles which inbound it is about  *)
(* (applyToProvider).                                                      *)
LEMMA ApplyStarts ==
  ASSUME TpInv, NEW c \in Admins, NEW p \in ProfileIds, StartApply(c, p)
  PROVE  TpInv'
<1> USE ProfilesAssumption
<1> PICK j : j = [NoTpCall EXCEPT !.pc = "sending", !.prof = p, !.copy = profile[p],
                 !.inb = profile[p].inbound, !.new = profile[p].inbound = NoInbound,
                 !.seen = IF profile[p].inbound = NoInbound THEN {}
                          ELSE inbound[profile[p].inbound].clients]
  OBVIOUS
<1>a. tpCall' = [tpCall EXCEPT ![c] = j]
  BY DEF StartApply, Begin, HasProfile, OnPanel
<1>b. j.pc = "sending" /\ j.prof = p /\ j.copy = profile[p]
      /\ j.copy \in ProfileRow /\ profile[p] # NoProfile
      /\ j.inb = profile[p].inbound /\ j.new = (j.inb = NoInbound)
      /\ j.seen = IF profile[p].inbound = NoInbound THEN {}
                   ELSE inbound[profile[p].inbound].clients
  BY DEF TpInv, TpTypeOK, NoTpCall, NoProfile, StartApply, Begin, HasProfile, OnPanel,
     ProfileRow, ProfileStatus
<1>c. j.new <=> j.copy.inbound = NoInbound
  BY <1>b
<1>p. j.seen \subseteq PanelClients
  <2>1. CASE profile[p].inbound = NoInbound
    BY <1>b, <2>1
  <2>2. CASE OnPanel(profile[p].inbound)
    <3>1. profile[p].inbound \in InboundIds
      BY <2>2 DEF TpInv, TpTypeOK, StartApply, HasProfile, OnPanel, ProfileRow
    <3>2. inbound[profile[p].inbound] \in InboundRow
      BY <2>2, <3>1 DEF TpInv, TpTypeOK, OnPanel
    <3>3. QED
      BY <1>b, <2>2, <3>2 DEF OnPanel, InboundRow
  <2>3. QED
    BY <2>1, <2>2 DEF StartApply
<1>t. j \in TpCall
  BY <1>b, <1>p DEF TpInv, TpTypeOK, TpCall, NoTpCall, Unlisted, UnreadRows, StartApply,
     Begin, HasProfile, OnPanel, ProfileRow, ProfileStatus
<1>1. TpTypeOK'
  BY <1>a, <1>b, <1>p, <1>t DEF TpInv, TpTypeOK, StartApply, Begin, HasProfile, OnPanel,
     ProfileRow, ProfileStatus, InboundRow, NoProfile, GoneProfile, ProfileRow,
     ProfileStatus
<1>2. ASSUME NEW d \in Admins PROVE HoldsARow(d)'
  BY <1>a, <1>b, <1>c, <1>p DEF TpInv, TpTypeOK, StartApply, HoldsARow, WithRow,
     InboundsUsed, Used, NoProfile
<1>3. ASSUME NEW d \in Admins PROVE RowAsRead(d)'
  BY <1>a, <1>b, <1>p DEF TpInv, TpTypeOK, StartApply, Begin, HasProfile, OnPanel,
     RowAsRead, HoldsARow, WithRow, IsStale
<1>4. ASSUME NEW d \in Admins PROVE ClientsAsListed(d)'
  BY <1>a, <1>b DEF TpInv, TpTypeOK, StartApply, ClientsAsListed, ClientsSurviveApply, OnPanel
<1>5. ASSUME NEW d \in Admins PROVE InboundAsSent(d)'
  BY <1>a, <1>b, <1>p DEF TpInv, TpTypeOK, StartApply, Begin, HasProfile, OnPanel,
     InboundAsSent, HoldsARow, WithRow, IsStale, OnPanel, Used
<1>6. ASSUME NEW d \in Admins PROVE ListAsRead(d)'
  BY <1>a, <1>b, <1>p DEF TpInv, TpTypeOK, StartApply, Begin, HasProfile, OnPanel,
     ListAsRead, IsStale, OnPanel, Used
<1>7. ASSUME NEW d \in Admins PROVE RowsAsRead(d)'
  BY <1>a, <1>b, <1>p DEF TpInv, TpTypeOK, StartApply, Begin, HasProfile, OnPanel,
     RowsAsRead, IsStale
<1>8. InboundsUsed'
  BY <1>a, <1>b, <1>p DEF TpInv, TpTypeOK, StartApply, Begin, HasProfile, OnPanel,
     InboundsUsed, Used
<1>9. Agreed'
  BY <1>a, <1>b, <1>p DEF TpInv, TpTypeOK, StartApply, Begin, HasProfile, OnPanel, Agreed,
     OnPanel
<1>10. OwnedOnce'
  BY <1>a, <1>b, <1>p DEF TpInv, TpTypeOK, StartApply, Begin, HasProfile, OnPanel, OwnedOnce
<1>11. ClientsSurviveApply'
  BY <1>a, <1>b, <1>p DEF TpInv, TpTypeOK, StartApply, Begin, HasProfile, OnPanel,
     ClientsSurviveApply, OnPanel
<1>12. QED
  BY <1>1, <1>2, <1>3, <1>4, <1>5, <1>6, <1>7, <1>8, <1>9, <1>10, <1>11 DEF TpInv

(* A sync lists the panel's inbounds (syncFromProvider).                   *)
LEMMA SyncStarts ==
  ASSUME TpInv, NEW c \in Admins, StartSync(c)
  PROVE  TpInv'
<1> USE ProfilesAssumption
<1> PICK j : j = [NoTpCall EXCEPT !.pc = "reading", !.list = inbound,
                                  !.todo = {i \in InboundIds : OnPanel(i)}]
  OBVIOUS
<1>a. tpCall' = [tpCall EXCEPT ![c] = j]
  BY DEF StartSync, Begin, OnPanel
<1>b. j.pc = "reading" /\ j.list = inbound /\ j.todo = {i \in InboundIds : OnPanel(i)}
  BY DEF TpInv, TpTypeOK, NoTpCall, NoProfile, StartSync, Begin, OnPanel
<1>t. j \in TpCall
  BY <1>b DEF TpInv, TpTypeOK, TpCall, NoTpCall, Unlisted, UnreadRows, StartSync, Begin,
     OnPanel
<1>1. TpTypeOK'
  BY <1>a, <1>b, <1>t DEF TpInv, TpTypeOK, StartSync, Begin, OnPanel, ProfileRow,
     ProfileStatus, InboundRow, NoProfile, GoneProfile
<1>2. ASSUME NEW d \in Admins PROVE HoldsARow(d)'
  BY <1>a, <1>b DEF TpInv, TpTypeOK, StartSync, Begin, OnPanel, HoldsARow, WithRow,
     InboundsUsed, Used, NoProfile, GoneProfile
<1>3. ASSUME NEW d \in Admins PROVE RowAsRead(d)'
  BY <1>a, <1>b DEF TpInv, TpTypeOK, StartSync, Begin, OnPanel, RowAsRead, HoldsARow,
     WithRow, IsStale
<1>4. ASSUME NEW d \in Admins PROVE ClientsAsListed(d)'
  BY <1>a, <1>b DEF TpInv, TpTypeOK, StartSync, Begin, OnPanel, ClientsAsListed, HoldsARow,
     WithRow, OnPanel, Used
<1>5. ASSUME NEW d \in Admins PROVE InboundAsSent(d)'
  BY <1>a, <1>b DEF TpInv, TpTypeOK, StartSync, Begin, OnPanel, InboundAsSent, HoldsARow,
     WithRow, IsStale, OnPanel, Used
<1>6. ASSUME NEW d \in Admins PROVE ListAsRead(d)'
  BY <1>a, <1>b DEF TpInv, TpTypeOK, StartSync, Begin, OnPanel, ListAsRead, IsStale,
     OnPanel, Used
<1>7. ASSUME NEW d \in Admins PROVE RowsAsRead(d)'
  BY <1>a, <1>b DEF TpInv, TpTypeOK, StartSync, Begin, OnPanel, RowsAsRead, IsStale
<1>8. InboundsUsed'
  BY <1>a, <1>b DEF TpInv, TpTypeOK, StartSync, Begin, OnPanel, InboundsUsed, Used
<1>9. Agreed'
  BY <1>a, <1>b DEF TpInv, TpTypeOK, StartSync, Begin, OnPanel, Agreed, OnPanel
<1>10. OwnedOnce'
  BY <1>a, <1>b DEF TpInv, TpTypeOK, StartSync, Begin, OnPanel, OwnedOnce
<1>11. ClientsSurviveApply'
  BY <1>a, <1>b DEF TpInv, TpTypeOK, StartSync, Begin, OnPanel, ClientsSurviveApply, OnPanel
<1>12. QED
  BY <1>1, <1>2, <1>3, <1>4, <1>5, <1>6, <1>7, <1>8, <1>9, <1>10, <1>11 DEF TpInv

(* A sync then reads the profiles there are.                               *)
LEMMA ProfilesRead ==
  ASSUME TpInv, NEW c \in Admins, ReadProfiles(c)
  PROVE  TpInv'
<1> USE ProfilesAssumption
<1> PICK j : j = [tpCall[c] EXCEPT !.pc = "syncing", !.rows = profile]
  OBVIOUS
<1>a. tpCall' = [tpCall EXCEPT ![c] = j]
  BY DEF ReadProfiles
<1>b. j.pc = "syncing" /\ j.rows = profile /\ j.list = tpCall[c].list
      /\ j.todo = tpCall[c].todo /\ tpCall[c] \in TpCall
  BY DEF TpInv, TpTypeOK, NoTpCall, NoProfile, ReadProfiles, TpCall
<1>t. j \in TpCall
  BY <1>b DEF TpInv, TpTypeOK, TpCall, NoTpCall, Unlisted, UnreadRows, ReadProfiles, TpCall
<1>1. TpTypeOK'
  BY <1>a, <1>b, <1>t DEF TpInv, TpTypeOK, ReadProfiles, ProfileRow, ProfileStatus,
     InboundRow, NoProfile, GoneProfile, TpCall
<1>2. ASSUME NEW d \in Admins PROVE HoldsARow(d)'
  BY <1>a, <1>b DEF TpInv, TpTypeOK, ReadProfiles, HoldsARow, WithRow, InboundsUsed, Used,
     NoProfile, GoneProfile
<1>3. ASSUME NEW d \in Admins PROVE RowAsRead(d)'
  BY <1>a, <1>b DEF TpInv, TpTypeOK, ReadProfiles, RowAsRead, HoldsARow, WithRow, IsStale
<1>4. ASSUME NEW d \in Admins PROVE ClientsAsListed(d)'
  BY <1>a, <1>b DEF TpInv, TpTypeOK, ReadProfiles, ClientsAsListed, HoldsARow, WithRow,
     OnPanel, Used
<1>5. ASSUME NEW d \in Admins PROVE InboundAsSent(d)'
  BY <1>a, <1>b DEF TpInv, TpTypeOK, ReadProfiles, InboundAsSent, HoldsARow, WithRow,
     IsStale, OnPanel, Used
<1>6. ASSUME NEW d \in Admins PROVE ListAsRead(d)'
  BY <1>a, <1>b DEF TpInv, TpTypeOK, ReadProfiles, ListAsRead, IsStale, OnPanel, Used
<1>7. ASSUME NEW d \in Admins PROVE RowsAsRead(d)'
  BY <1>a, <1>b DEF TpInv, TpTypeOK, ReadProfiles, RowsAsRead, IsStale
<1>8. InboundsUsed'
  BY <1>a, <1>b DEF TpInv, TpTypeOK, ReadProfiles, InboundsUsed, Used
<1>9. Agreed'
  BY <1>a, <1>b DEF TpInv, TpTypeOK, ReadProfiles, Agreed, OnPanel
<1>10. OwnedOnce'
  BY <1>a, <1>b DEF TpInv, TpTypeOK, ReadProfiles, OwnedOnce
<1>11. ClientsSurviveApply'
  BY <1>a, <1>b DEF TpInv, TpTypeOK, ReadProfiles, ClientsSurviveApply, OnPanel
<1>12. QED
  BY <1>1, <1>2, <1>3, <1>4, <1>5, <1>6, <1>7, <1>8, <1>9, <1>10, <1>11 DEF TpInv

(* A profile is made, about no inbound yet (create).                       *)
LEMMA ProfileCreated ==
  ASSUME TpInv, NEW p \in ProfileIds, NEW status \in {"draft", "active"},
         CreateProfile(p, status)
  PROVE  TpInv'
<1> USE ProfilesAssumption
<1>1. TpTypeOK'
  BY  DEF TpInv, TpTypeOK, CreateProfile, NextProfile, NoProfile, ProfileRow,
     ProfileStatus, InboundRow, NoProfile, GoneProfile
<1>2. ASSUME NEW d \in Admins PROVE HoldsARow(d)'
  BY DEF TpInv, TpTypeOK, CreateProfile, NextProfile, NoProfile, HoldsARow, WithRow,
     InboundsUsed, Used, NoProfile, GoneProfile
<1>3. ASSUME NEW d \in Admins PROVE RowAsRead(d)'
  BY DEF TpInv, TpTypeOK, CreateProfile, NextProfile, NoProfile, RowAsRead, HoldsARow,
     WithRow, IsStale
<1>4. ASSUME NEW d \in Admins PROVE ClientsAsListed(d)'
  BY DEF TpInv, TpTypeOK, CreateProfile, NextProfile, NoProfile, ClientsAsListed,
     HoldsARow, WithRow, OnPanel, Used
<1>5. ASSUME NEW d \in Admins PROVE InboundAsSent(d)'
  BY DEF TpInv, TpTypeOK, CreateProfile, NextProfile, NoProfile, InboundAsSent, HoldsARow,
     WithRow, IsStale, OnPanel, Used
<1>6. ASSUME NEW d \in Admins PROVE ListAsRead(d)'
  BY DEF TpInv, TpTypeOK, CreateProfile, NextProfile, NoProfile, ListAsRead, IsStale,
     OnPanel, Used
<1>7. ASSUME NEW d \in Admins PROVE RowsAsRead(d)'
  BY DEF TpInv, TpTypeOK, CreateProfile, NextProfile, NoProfile, RowsAsRead, IsStale
<1>8. InboundsUsed'
  BY DEF TpInv, TpTypeOK, CreateProfile, NextProfile, NoProfile, InboundsUsed, Used
<1>9. Agreed'
  BY DEF TpInv, TpTypeOK, CreateProfile, NextProfile, NoProfile, Agreed, OnPanel
<1>10. OwnedOnce'
  BY DEF TpInv, TpTypeOK, CreateProfile, NextProfile, NoProfile, OwnedOnce
<1>11. ClientsSurviveApply'
  BY DEF TpInv, TpTypeOK, CreateProfile, NextProfile, NoProfile, ClientsSurviveApply, OnPanel
<1>12. QED
  BY <1>1, <1>2, <1>3, <1>4, <1>5, <1>6, <1>7, <1>8, <1>9, <1>10, <1>11 DEF TpInv

(* A profile is removed, whatever is under way about it (delete).          *)
LEMMA ProfileRemoved ==
  ASSUME TpInv, NEW p \in ProfileIds, RemoveProfile(p)
  PROVE  TpInv'
<1> USE ProfilesAssumption
<1>1. TpTypeOK'
  BY  DEF TpInv, TpTypeOK, RemoveProfile, HasProfile, GoneProfile, HoldsRow, ProfileRow,
     ProfileStatus, InboundRow, NoProfile, GoneProfile
<1>2. ASSUME NEW d \in Admins PROVE HoldsARow(d)'
  BY DEF TpInv, TpTypeOK, RemoveProfile, HasProfile, GoneProfile, HoldsRow, HoldsARow,
     WithRow, InboundsUsed, Used, NoProfile, GoneProfile
<1>3. ASSUME NEW d \in Admins PROVE RowAsRead(d)'
  BY DEF TpInv, TpTypeOK, RemoveProfile, HasProfile, GoneProfile, HoldsRow, RowAsRead,
     HoldsARow, WithRow, IsStale
<1>4. ASSUME NEW d \in Admins PROVE ClientsAsListed(d)'
  BY DEF TpInv, TpTypeOK, RemoveProfile, HasProfile, GoneProfile, HoldsRow,
     ClientsAsListed, HoldsARow, WithRow, OnPanel, Used
<1>5. ASSUME NEW d \in Admins PROVE InboundAsSent(d)'
  BY DEF TpInv, TpTypeOK, RemoveProfile, HasProfile, GoneProfile, HoldsRow, InboundAsSent,
     HoldsARow, WithRow, IsStale, OnPanel, Used
<1>6. ASSUME NEW d \in Admins PROVE ListAsRead(d)'
  BY DEF TpInv, TpTypeOK, RemoveProfile, HasProfile, GoneProfile, HoldsRow, ListAsRead,
     IsStale, OnPanel, Used
<1>7. ASSUME NEW d \in Admins PROVE RowsAsRead(d)'
  BY DEF TpInv, TpTypeOK, RemoveProfile, HasProfile, GoneProfile, HoldsRow, RowsAsRead, IsStale
<1>8. InboundsUsed'
  BY DEF TpInv, TpTypeOK, RemoveProfile, HasProfile, GoneProfile, HoldsRow, InboundsUsed, Used
<1>9. Agreed'
  BY DEF TpInv, TpTypeOK, RemoveProfile, HasProfile, GoneProfile, HoldsRow, Agreed, OnPanel
<1>10. OwnedOnce'
  BY DEF TpInv, TpTypeOK, RemoveProfile, HasProfile, GoneProfile, HoldsRow, OwnedOnce
<1>11. ClientsSurviveApply'
  BY DEF TpInv, TpTypeOK, RemoveProfile, HasProfile, GoneProfile, HoldsRow,
     ClientsSurviveApply, OnPanel
<1>12. QED
  BY <1>1, <1>2, <1>3, <1>4, <1>5, <1>6, <1>7, <1>8, <1>9, <1>10, <1>11 DEF TpInv

(* An outdating write marks the others it concerns, and no more.           *)
LEMMA Outdated ==
  ASSUME NEW c, NEW others, NEW done \in BOOLEAN, Outdate(c, others, done)
  PROVE  /\ \A d : d # c => (IsStale(d)' <=> IsStale(d) \/ d \in others)
         /\ \A d : d # c => (<<d, "clients">> \in stale' <=> <<d, "clients">> \in stale)
         /\ ~done => (IsStale(c)' <=> IsStale(c))
         /\ ~done => (<<c, "clients">> \in stale' <=> <<c, "clients">> \in stale)
BY DEF Outdate, IsStale

(* Who is out of date is always some request.                              *)
LEMMA OutdatedTyped ==
  ASSUME NEW c \in Admins, NEW others \in SUBSET Admins, NEW done \in BOOLEAN,
         Outdate(c, others, done), stale \subseteq Admins \X {"rows", "clients"}
  PROVE  stale' \subseteq Admins \X {"rows", "clients"}
BY DEF Outdate

(* A request that a step leaves alone, and others that begin none.         *)
Waits(d) ==
  /\ tpCall'[d] = tpCall[d]
  /\ IsStale(d) => IsStale(d)'
  /\ <<d, "clients">> \in stale => <<d, "clients">> \in stale'
  /\ \A e \in Admins : tpCall'[e].pc \in WithRow =>
       tpCall[e].pc \in WithRow /\ tpCall'[e].copy = tpCall[e].copy

(* What a waiting request has read stays true of a row that another        *)
(* writes, or the request is out of date.                                  *)
LEMMA RowWrittenMeanwhile ==
  ASSUME TpInv, NEW p \in ProfileIds, NEW row \in ProfileRow, Used(row.inbound),
         profile' = [profile EXCEPT ![p] = row], UNCHANGED <<inbound, made, intact>>,
         NEW d \in Admins, Waits(d), d \in HoldsRow(p) => IsStale(d)',
         tpCall[d].pc = "saving" /\ tpCall[d].new /\ ~IsStale(d)' =>
           tpCall[d].inb # row.inbound
  PROVE  /\ HoldsARow(d)' /\ RowAsRead(d)' /\ ClientsAsListed(d)'
         /\ InboundAsSent(d)' /\ ListAsRead(d)' /\ RowsAsRead(d)'
<1>1. HoldsARow(d) /\ RowAsRead(d) /\ ClientsAsListed(d)
      /\ InboundAsSent(d) /\ ListAsRead(d) /\ RowsAsRead(d)
  BY DEF TpInv
<1>2. row # NoProfile
  BY DEF ProfileRow, ProfileStatus, NoProfile
<1>3. HoldsARow(d)'
  BY <1>1, <1>2 DEF TpInv, TpTypeOK, HoldsARow, Waits, Used
<1>4. RowAsRead(d)'
  <2>1. SUFFICES ASSUME tpCall[d].pc \in WithRow, ~IsStale(d)'
                 PROVE  profile'[tpCall[d].prof] = profile[tpCall[d].prof]
    BY <1>1 DEF RowAsRead, Waits
  <2>2. tpCall[d].prof # p
    BY <2>1 DEF HoldsRow
  <2>3. QED
    BY <1>1, <2>1, <2>2 DEF TpInv, TpTypeOK, HoldsARow
<1>5. ClientsAsListed(d)'
  BY <1>1 DEF ClientsAsListed, Waits, OnPanel
<1>6. InboundAsSent(d)'
  <2>1. SUFFICES ASSUME tpCall[d].pc = "saving", ~IsStale(d)', tpCall[d].new
                 PROVE  \A q \in ProfileIds : profile'[q].inbound # tpCall[d].inb
    BY <1>1 DEF InboundAsSent, Waits, OnPanel
  <2>2. QED
    BY <1>1, <2>1 DEF TpInv, TpTypeOK, InboundAsSent, Waits
<1>7. ListAsRead(d)'
  BY <1>1 DEF ListAsRead, Waits, OnPanel, Used
<1>8. RowsAsRead(d)'
  BY <1>1 DEF RowsAsRead, Waits, HoldsRow
<1>9. QED
  BY <1>3, <1>4, <1>5, <1>6, <1>7, <1>8

(* The same when an inbound is written on the panel.                       *)
LEMMA InboundWrittenMeanwhile ==
  ASSUME TpInv, NEW i \in InboundIds, NEW row, row # NoRowYet,
         inbound' = [inbound EXCEPT ![i] = row], UNCHANGED profile,
         intact' \subseteq intact, NEW d \in Admins, Waits(d),
         d \in HoldsInbound(i) => IsStale(d)',
         tpCall[d].inb = i /\ tpCall[d].pc = "sending" => (OnPanel(i)' => OnPanel(i)),
         \A j \in InboundIds : made'[j] # made[j] => j = i /\ ~OnPanel(i)'
  PROVE  /\ HoldsARow(d)' /\ RowAsRead(d)' /\ ClientsAsListed(d)'
         /\ InboundAsSent(d)' /\ ListAsRead(d)' /\ RowsAsRead(d)'
<1>1. HoldsARow(d) /\ RowAsRead(d) /\ ClientsAsListed(d)
      /\ InboundAsSent(d) /\ ListAsRead(d) /\ RowsAsRead(d)
  BY DEF TpInv
<1>3. HoldsARow(d)'
  BY <1>1 DEF TpInv, TpTypeOK, HoldsARow, Waits, Used
<1>4. RowAsRead(d)'
  BY <1>1 DEF RowAsRead, Waits
<1>5. ClientsAsListed(d)'
  BY <1>1 DEF TpInv, TpTypeOK, ClientsAsListed, Waits, OnPanel, HoldsARow, Used
<1>6. InboundAsSent(d)'
  <2>1. SUFFICES ASSUME tpCall[d].pc = "saving", ~IsStale(d)'
                 PROVE  InboundAsSent(d)'
    BY DEF InboundAsSent, Waits
  <2>2. tpCall[d].inb # i /\ tpCall[d].inb \in InboundIds
    BY <1>1, <2>1, ProfilesAssumption DEF HoldsInbound, HoldsARow, WithRow
  <2>3. inbound'[tpCall[d].inb] = inbound[tpCall[d].inb]
    BY <2>2 DEF TpInv, TpTypeOK
  <2>4. QED
    BY <1>1, <2>1, <2>3 DEF InboundAsSent, Waits, OnPanel
<1>7. ListAsRead(d)'
  <2>1. SUFFICES ASSUME tpCall[d].pc \in {"reading", "syncing"}
                 PROVE  ListAsRead(d)'
    BY DEF ListAsRead, Waits
  <2>2. \A j \in tpCall[d].todo : Used(j)'
    BY <1>1, <2>1 DEF TpInv, TpTypeOK, ListAsRead, Used
  <2>3. IsStale(d)'
    BY <2>1, ProfilesAssumption DEF HoldsInbound
  <2>4. QED
    BY <2>2, <2>3 DEF ListAsRead, Waits
<1>8. RowsAsRead(d)'
  BY <1>1 DEF RowsAsRead, Waits
<1>9. QED
  BY <1>3, <1>4, <1>5, <1>6, <1>7, <1>8

(* The facts about every request.                                          *)
ProfileCallFacts(d) ==
  /\ HoldsARow(d) /\ RowAsRead(d) /\ ClientsAsListed(d)
  /\ InboundAsSent(d) /\ ListAsRead(d) /\ RowsAsRead(d)

(* There is nothing to know of an administrator without a request.         *)
LEMMA NothingUnderWay ==
  ASSUME NEW d \in Admins, tpCall'[d] = NoTpCall
  PROVE  ProfileCallFacts(d)'
BY DEF ProfileCallFacts, HoldsARow, RowAsRead, ClientsAsListed, InboundAsSent, ListAsRead,
       RowsAsRead, NoTpCall, WithRow

RowSaved(c, p, row, others) ==
  /\ tpCall' = [tpCall EXCEPT ![c] = NoTpCall] /\ tpCalls' = tpCalls
  /\ profile' = [profile EXCEPT ![p] = row]
  /\ UNCHANGED <<inbound, made, intact>>
  /\ Outdate(c, others, TRUE)
  /\ settled' \subseteq ProfileIds /\ owned' \subseteq InboundIds
  /\ \A d \in Admins \ {c} :
       tpCall[d].pc = "saving" /\ tpCall[d].new /\ ~IsStale(d) /\ d \notin others =>
         tpCall[d].inb # row.inbound

(* A request that ends by saving its row keeps what is known of all the    *)
(* others.                                                                 *)
LEMMA RowSavedKeeps ==
  ASSUME TpInv, NEW c \in Admins, NEW p \in ProfileIds, NEW row \in ProfileRow,
         Used(row.inbound), NEW others \in SUBSET Admins, HoldsRow(p) \subseteq others,
         RowSaved(c, p, row, others)
  PROVE  /\ TpTypeOK' /\ InboundsUsed' /\ ClientsSurviveApply'
         /\ \A d \in Admins : ProfileCallFacts(d)'
<1>1. TpTypeOK'
  <2>1. stale' \subseteq Admins \X {"rows", "clients"}
    BY OutdatedTyped DEF TpInv, TpTypeOK, RowSaved
  <2>2. QED
    BY <2>1 DEF TpInv, TpTypeOK, RowSaved
<1>2. InboundsUsed' /\ ClientsSurviveApply'
  BY DEF TpInv, TpTypeOK, RowSaved, InboundsUsed, Used, ClientsSurviveApply, OnPanel
<1>3. ASSUME NEW d \in Admins PROVE ProfileCallFacts(d)'
  <2>1. CASE d = c
    BY <2>1, NothingUnderWay DEF TpInv, TpTypeOK, RowSaved
  <2>2. CASE d # c
    <3>1. /\ IsStale(d)' <=> IsStale(d) \/ d \in others
          /\ <<d, "clients">> \in stale' <=> <<d, "clients">> \in stale
      BY <2>2, Outdated DEF RowSaved
    <3>2. Waits(d)
      BY <2>2, <3>1 DEF Waits, TpInv, TpTypeOK, RowSaved, NoTpCall, WithRow
    <3>3. QED
      BY <2>2, <3>1, <3>2, RowWrittenMeanwhile DEF RowSaved, ProfileCallFacts
  <2>3. QED
    BY <2>1, <2>2
<1>4. QED
  BY <1>1, <1>2, <1>3

(* An inbound keeps its one profile if a row written names the inbound it  *)
(* named before, or those it named before and names now are not counted.   *)
LEMMA OwnedAfterRow ==
  ASSUME TpInv, NEW p \in ProfileIds, NEW row, profile' = [profile EXCEPT ![p] = row],
         \/ owned' \subseteq owned \ {row.inbound, profile[p].inbound}
         \/ owned' \subseteq owned /\ row.inbound = profile[p].inbound
  PROVE  OwnedOnce'
BY DEF TpInv, TpTypeOK, OwnedOnce

(* A settled profile agrees with its inbound after a row is written, when  *)
(* the row written does.                                                   *)
LEMMA AgreedAfterRow ==
  ASSUME TpInv, NEW p \in ProfileIds, NEW row, profile' = [profile EXCEPT ![p] = row],
         inbound' = inbound, settled' \subseteq settled \cup {p},
         p \in settled' =>
           /\ OnPanel(row.inbound)
           /\ row.status = "disabled" <=> ~inbound[row.inbound].enable
  PROVE  Agreed'
BY DEF TpInv, TpTypeOK, Agreed, OnPanel

(* The edited row is saved whole (update).                                 *)
LEMMA EditFinishes ==
  ASSUME ProfilesAssumption, TpInv, NEW c \in Admins, FinishEdit(c)
  PROVE  TpInv'
<1>1. PICK p, row, others : p = tpCall[c].prof /\ row = tpCall[c].copy /\ others = HoldsRow(p)
  OBVIOUS
<1>2. HoldsARow(c) /\ RowAsRead(c) /\ tpCall[c].pc = "editing"
  BY DEF TpInv, FinishEdit
<1>3. p \in ProfileIds /\ row \in ProfileRow /\ Used(row.inbound) /\ others \subseteq Admins
  BY <1>1, <1>2 DEF HoldsARow, WithRow, HoldsRow
<1>4. ASSUME NEW d \in Admins, tpCall[d].pc = "saving", tpCall[d].new, ~IsStale(d)
      PROVE  tpCall[d].inb # row.inbound
  BY <1>1, <1>2, <1>4 DEF TpInv, InboundAsSent, WithRow
<1>5. profile' = [profile EXCEPT ![p] = row] /\ settled' = settled \ {p}
  BY <1>1 DEF FinishEdit, Save
<1>6. \/ owned' \subseteq owned \ {row.inbound, profile[p].inbound}
      \/ owned' \subseteq owned /\ row.inbound = profile[p].inbound
  BY <1>1, <1>2 DEF FinishEdit, Save, RowAsRead, WithRow
<1>7. RowSaved(c, p, row, others)
  BY <1>1, <1>4, <1>5, <1>6 DEF RowSaved, FinishEdit, Finish, TpInv, TpTypeOK
<1>8. TpTypeOK' /\ InboundsUsed' /\ ClientsSurviveApply' /\ \A d \in Admins : ProfileCallFacts(d)'
  BY <1>1, <1>3, <1>7, RowSavedKeeps
<1>9. OwnedOnce'
  BY <1>3, <1>5, <1>6, OwnedAfterRow
<1>10. Agreed'
  BY <1>3, <1>5, AgreedAfterRow DEF FinishEdit
<1>11. QED
  BY <1>8, <1>9, <1>10 DEF TpInv, ProfileCallFacts

(* A row that stays on or off stays in step with its inbound.              *)
LEMMA CheckFinishes ==
  ASSUME ProfilesAssumption, TpInv, NEW c \in Admins, NEW ok \in BOOLEAN, FinishCheck(c, ok)
  PROVE  TpInv'
<1>1. PICK p, row, others :
        /\ p = tpCall[c].prof /\ others = HoldsRow(p)
        /\ row = [tpCall[c].copy EXCEPT !.status =
                    IF ok THEN AfterSuccessfulCheck(tpCall[c].copy.status)
                    ELSE AfterFailedCheck(tpCall[c].copy.status)]
  OBVIOUS
<1>2. HoldsARow(c) /\ RowAsRead(c) /\ tpCall[c].pc = "checking"
  BY DEF TpInv, FinishCheck
<1>3. /\ p \in ProfileIds /\ row \in ProfileRow /\ row.inbound = tpCall[c].copy.inbound
      /\ row.status = "disabled" <=> tpCall[c].copy.status = "disabled"
  BY <1>1, <1>2 DEF HoldsARow, WithRow, ProfileRow, ProfileStatus,
     AfterSuccessfulCheck, AfterFailedCheck
<1>4. Used(row.inbound) /\ others \in SUBSET Admins /\ HoldsRow(p) \subseteq others
  BY <1>1, <1>2, <1>3 DEF HoldsARow, WithRow, HoldsRow
<1>5. ASSUME NEW d \in Admins, tpCall[d].pc = "saving", tpCall[d].new, ~IsStale(d)
      PROVE  tpCall[d].inb # row.inbound
  BY <1>2, <1>3, <1>5 DEF TpInv, InboundAsSent, WithRow
<1>6. /\ profile' = [profile EXCEPT ![p] = row]
      /\ settled' = IF IsStale(c) THEN settled \ {p} ELSE settled
  BY <1>1 DEF FinishCheck, Save
<1>7. \/ owned' \subseteq owned \ {row.inbound, profile[p].inbound}
      \/ owned' \subseteq owned /\ row.inbound = profile[p].inbound
  BY <1>1, <1>2, <1>3 DEF FinishCheck, Save, RowAsRead, WithRow
<1>8. RowSaved(c, p, row, others)
  BY <1>1, <1>5, <1>6, <1>7 DEF RowSaved, FinishCheck, Finish, TpInv, TpTypeOK
<1>9. TpTypeOK' /\ InboundsUsed' /\ ClientsSurviveApply' /\ \A d \in Admins : ProfileCallFacts(d)'
  BY <1>3, <1>4, <1>8, RowSavedKeeps
<1>10. OwnedOnce'
  BY <1>3, <1>6, <1>7, OwnedAfterRow
<1>11. Agreed'
  <2>1. p \in settled' => /\ OnPanel(row.inbound)
                          /\ row.status = "disabled" <=> ~inbound[row.inbound].enable
    BY <1>1, <1>2, <1>3, <1>6 DEF TpInv, Agreed, RowAsRead, WithRow
  <2>2. inbound' = inbound /\ settled' \subseteq settled \cup {p}
    BY <1>6 DEF FinishCheck
  <2>3. QED
    BY <1>3, <1>6, <2>1, <2>2, AgreedAfterRow
<1>12. QED
  BY <1>9, <1>10, <1>11 DEF TpInv, ProfileCallFacts

(* An apply that was answered or not saves the row.                        *)
LEMMA ApplyFinishes ==
  ASSUME ProfilesAssumption, TpInv, NEW c \in Admins, FinishApply(c)
  PROVE  TpInv'
<1>1. PICK p, i, others, copy :
        /\ p = tpCall[c].prof /\ i = tpCall[c].inb /\ copy = tpCall[c].copy
        /\ others = HoldsRow(p) \cup HoldsInbound(i)
  OBVIOUS
<1>2. ProfileCallFacts(c) /\ tpCall[c].pc \in {"saving", "failing"}
  BY DEF TpInv, FinishApply, ProfileCallFacts
<1>3. p \in ProfileIds /\ copy \in ProfileRow /\ Used(copy.inbound)
  BY <1>1, <1>2 DEF ProfileCallFacts, HoldsARow, WithRow
<1>4. others \in SUBSET Admins /\ HoldsRow(p) \subseteq others /\ HoldsInbound(i) \subseteq others
  BY <1>1 DEF HoldsRow, HoldsInbound
<1>5. PICK row :
        row = IF tpCall[c].pc = "saving"
              THEN [status |-> IF copy.status = "disabled" THEN "disabled" ELSE "active",
                    inbound |-> i]
              ELSE [copy EXCEPT !.status = AfterFailedCheck(@)]
  OBVIOUS
<1>6. /\ row \in ProfileRow /\ Used(row.inbound)
      /\ row.status = "disabled" <=> copy.status = "disabled"
      /\ row.inbound = IF tpCall[c].pc = "saving" THEN i ELSE copy.inbound
  <2>1. CASE tpCall[c].pc = "saving"
    <3>1. i \in InboundIds /\ Used(i)
      BY <1>1, <1>2, <2>1 DEF ProfileCallFacts, HoldsARow, WithRow, Used
    <3>2. QED
      BY <1>5, <2>1, <3>1 DEF ProfileRow, ProfileStatus
  <2>2. CASE tpCall[c].pc # "saving"
    BY <1>3, <1>5, <2>2 DEF ProfileRow, ProfileStatus, AfterFailedCheck
  <2>3. QED
    BY <2>1, <2>2
<1>7. profile' = [profile EXCEPT ![p] = row] /\ inbound' = inbound
  BY <1>1, <1>2, <1>5 DEF FinishApply, Save
<1>8. ASSUME NEW d \in Admins \ {c}, tpCall[d].pc = "saving", tpCall[d].new, ~IsStale(d),
             d \notin others
      PROVE  tpCall[d].inb # row.inbound
  <2>1. tpCall[d].inb # i
    BY <1>4, <1>8, ProfilesAssumption DEF HoldsInbound, TpInv, HoldsARow, WithRow
  <2>2. tpCall[d].inb # copy.inbound
    BY <1>1, <1>2, <1>8 DEF TpInv, InboundAsSent, WithRow
  <2>3. QED
    BY <1>6, <2>1, <2>2
<1>9. CASE IsStale(c)
  <2>1. settled' = settled \ {p} /\ owned' = owned \ {row.inbound, profile[p].inbound}
    BY <1>1, <1>2, <1>6, <1>9 DEF FinishApply, Save
  <2>2. QED
    <3>1. RowSaved(c, p, row, others)
      BY <1>1, <1>7, <1>8, <2>1 DEF RowSaved, FinishApply, Finish, TpInv, TpTypeOK
    <3>2. TpTypeOK' /\ InboundsUsed' /\ ClientsSurviveApply' /\ \A d \in Admins : ProfileCallFacts(d)'
      BY <1>3, <1>4, <1>6, <3>1, RowSavedKeeps
    <3>3. OwnedOnce' /\ Agreed'
      BY <1>3, <1>7, <2>1, OwnedAfterRow, AgreedAfterRow
    <3>4. QED
      BY <3>2, <3>3 DEF TpInv, ProfileCallFacts
<1>10. CASE ~IsStale(c) /\ tpCall[c].pc = "saving"
  <2>1. /\ settled' = settled \cup {p}
        /\ owned' = IF tpCall[c].new THEN owned \cup {i} ELSE owned
    BY <1>1, <1>10 DEF FinishApply
  <2>2. /\ OnPanel(i) /\ i \in InboundIds
        /\ inbound[i].enable <=> copy.status # "disabled"
        /\ copy.inbound = profile[p].inbound
        /\ ~tpCall[c].new => i = copy.inbound
        /\ tpCall[c].new => /\ \A q \in ProfileIds : profile[q].inbound # i
                            /\ copy.inbound = NoInbound
    BY <1>1, <1>2, <1>10 DEF ProfileCallFacts, InboundAsSent, RowAsRead, HoldsARow, WithRow
  <2>3. RowSaved(c, p, row, others)
    BY <1>1, <1>3, <1>7, <1>8, <2>1, <2>2 DEF RowSaved, FinishApply, Finish, TpInv, TpTypeOK
  <2>4. TpTypeOK' /\ InboundsUsed' /\ ClientsSurviveApply' /\ \A d \in Admins : ProfileCallFacts(d)'
    BY <1>3, <1>4, <1>6, <2>3, RowSavedKeeps
  <2>5. OwnedOnce'
    BY <1>3, <1>6, <1>7, <1>10, <2>1, <2>2, ProfilesAssumption DEF TpInv, TpTypeOK, OwnedOnce
  <2>6. Agreed'
    BY <1>3, <1>6, <1>7, <1>10, <2>1, <2>2, AgreedAfterRow
  <2>7. QED
    BY <2>4, <2>5, <2>6 DEF TpInv, ProfileCallFacts
<1>11. CASE ~IsStale(c) /\ tpCall[c].pc # "saving"
  <2>1. settled' = settled /\ owned' = owned
    BY <1>1, <1>11 DEF FinishApply, Save
  <2>2. copy = profile[p] /\ row.inbound = profile[p].inbound
    BY <1>1, <1>2, <1>6, <1>11 DEF ProfileCallFacts, RowAsRead, WithRow
  <2>3. RowSaved(c, p, row, others)
    BY <1>1, <1>7, <1>8, <2>1 DEF RowSaved, FinishApply, Finish, TpInv, TpTypeOK
  <2>4. TpTypeOK' /\ InboundsUsed' /\ ClientsSurviveApply' /\ \A d \in Admins : ProfileCallFacts(d)'
    BY <1>3, <1>4, <1>6, <2>3, RowSavedKeeps
  <2>5. OwnedOnce'
    BY <1>3, <1>7, <2>1, <2>2, OwnedAfterRow
  <2>6. p \in settled' => /\ OnPanel(row.inbound)
                          /\ row.status = "disabled" <=> ~inbound[row.inbound].enable
    BY <1>6, <2>1, <2>2 DEF TpInv, Agreed
  <2>7. Agreed'
    BY <1>3, <1>7, <2>1, <2>6, AgreedAfterRow
  <2>8. QED
    BY <2>4, <2>5, <2>7 DEF TpInv, ProfileCallFacts
<1>12. QED
  BY <1>9, <1>10, <1>11

(* A sync brings one inbound into a profile of its own or of its choice    *)
(* (syncFromProvider).                                                     *)
LEMMA SyncStep ==
  ASSUME ProfilesAssumption, TpInv, NEW c \in Admins, NEW i \in InboundIds,
         NEW p \in ProfileIds, SyncInbound(c, i, p)
  PROVE  TpInv'
<1>1. PICK call, found, others, row, j :
        /\ call = tpCall[c] /\ found = ExistingFor(call.rows, i)
        /\ others = HoldsRow(p) \cup HoldsInbound(i)
        /\ row = [status |-> AfterProviderSync(IF found = {} THEN "active"
                                               ELSE call.rows[p].status,
                                               call.list[i].enable),
                  inbound |-> i]
        /\ j = [call EXCEPT !.todo = @ \ {i}]
  OBVIOUS
<1>2. ProfileCallFacts(c) /\ call.pc = "syncing" /\ i \in call.todo /\ call \in TpCall
  BY <1>1 DEF TpInv, TpTypeOK, SyncInbound, ProfileCallFacts, NoTpCall
<1>3. /\ profile' = [profile EXCEPT ![p] = row] /\ UNCHANGED <<inbound, made, intact, tpCalls>>
      /\ tpCall' = [tpCall EXCEPT ![c] = j]
      /\ Outdate(c, others, FALSE)
      /\ settled' = IF IsStale(c) THEN settled \ {p} ELSE settled \cup {p}
      /\ owned' = IF IsStale(c) THEN owned \ {i, profile[p].inbound}
                  ELSE IF found = {} THEN owned \cup {i} ELSE owned
      /\ IF found = {} THEN profile[p] = NoProfile ELSE p \in found
  BY <1>1 DEF SyncInbound, NextProfile
<1>4. /\ others \in SUBSET Admins /\ HoldsRow(p) \subseteq others /\ HoldsInbound(i) \subseteq others
  BY <1>1 DEF HoldsRow, HoldsInbound
<1>5. /\ j \in TpCall /\ j.pc = "syncing" /\ j.todo = call.todo \ {i}
      /\ j.rows = call.rows /\ j.list = call.list
  BY <1>1, <1>2 DEF TpCall
<1>6. Used(i) /\ (~IsStale(c) => OnPanel(i) /\ inbound[i].enable = call.list[i].enable)
  BY <1>1, <1>2 DEF ProfileCallFacts, ListAsRead
<1>7. row \in ProfileRow /\ row.inbound = i
  <2>1. i \in InboundIds
    BY <1>2
  <2>2. QED
    BY <1>1, <2>1 DEF ProfileRow, ProfileStatus, AfterProviderSync
<1>8. row.status = "disabled" <=> ~call.list[i].enable
  BY <1>1 DEF AfterProviderSync
<1>9. TpTypeOK'
  <2>1. stale' \subseteq Admins \X {"rows", "clients"}
    BY <1>3, <1>4, OutdatedTyped DEF TpInv, TpTypeOK
  <2>2. tpCall' \in [Admins -> TpCall \cup {NoTpCall}]
    BY <1>3, <1>5 DEF TpInv, TpTypeOK
  <2>3. QED
    BY <1>3, <1>7, <2>1, <2>2 DEF TpInv, TpTypeOK
<1>10. InboundsUsed' /\ ClientsSurviveApply'
  BY <1>3, <1>6, <1>7 DEF TpInv, TpTypeOK, InboundsUsed, Used, ClientsSurviveApply, OnPanel
<1>11. ASSUME NEW d \in Admins, d # c PROVE ProfileCallFacts(d)'
  <2>1. /\ IsStale(d)' <=> IsStale(d) \/ d \in others
        /\ <<d, "clients">> \in stale' <=> <<d, "clients">> \in stale
    BY <1>3, <1>11, Outdated
  <2>2. Waits(d)
    BY <1>3, <1>5, <1>11, <2>1 DEF Waits, TpInv, TpTypeOK, WithRow
  <2>3. tpCall[d].pc = "saving" /\ tpCall[d].new /\ ~IsStale(d)' => tpCall[d].inb # row.inbound
    BY <1>4, <1>7, <2>1, ProfilesAssumption DEF HoldsInbound
  <2>4. QED
    BY <1>3, <1>4, <1>6, <1>7, <2>1, <2>2, <2>3, RowWrittenMeanwhile DEF ProfileCallFacts
<1>12. ProfileCallFacts(c)'
  <2>1. IsStale(c)' <=> IsStale(c)
    BY <1>3, Outdated
  <2>2. tpCall'[c] = j
    BY <1>3 DEF TpInv, TpTypeOK
  <2>3. HoldsARow(c)' /\ RowAsRead(c)' /\ ClientsAsListed(c)' /\ InboundAsSent(c)'
    BY <1>5, <2>2 DEF HoldsARow, RowAsRead, ClientsAsListed, InboundAsSent, WithRow
  <2>4. ListAsRead(c)'
    BY <1>1, <1>2, <1>3, <1>5, <2>1, <2>2 DEF ProfileCallFacts, ListAsRead, Used, OnPanel
  <2>5. ~IsStale(c) => \A q \in ProfileIds :
          /\ profile[q].inbound \in call.todo => call.rows[q].inbound = profile[q].inbound
          /\ call.rows[q].inbound # NoInbound => profile[q].inbound = call.rows[q].inbound
    BY <1>1, <1>2 DEF ProfileCallFacts, RowsAsRead
  <2>6. ~IsStale(c) => \A q \in ProfileIds :
          /\ profile'[q].inbound \in j.todo => j.rows[q].inbound = profile'[q].inbound
          /\ j.rows[q].inbound # NoInbound => profile'[q].inbound = j.rows[q].inbound
    <3>1. SUFFICES ASSUME ~IsStale(c), NEW q \in ProfileIds
                   PROVE  /\ profile'[q].inbound \in j.todo => j.rows[q].inbound = profile'[q].inbound
                          /\ j.rows[q].inbound # NoInbound => profile'[q].inbound = j.rows[q].inbound
      OBVIOUS
    <3>2. CASE q # p
      BY <1>3, <1>5, <2>5, <3>1, <3>2 DEF TpInv, TpTypeOK
    <3>3. CASE q = p
      <4>1. profile'[p].inbound = i
        BY <1>3, <1>7 DEF TpInv, TpTypeOK
      <4>2. call.rows[p].inbound # NoInbound => call.rows[p].inbound = i
        BY <1>1, <1>3, <2>5, <3>1 DEF ExistingFor, NoProfile
      <4>3. QED
        BY <1>5, <3>3, <4>1, <4>2
    <3>4. QED
      BY <3>2, <3>3
  <2>7. RowsAsRead(c)'
    BY <2>1, <2>2, <2>6 DEF RowsAsRead
  <2>8. QED
    BY <2>3, <2>4, <2>7 DEF ProfileCallFacts
<1>13. OwnedOnce'
  <2>1. CASE IsStale(c)
    BY <1>3, <1>7, <2>1, OwnedAfterRow
  <2>2. CASE ~IsStale(c) /\ found # {}
    <3>1. profile[p].inbound = i
      BY <1>1, <1>2, <1>3, <2>2, ProfilesAssumption DEF ProfileCallFacts, RowsAsRead, ExistingFor
    <3>2. QED
      BY <1>3, <1>7, <2>2, <3>1, OwnedAfterRow
  <2>3. CASE ~IsStale(c) /\ found = {}
    <3>1. \A q \in ProfileIds : profile[q].inbound # i
      BY <1>1, <1>2, <2>3 DEF ProfileCallFacts, RowsAsRead, ExistingFor
    <3>2. profile[p].inbound = NoInbound
      BY <1>3, <2>3 DEF NoProfile
    <3>3. QED
      BY <1>3, <1>7, <2>3, <3>1, <3>2, ProfilesAssumption DEF TpInv, TpTypeOK, OwnedOnce
  <2>4. QED
    BY <2>1, <2>2, <2>3
<1>14. Agreed'
  <2>1. p \in settled' => /\ OnPanel(row.inbound)
                          /\ row.status = "disabled" <=> ~inbound[row.inbound].enable
    BY <1>3, <1>6, <1>7, <1>8
  <2>2. inbound' = inbound /\ settled' \subseteq settled \cup {p}
    BY <1>3
  <2>3. QED
    BY <1>3, <2>1, <2>2, AgreedAfterRow
<1>15. QED
  BY <1>9, <1>10, <1>11, <1>12, <1>13, <1>14 DEF TpInv, ProfileCallFacts

(* A write to an inbound that leaves it one.                               *)
LEMMA UsedAfterInbound ==
  ASSUME TpInv, NEW i \in InboundIds, NEW row, row # NoRowYet,
         inbound' = [inbound EXCEPT ![i] = row], UNCHANGED profile,
         \A k \in InboundIds \ {i} : made'[k] = made[k]
  PROVE  InboundsUsed'
BY DEF TpInv, TpTypeOK, InboundsUsed, Used

(* The inbound is created or updated on the panel, and the answer may be   *)
(* lost (applyToProvider).                                                 *)
LEMMA ApplySent ==
  ASSUME ProfilesAssumption, TpInv, NEW c \in Admins, NEW i \in InboundIds,
         NEW answer \in {"answered", "lost", "refused"}, SendApply(c, i, answer)
  PROVE  TpInv'
<1>1. PICK call, j, row :
        /\ call = tpCall[c]
        /\ j = [call EXCEPT !.pc = IF answer = "answered" THEN "saving" ELSE "failing",
                            !.inb = IF answer = "answered" THEN i ELSE @]
        /\ row = [enable |-> call.copy.status # "disabled", clients |-> ClientsSent(call)]
  OBVIOUS
<1>2. ProfileCallFacts(c) /\ call.pc = "sending" /\ call \in TpCall
  BY <1>1 DEF TpInv, TpTypeOK, SendApply, ProfileCallFacts, NoTpCall
<1>3. /\ tpCall' = [tpCall EXCEPT ![c] = j]
      /\ UNCHANGED <<profile, tpCalls, made, owned>>
      /\ call.new => inbound[i] = NoRowYet
      /\ ~call.new => i = call.inb
      /\ answer # "refused" => call.new \/ OnPanel(i)
  BY <1>1 DEF SendApply, NextInbound
<1>4. /\ j \in TpCall /\ j.pc = IF answer = "answered" THEN "saving" ELSE "failing"
      /\ j.inb = IF answer = "answered" THEN i ELSE call.inb
      /\ j.prof = call.prof /\ j.copy = call.copy /\ j.new = call.new /\ j.todo = call.todo
  BY <1>1, <1>2 DEF TpCall
<1>5. tpCall' \in [Admins -> TpCall \cup {NoTpCall}] /\ tpCall'[c] = j
  BY <1>3, <1>4 DEF TpInv, TpTypeOK
<1>6. HoldsARow(c)
  BY <1>2 DEF ProfileCallFacts
<1>7. CASE answer = "refused"
  <2>1. UNCHANGED <<inbound, stale, settled, intact>>
    BY <1>7 DEF SendApply
  <2>2. TpTypeOK'
    BY <1>3, <1>5, <2>1 DEF TpInv, TpTypeOK
  <2>3. InboundsUsed' /\ Agreed' /\ OwnedOnce' /\ ClientsSurviveApply'
    BY <1>3, <2>1 DEF TpInv, InboundsUsed, Used, Agreed, OnPanel, OwnedOnce,
       ClientsSurviveApply
  <2>4. ASSUME NEW d \in Admins PROVE HoldsARow(d)' /\ RowAsRead(d)'
    <3>1. CASE d = c
      BY <1>1, <1>2, <1>3, <1>4, <1>5, <1>7, <2>1, <3>1
      DEF ProfileCallFacts, HoldsARow, RowAsRead, WithRow, Used, IsStale
    <3>2. CASE d # c
      BY <1>3, <2>1, <3>2 DEF TpInv, TpTypeOK, HoldsARow, RowAsRead, WithRow, Used, IsStale
    <3>3. QED
      BY <3>1, <3>2
  <2>5. ASSUME NEW d \in Admins
        PROVE  ClientsAsListed(d)' /\ InboundAsSent(d)' /\ ListAsRead(d)' /\ RowsAsRead(d)'
    <3>1. CASE d = c
      BY <1>4, <1>5, <1>7, <3>1 DEF ClientsAsListed, InboundAsSent, ListAsRead, RowsAsRead
    <3>2. CASE d # c
      <4>1. \A e \in Admins : tpCall'[e].pc \in WithRow =>
              tpCall[e].pc \in WithRow /\ tpCall'[e].copy = tpCall[e].copy
        BY <1>1, <1>2, <1>3, <1>4 DEF TpInv, TpTypeOK, WithRow
      <4>2. tpCall'[d] = tpCall[d]
        BY <1>3, <3>2 DEF TpInv, TpTypeOK
      <4>3. ProfileCallFacts(d)
        BY DEF TpInv, ProfileCallFacts
      <4>4. ClientsAsListed(d)' /\ ListAsRead(d)' /\ RowsAsRead(d)'
        BY <1>3, <2>1, <4>2, <4>3
        DEF ProfileCallFacts, ClientsAsListed, ListAsRead, RowsAsRead, OnPanel, Used, IsStale
      <4>5. InboundAsSent(d)'
        BY <1>3, <2>1, <4>1, <4>2, <4>3 DEF ProfileCallFacts, InboundAsSent, OnPanel, IsStale
      <4>6. QED
        BY <4>4, <4>5
    <3>3. QED
      BY <3>1, <3>2
  <2>6. QED
    BY <2>2, <2>3, <2>4, <2>5 DEF TpInv
<1>8. CASE answer # "refused"
  <2>1. /\ inbound' = [inbound EXCEPT ![i] = row]
        /\ settled' = settled \ ({call.prof} \cup ExistingFor(profile, i))
        /\ intact' = IF <<c, "clients">> \in stale THEN intact \ {i} ELSE intact
        /\ Outdate(c, HoldsInbound(i), FALSE)
    BY <1>1, <1>8 DEF SendApply
  <2>2. row \in InboundRow /\ row.clients = call.seen
        /\ (row.enable <=> call.copy.status # "disabled")
    BY <1>1, <1>2 DEF InboundRow, ClientsSent, TpCall
  <2>3. row # NoRowYet /\ row # GoneRow
    BY <2>2, ProfilesAssumption DEF InboundRow, NoRowYet, GoneRow
  <2>4. TpTypeOK'
    <3>1. stale' \subseteq Admins \X {"rows", "clients"}
      BY <2>1, OutdatedTyped DEF TpInv, TpTypeOK, HoldsInbound
    <3>2. QED
      BY <1>3, <1>5, <2>1, <2>2, <3>1 DEF TpInv, TpTypeOK
  <2>5. InboundsUsed'
    BY <1>3, <2>1, <2>3, UsedAfterInbound
  <2>6. Agreed' /\ OwnedOnce'
    <3>1. \A p \in settled' : p \in settled /\ profile[p].inbound # i
      BY <2>1 DEF ExistingFor, TpInv, TpTypeOK
    <3>2. QED
      BY <1>3, <2>1, <3>1 DEF TpInv, TpTypeOK, Agreed, OnPanel, OwnedOnce
  <2>7. ClientsSurviveApply'
    <3>1. SUFFICES ASSUME i \in intact' PROVE row.clients = made[i]
      BY <1>3, <2>1 DEF TpInv, TpTypeOK, ClientsSurviveApply, OnPanel
    <3>2. i \in intact /\ <<c, "clients">> \notin stale
      BY <2>1, <3>1
    <3>3. CASE call.new
      BY <1>1, <1>2, <1>3, <1>6, <2>2, <3>3 DEF TpInv, InboundsUsed, HoldsARow, WithRow
    <3>4. CASE ~call.new
      BY <1>1, <1>2, <1>3, <1>8, <2>2, <3>2, <3>4 DEF ProfileCallFacts, ClientsAsListed
    <3>5. QED
      BY <3>3, <3>4
  <2>8. ASSUME NEW d \in Admins, d # c PROVE ProfileCallFacts(d)'
    <3>1. /\ IsStale(d)' <=> IsStale(d) \/ d \in HoldsInbound(i)
          /\ <<d, "clients">> \in stale' <=> <<d, "clients">> \in stale
      BY <2>1, <2>8, Outdated
    <3>2. Waits(d)
      <4>1. tpCall'[d] = tpCall[d]
        BY <1>3, <2>8 DEF TpInv, TpTypeOK
      <4>2. \A e \in Admins : tpCall'[e].pc \in WithRow =>
              tpCall[e].pc \in WithRow /\ tpCall'[e].copy = tpCall[e].copy
        BY <1>1, <1>2, <1>3, <1>4 DEF TpInv, TpTypeOK, WithRow
      <4>3. QED
        BY <3>1, <4>1, <4>2 DEF Waits
    <3>3. tpCall[d].inb = i /\ tpCall[d].pc = "sending" => (OnPanel(i)' => OnPanel(i))
      <4>1. CASE call.new
        <5>1. tpCall[d].pc = "sending" => tpCall[d].inb # i
          BY <1>3, <4>1, ProfilesAssumption DEF TpInv, HoldsARow, WithRow, Used
        <5>2. QED
          BY <5>1
      <4>2. CASE ~call.new
        BY <1>3, <1>8, <4>2
      <4>3. QED
        BY <4>1, <4>2
    <3>4. intact' \subseteq intact /\ UNCHANGED <<profile, made>>
      BY <1>3, <2>1
    <3>5. QED
      BY <2>1, <2>3, <3>1, <3>2, <3>3, <3>4, InboundWrittenMeanwhile DEF ProfileCallFacts
  <2>9. ProfileCallFacts(c)'
    <3>1. IsStale(c)' <=> IsStale(c)
      BY <2>1, Outdated
    <3>2. inbound'[i] = row /\ \A k \in InboundIds \ {i} : inbound'[k] = inbound[k]
      BY <2>1 DEF TpInv, TpTypeOK
    <3>3. HoldsARow(c)'
      BY <1>1, <1>2, <1>3, <1>4, <1>5, <1>6, <2>3, <3>2 DEF HoldsARow, WithRow, Used
    <3>4. RowAsRead(c)'
      BY <1>1, <1>2, <1>3, <1>4, <1>5, <3>1 DEF ProfileCallFacts, RowAsRead, WithRow
    <3>5. InboundAsSent(c)'
      <4>1. SUFFICES ASSUME j.pc = "saving"
                     PROVE  /\ OnPanel(i)'
                            /\ inbound'[i].enable <=> j.copy.status # "disabled"
                            /\ j.new =>
                                 /\ \A p \in ProfileIds : profile'[p].inbound # i
                                 /\ \A d \in Admins : tpCall'[d].pc \in WithRow =>
                                      tpCall'[d].copy.inbound # i
        BY <1>4, <1>5 DEF InboundAsSent
      <4>2. OnPanel(i)' /\ (inbound'[i].enable <=> j.copy.status # "disabled")
        BY <1>4, <2>2, <2>3, <3>2, ProfilesAssumption DEF OnPanel
      <4>3. ASSUME j.new PROVE \A p \in ProfileIds : profile'[p].inbound # i
        BY <1>3, <1>4, <4>3, ProfilesAssumption DEF TpInv, InboundsUsed, Used
      <4>4. ASSUME j.new, NEW d \in Admins, tpCall'[d].pc \in WithRow
            PROVE  tpCall'[d].copy.inbound # i
        <5>1. tpCall[d].pc \in WithRow /\ tpCall'[d].copy = tpCall[d].copy
          BY <1>1, <1>2, <1>3, <1>4, <4>4 DEF TpInv, TpTypeOK, WithRow
        <5>2. Used(tpCall[d].copy.inbound) /\ inbound[i] = NoRowYet
          BY <1>3, <1>4, <4>4, <5>1 DEF TpInv, HoldsARow
        <5>3. QED
          BY <5>1, <5>2, ProfilesAssumption DEF Used
      <4>5. QED
        BY <4>2, <4>3, <4>4
    <3>6. ClientsAsListed(c)' /\ ListAsRead(c)' /\ RowsAsRead(c)'
      BY <1>4, <1>5 DEF ClientsAsListed, ListAsRead, RowsAsRead
    <3>7. QED
      BY <3>3, <3>4, <3>5, <3>6 DEF ProfileCallFacts
  <2>10. QED
    BY <2>4, <2>5, <2>6, <2>7, <2>8, <2>9 DEF TpInv, ProfileCallFacts
<1>9. QED
  BY <1>7, <1>8

(* A sync that is through with its list.                                   *)
LEMMA SyncFinishes ==
  ASSUME ProfilesAssumption, TpInv, NEW c \in Admins, FinishSync(c)
  PROVE  TpInv'
<1>1. /\ tpCall' = [tpCall EXCEPT ![c] = NoTpCall]
      /\ UNCHANGED <<profile, inbound, tpCalls, made, settled, owned, intact>>
      /\ Outdate(c, {}, TRUE)
  BY DEF FinishSync, Finish
<1>2. TpTypeOK'
  <2>1. stale' \subseteq Admins \X {"rows", "clients"}
    BY <1>1, OutdatedTyped DEF TpInv, TpTypeOK
  <2>2. QED
    BY <1>1, <2>1 DEF TpInv, TpTypeOK
<1>3. InboundsUsed' /\ Agreed' /\ OwnedOnce' /\ ClientsSurviveApply'
  BY <1>1 DEF TpInv, InboundsUsed, Used, Agreed, OnPanel, OwnedOnce, ClientsSurviveApply
<1>4. ASSUME NEW d \in Admins PROVE ProfileCallFacts(d)'
  <2>1. CASE d = c
    BY <1>1, <2>1, NothingUnderWay DEF TpInv, TpTypeOK
  <2>2. CASE d # c
    <3>1. /\ IsStale(d)' <=> IsStale(d)
          /\ <<d, "clients">> \in stale' <=> <<d, "clients">> \in stale
      BY <1>1, <2>2, Outdated
    <3>2. tpCall'[d] = tpCall[d]
      BY <1>1, <2>2 DEF TpInv, TpTypeOK
    <3>3. \A e \in Admins : tpCall'[e].pc \in WithRow =>
            tpCall[e].pc \in WithRow /\ tpCall'[e].copy = tpCall[e].copy
      BY <1>1 DEF TpInv, TpTypeOK, NoTpCall, WithRow
    <3>4. ProfileCallFacts(d)
      BY DEF TpInv, ProfileCallFacts
    <3>5. HoldsARow(d)' /\ RowAsRead(d)' /\ ClientsAsListed(d)' /\ ListAsRead(d)' /\ RowsAsRead(d)'
      BY <1>1, <3>1, <3>2, <3>4
      DEF ProfileCallFacts, HoldsARow, RowAsRead, ClientsAsListed, ListAsRead, RowsAsRead, OnPanel, Used
    <3>6. InboundAsSent(d)'
      BY <1>1, <3>1, <3>2, <3>3, <3>4 DEF ProfileCallFacts, InboundAsSent, OnPanel
    <3>7. QED
      BY <3>5, <3>6 DEF ProfileCallFacts
  <2>3. QED
    BY <2>1, <2>2
<1>5. QED
  BY <1>2, <1>3, <1>4 DEF TpInv, ProfileCallFacts

(* The process stops, and every request with it.                           *)
LEMMA RestartKeeps ==
  ASSUME TpInv, Restart
  PROVE  TpInv'
<1>1. \A d \in Admins : tpCall'[d] = NoTpCall
  BY DEF Restart
<1>2. \A d \in Admins : ProfileCallFacts(d)'
  BY <1>1, NothingUnderWay
<1>3. TpTypeOK'
  BY DEF Restart, TpInv, TpTypeOK
<1>4. InboundsUsed' /\ Agreed' /\ OwnedOnce' /\ ClientsSurviveApply'
  BY DEF Restart, TpInv, InboundsUsed, Used, Agreed, OnPanel, OwnedOnce, ClientsSurviveApply
<1>5. QED
  BY <1>2, <1>3, <1>4 DEF TpInv, ProfileCallFacts

(* What an operator makes, switches or removes on the panel by hand.       *)
LEMMA ByHandKeeps ==
  ASSUME ProfilesAssumption, TpInv, NEW i \in InboundIds, PanelByHand(i)
  PROVE  TpInv'
<1>1. PICK row : /\ ByHand(i, row)
                 /\ \/ NextInbound(i) /\ row = [enable |-> TRUE, clients |-> {}]
                    \/ OnPanel(i) /\ row = [inbound[i] EXCEPT !.enable = ~@]
                    \/ OnPanel(i) /\ row = GoneRow
  BY DEF PanelByHand
<1>2. /\ inbound' = [inbound EXCEPT ![i] = row]
      /\ made' = [made EXCEPT ![i] = IF row = GoneRow THEN {} ELSE @]
      /\ settled' = settled \ ExistingFor(profile, i)
      /\ stale' = stale \cup (HoldsInbound(i) \X {"rows"})
      /\ UNCHANGED <<profile, tpCall, owned, intact>>
      /\ tpCalls' \in 0 .. MaxTpCalls
  BY <1>1, ProfilesAssumption DEF ByHand, TpInv, TpTypeOK
<1>3. \/ row = GoneRow
      \/ row \in InboundRow /\ row.clients = {} /\ inbound[i] = NoRowYet
      \/ row \in InboundRow /\ OnPanel(i) /\ row.clients = inbound[i].clients
  <2>1. CASE NextInbound(i) /\ row = [enable |-> TRUE, clients |-> {}]
    <3>1. row \in InboundRow /\ row.clients = {}
      BY <2>1 DEF InboundRow
    <3>2. QED
      BY <2>1, <3>1 DEF NextInbound
  <2>2. CASE OnPanel(i) /\ row = [inbound[i] EXCEPT !.enable = ~@]
    <3>1. inbound[i] \in InboundRow
      BY <2>2 DEF TpInv, TpTypeOK, OnPanel
    <3>2. QED
      BY <2>2, <3>1 DEF InboundRow
  <2>3. CASE row = GoneRow
    BY <2>3
  <2>4. QED
    BY <1>1, <2>1, <2>2, <2>3
<1>4. row # NoRowYet
  BY <1>3, ProfilesAssumption DEF InboundRow, NoRowYet, GoneRow
<1>5. TpTypeOK'
  BY <1>2, <1>3 DEF TpInv, TpTypeOK, HoldsInbound
<1>6. InboundsUsed'
  BY <1>2, <1>4, UsedAfterInbound DEF TpInv, TpTypeOK
<1>7. Agreed' /\ OwnedOnce'
  <2>1. \A p \in settled' : p \in settled /\ profile[p].inbound # i
    BY <1>2 DEF ExistingFor, TpInv, TpTypeOK
  <2>2. QED
    BY <1>2, <2>1 DEF TpInv, TpTypeOK, Agreed, OnPanel, OwnedOnce
<1>8. ClientsSurviveApply'
  <2>1. SUFFICES ASSUME i \in intact, OnPanel(i)'
                 PROVE  row.clients = made'[i]
    BY <1>2 DEF TpInv, TpTypeOK, ClientsSurviveApply, OnPanel
  <2>2. row # GoneRow /\ made'[i] = made[i]
    BY <1>2, <2>1 DEF OnPanel, TpInv, TpTypeOK
  <2>3. QED
    BY <1>3, <2>1, <2>2 DEF TpInv, InboundsUsed, ClientsSurviveApply
<1>9. ASSUME NEW d \in Admins PROVE ProfileCallFacts(d)'
  <2>1. Waits(d)
    BY <1>2 DEF Waits, IsStale
  <2>2. d \in HoldsInbound(i) => IsStale(d)'
    BY <1>2 DEF IsStale
  <2>3. tpCall[d].inb = i /\ tpCall[d].pc = "sending" => (OnPanel(i)' => OnPanel(i))
    <3>1. CASE inbound[i] = NoRowYet
      BY <3>1, ProfilesAssumption DEF TpInv, HoldsARow, WithRow, Used
    <3>2. CASE OnPanel(i)
      BY <3>2
    <3>3. QED
      BY <1>1, <3>1, <3>2 DEF NextInbound
  <2>4. \A k \in InboundIds : made'[k] # made[k] => k = i /\ ~OnPanel(i)'
    BY <1>2 DEF TpInv, TpTypeOK, OnPanel
  <2>5. intact' \subseteq intact /\ UNCHANGED profile
    BY <1>2
  <2>6. QED
    BY <1>2, <1>4, <2>1, <2>2, <2>3, <2>4, <2>5, InboundWrittenMeanwhile DEF ProfileCallFacts
<1>10. QED
  BY <1>5, <1>6, <1>7, <1>8, <1>9 DEF TpInv, ProfileCallFacts

(* A device handler makes or deletes a client: an apply that has listed    *)
(* the inbound's clients is out of date.                                   *)
LEMMA ClientsChange ==
  ASSUME ProfilesAssumption, TpInv, NEW i \in InboundIds, NEW k \in PanelClients,
         ChangeClients(i, k)
  PROVE  TpInv'
<1>1. PICK clients, row, kept :
        /\ row = [inbound[i] EXCEPT !.clients = clients]
        /\ inbound' = [inbound EXCEPT ![i] = row]
        /\ made' = [made EXCEPT ![i] = kept]
        /\ \/ clients = inbound[i].clients \cup {k} /\ kept = made[i] \cup {k}
           \/ clients = inbound[i].clients \ {k} /\ kept = made[i] \ {k}
  BY DEF ChangeClients
<1>2. OnPanel(i) /\ UNCHANGED <<profile, tpCall, tpCalls, settled, owned, intact>>
  BY DEF ChangeClients
<1>3. stale' = stale \cup ({c \in Admins : tpCall[c].pc = "sending" /\ tpCall[c].inb = i}
                             \X {"clients"})
  BY DEF ChangeClients
<1>4. /\ row \in InboundRow /\ row.enable = inbound[i].enable /\ row.clients = clients
      /\ kept \subseteq PanelClients
  <2>1. inbound[i] \in InboundRow
    BY <1>2 DEF TpInv, TpTypeOK, OnPanel
  <2>2. QED
    BY <1>1, <2>1 DEF InboundRow, TpInv, TpTypeOK
<1>5. row # NoRowYet /\ row # GoneRow
  BY <1>4, ProfilesAssumption DEF InboundRow, NoRowYet, GoneRow
<1>6. \A n : /\ OnPanel(n)' <=> OnPanel(n)
             /\ n \in InboundIds => inbound'[n].enable = inbound[n].enable
             /\ n \in InboundIds => (inbound'[n] = NoRowYet <=> inbound[n] = NoRowYet)
  <2>1. SUFFICES ASSUME NEW n
                 PROVE  /\ OnPanel(n)' <=> OnPanel(n)
                        /\ n \in InboundIds => inbound'[n].enable = inbound[n].enable
                        /\ n \in InboundIds => (inbound'[n] = NoRowYet <=> inbound[n] = NoRowYet)
    OBVIOUS
  <2>2. CASE n = i
    BY <1>1, <1>2, <1>4, <1>5, <2>2 DEF TpInv, TpTypeOK, OnPanel
  <2>3. CASE n # i /\ n \in InboundIds
    BY <1>1, <2>3 DEF TpInv, TpTypeOK, OnPanel
  <2>4. CASE n \notin InboundIds
    <3>1. inbound'[n] = inbound[n]
      BY <1>1, <2>4 DEF TpInv, TpTypeOK
    <3>2. QED
      BY <2>4, <3>1 DEF OnPanel
  <2>5. QED
    BY <2>2, <2>3, <2>4
<1>7. TpTypeOK'
  BY <1>1, <1>2, <1>3, <1>4 DEF TpInv, TpTypeOK
<1>8. InboundsUsed' /\ Agreed' /\ OwnedOnce' /\ ClientsSurviveApply'
  <2>1. InboundsUsed'
    <3>1. inbound[i] # NoRowYet
      BY <1>2 DEF OnPanel
    <3>2. QED
      BY <1>1, <1>2, <1>6, <3>1 DEF TpInv, TpTypeOK, InboundsUsed, Used
  <2>2. Agreed' /\ OwnedOnce'
    <3>1. \A p \in settled : profile[p].inbound \in InboundIds
      BY ProfilesAssumption DEF TpInv, TpTypeOK, Agreed, InboundsUsed, Used, OnPanel
    <3>2. QED
      BY <1>2, <1>6, <3>1 DEF TpInv, Agreed, OwnedOnce
  <2>3. ClientsSurviveApply'
    <3>1. i \in intact => clients = kept
      BY <1>1, <1>2 DEF TpInv, ClientsSurviveApply
    <3>2. SUFFICES ASSUME NEW n \in intact, OnPanel(n)
                   PROVE  inbound'[n].clients = made'[n]
      BY <1>2, <1>6 DEF ClientsSurviveApply
    <3>3. CASE n = i
      BY <1>1, <1>4, <3>1, <3>2, <3>3 DEF TpInv, TpTypeOK
    <3>4. CASE n # i
      BY <1>1, <3>2, <3>4 DEF TpInv, TpTypeOK, ClientsSurviveApply
    <3>5. QED
      BY <3>3, <3>4
  <2>4. QED
    BY <2>1, <2>2, <2>3
<1>9. ASSUME NEW d \in Admins PROVE ProfileCallFacts(d)'
  <2>1. /\ tpCall'[d] = tpCall[d] /\ (IsStale(d)' <=> IsStale(d))
        /\ <<d, "clients">> \in stale => <<d, "clients">> \in stale'
        /\ tpCall[d].pc = "sending" /\ tpCall[d].inb = i => <<d, "clients">> \in stale'
    BY <1>2, <1>3 DEF IsStale
  <2>2. ProfileCallFacts(d)
    BY DEF TpInv, ProfileCallFacts
  <2>3. HoldsARow(d)' /\ RowAsRead(d)'
    BY <1>2, <1>6, <2>1, <2>2 DEF ProfileCallFacts, HoldsARow, RowAsRead, Used
  <2>4. ClientsAsListed(d)'
    <3>1. SUFFICES ASSUME tpCall[d].pc = "sending", tpCall[d].inb \in intact,
                          OnPanel(tpCall[d].inb), <<d, "clients">> \notin stale'
                   PROVE  tpCall[d].seen = made'[tpCall[d].inb]
      BY <1>2, <1>6, <2>1 DEF ClientsAsListed
    <3>2. tpCall[d].inb # i /\ tpCall[d].inb \in InboundIds
      BY <2>1, <3>1 DEF TpInv, TpTypeOK
    <3>3. made'[tpCall[d].inb] = made[tpCall[d].inb]
      BY <1>1, <3>2 DEF TpInv, TpTypeOK
    <3>4. QED
      BY <2>1, <2>2, <3>1, <3>3 DEF ProfileCallFacts, ClientsAsListed
  <2>5. InboundAsSent(d)'
    BY <1>2, <1>6, <2>1, <2>2 DEF ProfileCallFacts, InboundAsSent, HoldsARow, WithRow
  <2>6. ListAsRead(d)' /\ RowsAsRead(d)'
    BY <1>2, <1>6, <2>1, <2>2, ProfilesAssumption DEF ProfileCallFacts, ListAsRead, RowsAsRead,
       Used, OnPanel
  <2>7. QED
    BY <2>3, <2>4, <2>5, <2>6 DEF ProfileCallFacts
<1>10. QED
  BY <1>7, <1>8, <1>9 DEF TpInv, ProfileCallFacts

(* The invariant holds of the database and the panel at the start.         *)
LEMMA TpStarts == ASSUME ProfilesAssumption, TpInit PROVE TpInv
<1>1. TpTypeOK
  BY DEF TpInit, TpTypeOK, UnreadRows, Unlisted
<1>2. \A d \in Admins : ProfileCallFacts(d)
  BY DEF TpInit, ProfileCallFacts, HoldsARow, RowAsRead, ClientsAsListed, InboundAsSent, ListAsRead,
         RowsAsRead, NoTpCall, WithRow
<1>3. InboundsUsed /\ Agreed /\ OwnedOnce /\ ClientsSurviveApply
  BY ProfilesAssumption
  DEF TpInit, InboundsUsed, Used, Agreed, OwnedOnce, ClientsSurviveApply, UnreadRows,
      Unlisted, NoProfile, OnPanel
<1>4. QED
  BY <1>1, <1>2, <1>3 DEF TpInv, ProfileCallFacts

(* The invariant of profiles and panel, step by step.                      *)
LEMMA TpInvariance == TpSpec => []TpInv
<1>1. TpInit => TpInv
  BY TpStarts, ProfilesAssumption
<1>2. ASSUME TpInv, [TpNext]_tpVars PROVE TpInv'
  <2>1. CASE \E p \in ProfileIds :
              \/ \E status \in {"draft", "active"} : CreateProfile(p, status)
              \/ RemoveProfile(p)
    BY <1>2, <2>1, ProfileCreated, ProfileRemoved
  <2>2. CASE \E p \in ProfileIds, c \in Admins :
              \/ \E status \in EditStatuses : StartEdit(c, p, status)
              \/ StartCheck(c, p)
              \/ StartApply(c, p)
              \/ \E i \in InboundIds : SyncInbound(c, i, p)
    BY <1>2, <2>2, ProfilesAssumption, EditStarts, CheckStarts, ApplyStarts, SyncStep
  <2>3. CASE \E c \in Admins :
              \/ FinishEdit(c)
              \/ \E ok \in BOOLEAN : FinishCheck(c, ok)
              \/ \E i \in InboundIds, answer \in {"answered", "lost", "refused"} :
                   SendApply(c, i, answer)
              \/ FinishApply(c)
              \/ StartSync(c) \/ ReadProfiles(c) \/ FinishSync(c)
    BY <1>2, <2>3, ProfilesAssumption, EditFinishes, CheckFinishes, ApplySent, ApplyFinishes,
       SyncStarts, ProfilesRead, SyncFinishes
  <2>4. CASE Restart
    BY <1>2, <2>4, RestartKeeps
  <2>5. CASE \E i \in InboundIds :
              PanelByHand(i) \/ \E k \in PanelClients : ChangeClients(i, k)
    BY <1>2, <2>5, ProfilesAssumption, ByHandKeeps, ClientsChange
  <2>6. CASE UNCHANGED tpVars
    BY <1>2, <2>6 DEF tpVars, TpInv, TpTypeOK, HoldsARow, RowAsRead, ClientsAsListed,
       InboundAsSent, ListAsRead, RowsAsRead, InboundsUsed, Used, Agreed, OwnedOnce,
       ClientsSurviveApply, IsStale, OnPanel
  <2>7. QED
    BY <1>2, <2>1, <2>2, <2>3, <2>4, <2>5, <2>6 DEF TpNext
<1>3. QED
  BY <1>1, <1>2, PTL DEF TpSpec

(* The rows and the panel agree from an apply or a sync to the next edit   *)
(* or change by hand, whatever requests overlap or are cut short           *)
(* (check, applyToProvider, syncFromProvider).                             *)
THEOREM RowsAgreeWithPanel == TpSpec => []RowAgreesWithPanel
<1>1. TpInv => RowAgreesWithPanel
  BY DEF TpInv, Agreed, RowAgreesWithPanel, RuntimeProfiles
<1>2. QED
  BY <1>1, TpInvariance, PTL

(* No interleaving of edits, checks, applies and syncs gives an inbound    *)
(* that was created or adopted a second profile (syncFromProvider,         *)
(* applyToProvider).                                                       *)
THEOREM InboundsOwnedOnce == TpSpec => []OwnedOnce
<1>1. TpInv => OwnedOnce
  BY DEF TpInv
<1>2. QED
  BY <1>1, TpInvariance, PTL

(* An apply puts back the clients the panel has, and no others, unless one *)
(* was made or deleted between its list and its update (providerSettings). *)
THEOREM ClientsSurvive == TpSpec => []ClientsSurviveApply
<1>1. TpInv => ClientsSurviveApply
  BY DEF TpInv
<1>2. QED
  BY <1>1, TpInvariance, PTL

(* transport-profiles.service.ts keeps its rows, and the panel its         *)
(* inbounds, in their types.                                               *)
THEOREM ProfilesTypeCorrect == TpSpec => []TpTypeOK
<1>1. TpInv => TpTypeOK
  BY DEF TpInv
<1>2. QED
  BY <1>1, TpInvariance, PTL
-----------------------------------------------------------------------------
(* The hourly table of telemetry.                                          *)

(* Cutoffs fall on the hour, and no earlier than the window asked for.     *)
CutoffFacts(r) ==
  LET this == report[r] IN
  this.pc \in {"reading", "writing", "totals"} /\ ~(this.pc = "totals" /\ this.stale) =>
    /\ this.cutoff = HourOf(this.cutoff)
    /\ this.kind = "report" => this.cutoff <= HourCutoff(BoundHours(this.hours))

(* What is about to be written was sent and is of the window.              *)
ReadFacts(r) ==
  LET this == report[r] IN
  /\ this.pc = "reading" => ~this.stale
  /\ this.pc = "writing" =>
       /\ \A e \in this.read : Sent(e) /\ HourOf(observed[e]) >= this.cutoff
       /\ \A e \in this.recorded : HourOf(observed[e]) >= this.cutoff => e \in this.read
       /\ ~this.stale => \A e \in due : HourOf(observed[e]) >= this.cutoff => e \in this.read
  /\ this.pc = "totals" =>
       /\ this.kind = "report"
       /\ ~this.stale => \A e \in this.recorded :
            HourOf(observed[e]) >= this.cutoff => copies[e] = 1

RecordedFacts(r) == report[r] # NoReport => \A e \in report[r].recorded : Sent(e)

HourlyInv ==
  /\ TelemetryTypeOK /\ HourlyCountsOnce
  /\ \A e \in due : Sent(e)
  /\ \A r \in Reports : CutoffFacts(r) /\ ReadFacts(r) /\ RecordedFacts(r)

(* HourOf rounds down to a whole hour.                                     *)
LEMMA HourFacts ==
  ASSUME NEW t \in Int
  PROVE  HourOf(t) \in Int /\ HourOf(t) <= t /\ t <= HourOf(t) + 1
         /\ HourOf(HourOf(t)) = HourOf(t)
BY DEF HourOf

(* A later moment is not of an earlier hour.                               *)
LEMMA HourMonotone ==
  ASSUME NEW t \in Int, NEW u \in Int, t <= u
  PROVE  HourOf(t) <= HourOf(u)
BY DEF HourOf

(* boundHours makes a number of hours of whatever it is asked.             *)
LEMMA BoundIsNatural ==
  ASSUME TelemetryAssumption, NEW hours \in Hours
  PROVE  BoundHours(hours) \in Nat
<1>1. hours \in Int /\ LongestHours \in Nat
  BY DEF TelemetryAssumption
<1>2. QED
  BY <1>1 DEF BoundHours, Least, Most

(* The window rebuilt is never shorter than the window reported.           *)
LEMMA WindowFacts ==
  ASSUME TelemetryAssumption, NEW hours \in Hours, NEW kind \in {"aggregate", "report"}
  PROVE  /\ BoundHours(hours) \in Nat /\ RefreshHours(hours, kind) \in Nat
         /\ kind = "report" => RefreshHours(hours, kind) >= BoundHours(hours)
<1>1. hours \in Int /\ DefaultHours \in Nat /\ LongestHours \in Nat
  BY DEF TelemetryAssumption
<1>2. BoundHours(hours) \in Nat
  BY BoundIsNatural
<1>3. QED
  BY <1>1, <1>2 DEF RefreshHours, Most

(* The window of fewer hours, later, begins no earlier.                    *)
LEMMA CutoffMonotone ==
  ASSUME NEW now \in Int, NEW later \in Int, NEW more \in Int, NEW less \in Int,
         now <= later, less <= more
  PROVE  HourOf(now - 2 * more) <= HourOf(later - 2 * less)
<1>1. now - 2 * more <= later - 2 * less /\ now - 2 * more \in Int /\ later - 2 * less \in Int
  OBVIOUS
<1>2. QED
  BY <1>1, HourMonotone

(* A report that is being made.                                            *)
LEMMA UnderWay ==
  ASSUME TelemetryTypeOK, NEW r \in Reports, report[r].pc \in {"reading", "writing", "totals"}
  PROVE  report[r] \in ReportState
BY DEF TelemetryTypeOK, NoReport, Answer

(* An event comes in (record).                                             *)
LEMMA RecordKeeps ==
  ASSUME TelemetryAssumption, HourlyInv, NEW e \in Events, NEW t \in Times, Record(e, t)
  PROVE  HourlyInv'
<1>1. /\ ~Sent(e) /\ \A o \in Events \ {e} : observed'[o] = observed[o]
      /\ UNCHANGED <<clock, copies, report, due>>
      /\ \A o : Sent(o) /\ o \in Events => Sent(o)' /\ observed'[o] = observed[o]
  BY DEF Record, HourlyInv, TelemetryTypeOK, RawEvents, Sent
<1>2. TelemetryTypeOK'
  BY DEF Record, HourlyInv, TelemetryTypeOK, RawEvents
<1>3. \A r \in Reports : report[r] # NoReport => report[r].recorded \subseteq Events
  BY DEF HourlyInv, TelemetryTypeOK, ReportState, Answer
<1>4. HourlyCountsOnce' /\ \A o \in due' : Sent(o)'
  BY <1>1, <1>3 DEF HourlyInv, HourlyCountsOnce, RecordedFacts, TelemetryTypeOK, NoReport
<1>5. ASSUME NEW r \in Reports
      PROVE  CutoffFacts(r)' /\ ReadFacts(r)' /\ RecordedFacts(r)'
  <2>1. CutoffFacts(r) /\ ReadFacts(r) /\ RecordedFacts(r)
    BY DEF HourlyInv
  <2>2. CutoffFacts(r)'
    BY <1>1, <2>1 DEF CutoffFacts, HourCutoff
  <2>3. RecordedFacts(r)'
    BY <1>1, <1>3, <2>1 DEF RecordedFacts
  <2>4. report[r].pc = "writing" => report[r].read \subseteq Events
    BY UnderWay DEF HourlyInv, ReportState
  <2>5. ReadFacts(r)'
    BY <1>1, <1>3, <2>1, <2>4 DEF HourlyInv, TelemetryTypeOK, ReadFacts, RecordedFacts,
       NoReport
  <2>6. QED
    BY <2>2, <2>3, <2>5
<1>6. QED
  BY <1>2, <1>4, <1>5 DEF HourlyInv

(* Reports change, one of them to j; the table and its history do not.     *)
LEMMA ReportGoesOn ==
  ASSUME HourlyInv, NEW r \in Reports, NEW j,
         report' = [report EXCEPT ![r] = j], UNCHANGED <<clock, observed, copies, due>>,
         j \in ReportState \cup {NoReport} \cup Answer,
         CutoffFacts(r)', ReadFacts(r)', RecordedFacts(r)',
         j.pc = "answered" /\ ~j.stale =>
           \A e \in j.recorded : HourOf(observed[e]) >= j.cutoff => j.counts[e] = 1
  PROVE  HourlyInv'
<1>1. report'[r] = j /\ \A o \in Reports \ {r} : report'[o] = report[o]
  BY DEF HourlyInv, TelemetryTypeOK
<1>2. TelemetryTypeOK'
  BY DEF HourlyInv, TelemetryTypeOK
<1>3. HourlyCountsOnce' /\ \A o \in due' : Sent(o)'
  BY <1>1 DEF HourlyInv, HourlyCountsOnce, Sent
<1>4. ASSUME NEW o \in Reports, o # r
      PROVE  CutoffFacts(o)' /\ ReadFacts(o)' /\ RecordedFacts(o)'
  BY <1>1, <1>4 DEF HourlyInv, CutoffFacts, ReadFacts, RecordedFacts, HourCutoff, Sent
<1>5. QED
  BY <1>2, <1>3, <1>4 DEF HourlyInv

(* A rebuild begins and fixes its cutoff (refreshHourlyAggregates).        *)
LEMMA RebuildStarts ==
  ASSUME TelemetryAssumption, HourlyInv, NEW r \in Reports, NEW hours \in Hours,
         NEW kind \in {"aggregate", "report"}, StartRefresh(r, hours, kind)
  PROVE  HourlyInv'
<1>1. PICK j : j = [pc |-> "reading", kind |-> kind, hours |-> hours,
        cutoff |-> HourCutoff(RefreshHours(hours, kind)), read |-> {},
        stale |-> FALSE, recorded |-> Recorded]
  OBVIOUS
<1>2. report' = [report EXCEPT ![r] = j] /\ UNCHANGED <<clock, observed, copies, due>>
  BY <1>1 DEF StartRefresh
<1>3. report'[r] = j
  BY <1>2 DEF HourlyInv, TelemetryTypeOK
<1>4. clock \in Int /\ RefreshHours(hours, kind) \in Nat /\ BoundHours(hours) \in Nat
  BY WindowFacts DEF HourlyInv, TelemetryTypeOK, Times
<1>5. HourCutoff(RefreshHours(hours, kind)) \in Int
      /\ HourOf(HourCutoff(RefreshHours(hours, kind))) = HourCutoff(RefreshHours(hours, kind))
  BY <1>4, HourFacts DEF HourCutoff
<1>6. j \in ReportState
  BY <1>1, <1>5 DEF ReportState, Recorded
<1>7. kind = "report" => HourCutoff(RefreshHours(hours, kind)) <= HourCutoff(BoundHours(hours))
  <2>1. kind = "report" => BoundHours(hours) <= RefreshHours(hours, kind)
    BY <1>4, WindowFacts
  <2>2. \A more \in Int, less \in Int :
          less <= more => HourOf(clock - 2 * more) <= HourOf(clock - 2 * less)
    <3>1. SUFFICES ASSUME NEW more \in Int, NEW less \in Int, less <= more
                   PROVE  HourOf(clock - 2 * more) <= HourOf(clock - 2 * less)
      OBVIOUS
    <3>2. clock <= clock
      BY <1>4
    <3>3. QED
      BY <1>4, <3>1, <3>2, CutoffMonotone
  <2>3. QED
    BY <1>4, <2>1, <2>2 DEF HourCutoff
<1>8. CutoffFacts(r)'
  BY <1>1, <1>2, <1>3, <1>5, <1>7 DEF CutoffFacts, HourCutoff
<1>9. ReadFacts(r)' /\ RecordedFacts(r)'
  BY <1>1, <1>2, <1>3 DEF ReadFacts, RecordedFacts, Recorded, Sent
<1>10. QED
  BY <1>1, <1>2, <1>6, <1>8, <1>9, ReportGoesOn

(* A report of the table as it stands begins.                              *)
LEMMA StoredStarts ==
  ASSUME HourlyInv, NEW r \in Reports, NEW hours \in Hours, StartStored(r, hours)
  PROVE  HourlyInv'
<1>1. PICK j : j = [pc |-> "totals", kind |-> "report", hours |-> hours, cutoff |-> 0,
                    read |-> {}, stale |-> TRUE, recorded |-> {}]
  OBVIOUS
<1>2. report' = [report EXCEPT ![r] = j] /\ UNCHANGED <<clock, observed, copies, due>>
  BY <1>1 DEF StartStored
<1>3. report'[r] = j
  BY <1>2 DEF HourlyInv, TelemetryTypeOK
<1>4. j \in ReportState
  BY <1>1 DEF ReportState
<1>5. CutoffFacts(r)' /\ ReadFacts(r)' /\ RecordedFacts(r)'
  BY <1>1, <1>3 DEF CutoffFacts, ReadFacts, RecordedFacts
<1>6. QED
  BY <1>1, <1>2, <1>4, <1>5, ReportGoesOn

(* The raw events of the window are read.                                  *)
LEMMA EventsRead ==
  ASSUME TelemetryAssumption, HourlyInv, NEW r \in Reports, ReadEvents(r)
  PROVE  HourlyInv'
<1>1. PICK this, j : /\ this = report[r]
                     /\ j = [this EXCEPT !.pc = "writing",
                               !.read = {e \in Recorded : observed[e] >= this.cutoff}]
  OBVIOUS
<1>2. report' = [report EXCEPT ![r] = j] /\ UNCHANGED <<clock, observed, copies, due>>
  BY <1>1 DEF ReadEvents
<1>3. report'[r] = j
  BY <1>2 DEF HourlyInv, TelemetryTypeOK
<1>4. this \in ReportState /\ this.pc = "reading"
  BY <1>1, UnderWay DEF ReadEvents, HourlyInv
<1>5. /\ j \in ReportState /\ j.pc = "writing" /\ j.kind = this.kind /\ j.hours = this.hours
      /\ j.cutoff = this.cutoff /\ j.stale = this.stale /\ j.recorded = this.recorded
      /\ j.read = {e \in Recorded : observed[e] >= this.cutoff}
  BY <1>1, <1>4 DEF ReportState, Recorded
<1>6. CutoffFacts(r) /\ ReadFacts(r) /\ RecordedFacts(r)
  BY DEF HourlyInv
<1>7. this.cutoff = HourOf(this.cutoff) /\ this.cutoff \in Int /\ this.recorded \subseteq Events
  BY <1>1, <1>4, <1>6 DEF CutoffFacts, ReportState
<1>8. ASSUME NEW e \in Events
      PROVE  observed[e] >= this.cutoff <=> HourOf(observed[e]) >= this.cutoff
  <2>1. observed[e] \in Int
    BY DEF HourlyInv, TelemetryTypeOK, RawEvents, Times, NotSent
  <2>2. QED
    BY <1>7, <2>1, HourFacts, HourMonotone
<1>9. CutoffFacts(r)' /\ RecordedFacts(r)'
  BY <1>1, <1>2, <1>3, <1>4, <1>5, <1>6
  DEF CutoffFacts, RecordedFacts, HourCutoff, Sent, NoReport
<1>10. ReadFacts(r)'
  <2>1. \A e \in j.read : e \in Events /\ Sent(e) /\ HourOf(observed[e]) >= j.cutoff
    BY <1>5, <1>8 DEF Recorded
  <2>2. \A e \in Events : Sent(e) /\ HourOf(observed[e]) >= j.cutoff => e \in j.read
    BY <1>5, <1>8 DEF Recorded
  <2>3. \A e \in j.recorded : e \in Events /\ Sent(e)
    BY <1>1, <1>4, <1>5, <1>6, <1>7 DEF RecordedFacts, NoReport
  <2>4. \A e \in due : e \in Events /\ Sent(e)
    BY DEF HourlyInv, TelemetryTypeOK
  <2>5. QED
    BY <1>2, <1>3, <1>5, <2>1, <2>2, <2>3, <2>4 DEF ReadFacts, Sent
<1>11. QED
  BY <1>2, <1>5, <1>9, <1>10, ReportGoesOn

(* The hours of the window are deleted and written in one transaction.     *)
LEMMA HourlyWritten ==
  ASSUME HourlyInv, NEW r \in Reports, WriteHourly(r)
  PROVE  HourlyInv'
<1>1. PICK this : this = report[r]
  OBVIOUS
<1>2. this \in ReportState /\ this.pc = "writing"
  BY <1>1, UnderWay DEF WriteHourly, HourlyInv
<1>3. /\ copies' = [e \in Events |->
            (IF Sent(e) /\ HourOf(observed[e]) >= this.cutoff THEN 0 ELSE copies[e])
              + (IF e \in this.read THEN 1 ELSE 0)]
      /\ due' = IF this.stale
                THEN {e \in due : observed[e] < this.cutoff} \cup this.read
                ELSE due \cup this.read
      /\ report' = [o \in Reports |->
            IF o = r THEN IF this.kind = "aggregate" THEN NoReport
                          ELSE [this EXCEPT !.pc = "totals"]
            ELSE IF report[o].pc \in {"writing", "totals"}
            THEN [report[o] EXCEPT !.stale = TRUE] ELSE report[o]]
      /\ UNCHANGED <<clock, observed>>
  BY <1>1 DEF WriteHourly
<1>4. CutoffFacts(r) /\ ReadFacts(r) /\ RecordedFacts(r)
  BY DEF HourlyInv
<1>5. /\ this.cutoff \in Int /\ this.read \subseteq Events /\ this.recorded \subseteq Events
      /\ \A e \in this.read : Sent(e) /\ HourOf(observed[e]) >= this.cutoff
      /\ \A e \in this.recorded : HourOf(observed[e]) >= this.cutoff => e \in this.read
      /\ ~this.stale => \A e \in due : HourOf(observed[e]) >= this.cutoff => e \in this.read
  BY <1>1, <1>2, <1>4 DEF ReadFacts, ReportState
<1>6. \A e \in Events : observed[e] \in Int /\ HourOf(observed[e]) \in Int
                        /\ HourOf(observed[e]) <= observed[e]
  BY HourFacts DEF HourlyInv, TelemetryTypeOK, RawEvents, Times, NotSent
<1>7. \A e \in Events : copies'[e] \in {0, 1} /\ (e \in this.read => copies'[e] = 1)
  BY <1>3, <1>5 DEF HourlyInv, TelemetryTypeOK, HourlyRows, HourlyCountsOnce
<1>8. \A e \in due' : e \in Events /\ Sent(e) /\ copies'[e] = 1
  <2>1. SUFFICES ASSUME NEW e \in due', e \notin this.read
                 PROVE  e \in Events /\ Sent(e) /\ copies'[e] = 1
    BY <1>5, <1>7
  <2>2. e \in due /\ e \in Events /\ Sent(e) /\ copies[e] = 1
    BY <1>3, <2>1 DEF HourlyInv, TelemetryTypeOK, HourlyCountsOnce
  <2>3. ~(HourOf(observed[e]) >= this.cutoff)
    BY <1>3, <1>5, <1>6, <2>1, <2>2
  <2>4. QED
    BY <1>3, <2>1, <2>2, <2>3
<1>9. ASSUME NEW o \in Reports, o # r
      PROVE  /\ report'[o] \in ReportState \cup {NoReport} \cup Answer
             /\ CutoffFacts(o)' /\ ReadFacts(o)' /\ RecordedFacts(o)'
  <2>1. CutoffFacts(o) /\ ReadFacts(o) /\ RecordedFacts(o)
    BY DEF HourlyInv
  <2>2. CASE report[o].pc \in {"writing", "totals"}
    <3>1. report[o] \in ReportState /\ report'[o] = [report[o] EXCEPT !.stale = TRUE]
      BY <1>3, <1>9, <2>2, UnderWay DEF HourlyInv
    <3>2. PICK j : j = report'[o]
      OBVIOUS
    <3>3. /\ j \in ReportState /\ j.pc = report[o].pc /\ j.kind = report[o].kind
          /\ j.hours = report[o].hours /\ j.cutoff = report[o].cutoff /\ j.stale
          /\ j.read = report[o].read /\ j.recorded = report[o].recorded
      BY <3>1, <3>2 DEF ReportState
    <3>4. CutoffFacts(o)'
      BY <1>3, <2>1, <2>2, <3>2, <3>3 DEF CutoffFacts, HourCutoff
    <3>5. ReadFacts(o)'
      BY <1>3, <2>1, <2>2, <3>2, <3>3 DEF ReadFacts, Sent
    <3>6. RecordedFacts(o)'
      BY <1>3, <2>1, <2>2, <3>2, <3>3 DEF RecordedFacts, Sent, NoReport
    <3>7. QED
      BY <3>2, <3>3, <3>4, <3>5, <3>6
  <2>3. CASE report[o].pc \notin {"writing", "totals"}
    <3>1. report'[o] = report[o]
      BY <1>3, <1>9, <2>3
    <3>2. QED
      BY <1>3, <2>1, <2>3, <3>1
      DEF HourlyInv, TelemetryTypeOK, CutoffFacts, ReadFacts, RecordedFacts, HourCutoff, Sent
  <2>4. QED
    BY <2>2, <2>3
<1>10. /\ report'[r] \in ReportState \cup {NoReport}
       /\ CutoffFacts(r)' /\ ReadFacts(r)' /\ RecordedFacts(r)'
  <2>1. CASE this.kind = "aggregate"
    <3>1. report'[r] = NoReport
      BY <1>3, <2>1
    <3>2. QED
      BY <3>1 DEF NoReport, CutoffFacts, ReadFacts, RecordedFacts
  <2>2. CASE this.kind # "aggregate"
    <3>1. PICK j : j = [this EXCEPT !.pc = "totals"]
      OBVIOUS
    <3>2. report'[r] = j
      BY <1>3, <2>2, <3>1
    <3>3. /\ j \in ReportState /\ j.pc = "totals" /\ j.kind = "report" /\ j.hours = this.hours
          /\ j.cutoff = this.cutoff /\ j.stale = this.stale /\ j.recorded = this.recorded
      BY <1>2, <2>2, <3>1 DEF ReportState
    <3>4. CutoffFacts(r)'
      <4>1. this.cutoff = HourOf(this.cutoff)
            /\ this.cutoff <= HourCutoff(BoundHours(this.hours))
        <5>1. this.kind = "report"
          BY <1>2, <2>2 DEF ReportState
        <5>2. QED
          BY <1>1, <1>2, <1>4, <5>1 DEF CutoffFacts
      <4>2. QED
        BY <1>3, <3>2, <3>3, <4>1 DEF CutoffFacts, HourCutoff
    <3>5. ReadFacts(r)'
      BY <1>3, <1>5, <1>7, <3>2, <3>3 DEF ReadFacts
    <3>6. RecordedFacts(r)'
      BY <1>1, <1>2, <1>3, <1>4, <3>2, <3>3 DEF RecordedFacts, NoReport, Sent
    <3>7. QED
      BY <3>2, <3>3, <3>4, <3>5, <3>6
  <2>3. QED
    BY <2>1, <2>2
<1>11. TelemetryTypeOK'
  <2>1. copies' \in HourlyRows /\ due' \subseteq Events
    BY <1>3, <1>7, <1>8 DEF HourlyRows
  <2>2. report' \in [Reports -> ReportState \cup {NoReport} \cup Answer]
    BY <1>3, <1>9, <1>10
  <2>3. QED
    BY <1>3, <2>1, <2>2 DEF HourlyInv, TelemetryTypeOK
<1>12. HourlyCountsOnce'
  <2>1. ASSUME NEW o \in Reports, report'[o].pc = "answered"
        PROVE  report'[o] = report[o]
    <3>1. o # r
      BY <1>2, <1>3, <2>1 DEF NoReport, ReportState
    <3>2. CASE report[o].pc \in {"writing", "totals"}
      BY <1>3, <2>1, <3>1, <3>2, UnderWay DEF HourlyInv, ReportState
    <3>3. CASE report[o].pc \notin {"writing", "totals"}
      BY <1>3, <3>1, <3>3
    <3>4. QED
      BY <3>2, <3>3
  <2>2. \A e \in Events : copies'[e] <= 1 /\ (e \in due' => copies'[e] = 1)
    BY <1>7, <1>8
  <2>3. ASSUME NEW o \in Reports, report'[o].pc = "answered", ~report'[o].stale
        PROVE  \A e \in report'[o].recorded :
                 HourOf(observed'[e]) >= report'[o].cutoff => report'[o].counts[e] = 1
    <3>1. report'[o] = report[o] /\ observed' = observed
      BY <1>3, <2>1, <2>3
    <3>2. QED
      BY <2>3, <3>1 DEF HourlyInv, HourlyCountsOnce
  <2>4. QED
    BY <2>2, <2>3 DEF HourlyCountsOnce
<1>13. QED
  BY <1>3, <1>8, <1>9, <1>10, <1>11, <1>12 DEF HourlyInv, Sent

(* The report adds up the rows of its own window.                          *)
LEMMA TotalsRead ==
  ASSUME TelemetryAssumption, HourlyInv, NEW r \in Reports, ReadTotals(r)
  PROVE  HourlyInv'
<1>1. PICK this, cutoff, j :
        /\ this = report[r] /\ cutoff = HourCutoff(BoundHours(this.hours))
        /\ j = [pc |-> "answered", cutoff |-> cutoff, recorded |-> this.recorded,
                stale |-> this.stale,
                counts |-> [e \in Events |->
                  IF Sent(e) /\ HourOf(observed[e]) >= cutoff THEN copies[e] ELSE 0]]
  OBVIOUS
<1>2. report' = [report EXCEPT ![r] = j] /\ UNCHANGED <<clock, observed, copies, due>>
  BY <1>1 DEF ReadTotals
<1>3. report'[r] = j
  BY <1>2 DEF HourlyInv, TelemetryTypeOK
<1>4. this \in ReportState /\ this.pc = "totals"
  BY <1>1, UnderWay DEF ReadTotals, HourlyInv
<1>5. cutoff \in Int
  <2>1. BoundHours(this.hours) \in Nat /\ clock \in Int
    <3>1. this.hours \in Hours
      BY <1>4 DEF ReportState
    <3>2. PICK hours \in Hours : hours = this.hours
      BY <3>1
    <3>3. BoundHours(hours) \in Nat
      BY BoundIsNatural
    <3>4. QED
      BY <3>2, <3>3 DEF HourlyInv, TelemetryTypeOK, Times
  <2>2. QED
    BY <1>1, <2>1, HourFacts DEF HourCutoff
<1>6. j \in Answer
  BY <1>1, <1>4, <1>5 DEF Answer, ReportState, HourlyInv, TelemetryTypeOK, HourlyRows
<1>7. CutoffFacts(r) /\ ReadFacts(r) /\ RecordedFacts(r)
  BY DEF HourlyInv
<1>8. CutoffFacts(r)' /\ ReadFacts(r)' /\ RecordedFacts(r)'
  BY <1>1, <1>2, <1>3, <1>4, <1>7
  DEF CutoffFacts, ReadFacts, RecordedFacts, Sent, NoReport
<1>9. ASSUME ~this.stale, NEW e \in this.recorded, HourOf(observed[e]) >= cutoff
      PROVE  j.counts[e] = 1
  <2>1. e \in Events /\ Sent(e)
    BY <1>1, <1>4, <1>7, <1>9 DEF RecordedFacts, NoReport, ReportState
  <2>2. this.cutoff <= cutoff /\ this.cutoff \in Int
    BY <1>1, <1>4, <1>7, <1>9 DEF CutoffFacts, ReadFacts, ReportState
  <2>3. HourOf(observed[e]) \in Int
    BY <2>1, HourFacts DEF HourlyInv, TelemetryTypeOK, RawEvents, Times, NotSent
  <2>4. copies[e] = 1
    BY <1>1, <1>4, <1>5, <1>7, <1>9, <2>2, <2>3 DEF ReadFacts
  <2>5. QED
    BY <1>1, <1>9, <2>1, <2>4
<1>10. /\ j.pc = "answered" /\ j.stale = this.stale /\ j.recorded = this.recorded
       /\ j.cutoff = cutoff
  BY <1>1
<1>11. j.pc = "answered" /\ ~j.stale =>
         \A e \in j.recorded : HourOf(observed[e]) >= j.cutoff => j.counts[e] = 1
  BY <1>9, <1>10
<1>12. QED
  BY <1>2, <1>6, <1>8, <1>11, ReportGoesOn

(* The answer is taken, and the request is over.                           *)
LEMMA AnswerTaken ==
  ASSUME HourlyInv, NEW r \in Reports, Answered(r)
  PROVE  HourlyInv'
<1>1. report' = [report EXCEPT ![r] = NoReport] /\ UNCHANGED <<clock, observed, copies, due>>
  BY DEF Answered
<1>2. report'[r] = NoReport
  BY <1>1 DEF HourlyInv, TelemetryTypeOK
<1>3. CutoffFacts(r)' /\ ReadFacts(r)' /\ RecordedFacts(r)' /\ NoReport.pc # "answered"
  BY <1>2 DEF CutoffFacts, ReadFacts, RecordedFacts, NoReport
<1>4. QED
  BY <1>1, <1>3, ReportGoesOn

(* Time passes, and a report's own window moves on.                        *)
LEMMA TickKeeps ==
  ASSUME TelemetryAssumption, HourlyInv, Tick
  PROVE  HourlyInv'
<1>1. /\ clock \in Int /\ clock' = clock + 1 /\ clock' \in Times
      /\ UNCHANGED <<observed, copies, report, due>>
  BY DEF Tick, HourlyInv, TelemetryTypeOK, Times, TelemetryAssumption
<1>2. TelemetryTypeOK' /\ HourlyCountsOnce' /\ \A e \in due' : Sent(e)'
  BY <1>1 DEF HourlyInv, TelemetryTypeOK, HourlyCountsOnce, Sent
<1>3. ASSUME NEW r \in Reports PROVE ReadFacts(r)' /\ RecordedFacts(r)'
  BY <1>1 DEF HourlyInv, ReadFacts, RecordedFacts, Sent
<1>4. ASSUME NEW r \in Reports PROVE CutoffFacts(r)'
  <2>1. SUFFICES ASSUME report[r].pc \in {"reading", "writing", "totals"},
                        ~(report[r].pc = "totals" /\ report[r].stale)
                 PROVE  CutoffFacts(r)'
    BY <1>1 DEF CutoffFacts
  <2>2. report[r] \in ReportState /\ CutoffFacts(r)
    BY <2>1, UnderWay DEF HourlyInv
  <2>3. BoundHours(report[r].hours) \in Int /\ report[r].cutoff \in Int
    <3>1. report[r].hours \in Hours /\ report[r].cutoff \in Int
      BY <2>2 DEF ReportState
    <3>2. PICK hours \in Hours : hours = report[r].hours
      BY <3>1
    <3>3. BoundHours(hours) \in Nat
      BY BoundIsNatural
    <3>4. QED
      BY <3>1, <3>2, <3>3
  <2>4. /\ HourCutoff(BoundHours(report[r].hours)) \in Int
        /\ HourCutoff(BoundHours(report[r].hours))' \in Int
    BY <1>1, <2>3, HourFacts DEF HourCutoff
  <2>5. HourCutoff(BoundHours(report[r].hours)) <= HourCutoff(BoundHours(report[r].hours))'
    <3>1. PICK hours, now, later :
            hours = BoundHours(report[r].hours) /\ now = clock /\ later = clock'
      OBVIOUS
    <3>2. report[r].hours' = report[r].hours /\ hours \in Int /\ now \in Int /\ later \in Int
          /\ now <= later
      BY <1>1, <2>3, <3>1
    <3>3. HourOf(now - 2 * hours) <= HourOf(later - 2 * hours)
      BY <3>2, CutoffMonotone
    <3>4. QED
      BY <1>1, <3>1, <3>3 DEF HourCutoff
  <2>6. QED
    BY <1>1, <2>1, <2>2, <2>3, <2>4, <2>5 DEF CutoffFacts
<1>5. QED
  BY <1>2, <1>3, <1>4 DEF HourlyInv

(* The invariant of the hourly table, step by step.                        *)
LEMMA HourlyInvariance == TelemetrySpec => []HourlyInv
<1>1. TelemetryInit => HourlyInv
  <2>1. SUFFICES ASSUME TelemetryInit PROVE HourlyInv
    OBVIOUS
  <2>2. TelemetryTypeOK
    BY <2>1, TelemetryAssumption
    DEF TelemetryInit, TelemetryTypeOK, Times, RawEvents, HourlyRows
  <2>3. HourlyCountsOnce /\ \A r \in Reports : report[r].pc = "idle" /\ report[r] = NoReport
    BY <2>1 DEF TelemetryInit, HourlyCountsOnce, NoReport
  <2>4. QED
    BY <2>1, <2>2, <2>3 DEF TelemetryInit, HourlyInv, CutoffFacts, ReadFacts,
       RecordedFacts, NoReport
<1>2. ASSUME HourlyInv, [TelemetryNext]_telemetryVars PROVE HourlyInv'
  <2>1. CASE \E e \in Events, t \in Times : Record(e, t)
    BY <1>2, <2>1, RecordKeeps, TelemetryAssumption
  <2>2. CASE \E r \in Reports, hours \in Hours :
              \/ \E kind \in {"aggregate", "report"} : StartRefresh(r, hours, kind)
              \/ StartStored(r, hours)
    BY <1>2, <2>2, RebuildStarts, StoredStarts, TelemetryAssumption
  <2>3. CASE \E r \in Reports : ReadEvents(r) \/ WriteHourly(r) \/ ReadTotals(r) \/ Answered(r)
    BY <1>2, <2>3, EventsRead, HourlyWritten, TotalsRead, AnswerTaken, TelemetryAssumption
  <2>4. CASE Tick
    BY <1>2, <2>4, TickKeeps, TelemetryAssumption
  <2>5. CASE UNCHANGED telemetryVars
    BY <1>2, <2>5 DEF telemetryVars, HourlyInv, TelemetryTypeOK, HourlyCountsOnce,
       CutoffFacts, ReadFacts, RecordedFacts, HourCutoff, Sent
  <2>6. QED
    BY <1>2, <2>1, <2>2, <2>3, <2>4, <2>5 DEF TelemetryNext
<1>3. QED
  BY <1>1, <1>2, PTL DEF TelemetrySpec

(* However many requests rebuild overlapping windows while hours pass, no  *)
(* event is counted twice, and none that a report should have is missing   *)
(* (refreshHourlyAggregates, overview).                                    *)
THEOREM EventsCountedOnce == TelemetrySpec => []HourlyCountsOnce
<1>1. HourlyInv => HourlyCountsOnce
  BY DEF HourlyInv
<1>2. QED
  BY <1>1, HourlyInvariance, PTL

(* The rows of the hourly table, the events and the reports of             *)
(* telemetry.service.ts keep their types.                                  *)
THEOREM TelemetryTypeCorrect == TelemetrySpec => []TelemetryTypeOK
<1>1. HourlyInv => TelemetryTypeOK
  BY DEF HourlyInv
<1>2. QED
  BY <1>1, HourlyInvariance, PTL
-----------------------------------------------------------------------------
(* Decisions from counts.                                                  *)

(* Rounding a rate, as multiplication: q is the rate of part in total.     *)
LEMMA RateBounds ==
  ASSUME NEW part \in Nat, NEW total \in Nat, total > 0
  PROVE  /\ Rate(part, total) \in Nat
         /\ 2 * total * Rate(part, total) <= 2000 * part + total
         /\ 2000 * part + total < 2 * total * (Rate(part, total) + 1)
<1>1. PICK a, b, q : a = 2000 * part + total /\ b = 2 * total /\ q = a \div b
  OBVIOUS
<1>2. a \in Nat /\ b \in Nat /\ b > 0 /\ q = Rate(part, total)
  BY <1>1 DEF Rate
<1>3. q \in Int /\ b * q <= a /\ a < b * (q + 1)
  BY <1>1, <1>2
<1>4. q >= 0
  BY <1>2, <1>3
<1>5. QED
  BY <1>1, <1>2, <1>3, <1>4

(* A rate is at least n when its numerator is.                             *)
LEMMA RateAtLeast ==
  ASSUME NEW part \in Nat, NEW total \in Nat, total > 0, NEW n \in Nat,
         2 * total * n <= 2000 * part + total
  PROVE  n <= Rate(part, total)
<1>1. PICK q : q = Rate(part, total)
  OBVIOUS
<1>2. q \in Nat /\ 2000 * part + total < 2 * total * (q + 1)
  BY <1>1, RateBounds
<1>3. SUFFICES ASSUME n >= q + 1 PROVE FALSE
  BY <1>1, <1>2
<1>4. 2 * total * (q + 1) <= 2 * total * n
  BY <1>2, <1>3
<1>5. QED
  BY <1>2, <1>4

(* A rate is a whole number of tenths of a per cent.                       *)
LEMMA RateIsWhole ==
  ASSUME NEW part \in Nat, NEW total \in Nat
  PROVE  Rate(part, total) \in Nat
BY RateBounds DEF Rate

(* One more sample that is not counted lowers no other rate's part: the    *)
(* rate does not rise; one that is counted does not lower it.              *)
LEMMA RateUncounted ==
  ASSUME NEW part \in Nat, NEW total \in Nat, total > 0
  PROVE  Rate(part, total + 1) <= Rate(part, total)
<1>1. PICK q : q = Rate(part, total + 1)
  OBVIOUS
<1>2. q \in Nat /\ 2 * (total + 1) * q <= 2000 * part + total + 1
  BY <1>1, RateBounds
<1>3. 2 * total * q + 2 * q <= 2000 * part + total + 1
  BY <1>2
<1>4. CASE q = 0
  BY <1>1, <1>4, RateIsWhole
<1>5. CASE q > 0
  <2>1. 2 * total * q <= 2000 * part + total
    BY <1>2, <1>3, <1>5
  <2>2. QED
    BY <1>1, <1>2, <2>1, RateAtLeast
<1>6. QED
  BY <1>2, <1>4, <1>5

(* One more sample that is counted does not lower the rate.                *)
LEMMA RateCounted ==
  ASSUME NEW part \in Nat, NEW total \in Nat, total > 0, part <= total
  PROVE  Rate(part, total) <= Rate(part + 1, total + 1)
<1>1. PICK q : q = Rate(part, total)
  OBVIOUS
<1>2. q \in Nat /\ 2 * total * q <= 2000 * part + total
  BY <1>1, RateBounds
<1>3. q <= 1000
  <2>1. SUFFICES ASSUME q >= 1001 PROVE FALSE
    BY <1>2
  <2>2. 2 * total * 1001 <= 2 * total * q
    BY <1>2, <2>1
  <2>3. QED
    BY <1>2, <2>2
<1>4. 2 * (total + 1) * q = 2 * total * q + 2 * q
  BY <1>2
<1>5. 2 * (total + 1) * q <= 2000 * (part + 1) + (total + 1)
  BY <1>2, <1>3, <1>4
<1>6. QED
  BY <1>1, <1>2, <1>5, RateAtLeast

(* Counts of any size.                                                     *)
AnyTally == [Classes -> [Results -> Nat]]

(* The total is the sum of the three counts.                               *)
LEMMA CountsAreWhole ==
  ASSUME NEW t \in AnyTally
  PROVE  /\ All(t, "success") \in Nat /\ All(t, "issue") \in Nat /\ All(t, "skipped") \in Nat
         /\ TotalOf(t) \in Nat
         /\ TotalOf(t) = All(t, "success") + All(t, "issue") + All(t, "skipped")
BY DEF AnyTally, Classes, Results, All, TotalOf

(* Every sample has a classification the tally knows.                      *)
LEMMA ClassIsKnown ==
  ASSUME NEW sample \in Samples
  PROVE  /\ ClassOf(sample) \in Classes
         /\ sample.result \in Results
BY DEF Samples, ClassOf, Classify, Classes, Results

(* One more sample adds one to its result and to the total.                *)
LEMMA SampleCounts ==
  ASSUME NEW t \in AnyTally, NEW sample \in Samples
  PROVE  /\ WithSample(t, sample) \in AnyTally
         /\ \A r \in Results :
              All(WithSample(t, sample), r) =
                All(t, r) + (IF r = sample.result THEN 1 ELSE 0)
         /\ TotalOf(WithSample(t, sample)) = TotalOf(t) + 1
<1>1. PICK c, res, u : c = ClassOf(sample) /\ res = sample.result /\ u = WithSample(t, sample)
  OBVIOUS
<1>2. c \in Classes /\ res \in Results
  BY <1>1, ClassIsKnown
<1>3. u = [t EXCEPT ![c][res] = @ + 1]
  BY <1>1 DEF WithSample
<1>4. u \in AnyTally
  BY <1>2, <1>3 DEF AnyTally
<1>5. \A d \in Classes, r \in Results :
        u[d][r] = t[d][r] + (IF d = c /\ r = res THEN 1 ELSE 0)
  BY <1>2, <1>3 DEF AnyTally
<1>6. ASSUME NEW r \in Results
      PROVE  All(u, r) = All(t, r) + (IF r = res THEN 1 ELSE 0)
  <2>1. /\ t["none"][r] \in Nat /\ t["dns_suspected"][r] \in Nat
        /\ t["protocol_suspected"][r] \in Nat
    BY DEF AnyTally, Classes
  <2>2. /\ u["none"][r] = t["none"][r] + (IF c = "none" /\ r = res THEN 1 ELSE 0)
        /\ u["dns_suspected"][r] =
             t["dns_suspected"][r] + (IF c = "dns_suspected" /\ r = res THEN 1 ELSE 0)
        /\ u["protocol_suspected"][r] =
             t["protocol_suspected"][r] + (IF c = "protocol_suspected" /\ r = res THEN 1 ELSE 0)
    BY <1>5 DEF Classes
  <2>3. c \in {"none", "dns_suspected", "protocol_suspected"}
    BY <1>2 DEF Classes
  <2>4. QED
    BY <2>1, <2>2, <2>3 DEF All
<1>7. TotalOf(u) = TotalOf(t) + 1
  <2>1. /\ All(u, "success") = All(t, "success") + (IF "success" = res THEN 1 ELSE 0)
        /\ All(u, "issue") = All(t, "issue") + (IF "issue" = res THEN 1 ELSE 0)
        /\ All(u, "skipped") = All(t, "skipped") + (IF "skipped" = res THEN 1 ELSE 0)
    BY <1>6 DEF Results
  <2>2. res \in {"success", "issue", "skipped"}
    BY <1>2 DEF Results
  <2>3. QED
    BY <2>1, <2>2, CountsAreWhole DEF TotalOf
<1>8. QED
  BY <1>1, <1>4, <1>6, <1>7

(* The reason shown belongs to the decision.                               *)
LEMMA ReasonFits ==
  /\ Decision(tally) = "avoid" <=> Reason(tally) \in {"manually blocked", "repeated failures"}
  /\ Decision(tally) = "watch" <=> Reason(tally) \in {"marked degraded", "elevated failure rate"}
  /\ Decision(tally) = "preferred" <=> Reason(tally) = "stable samples"
BY DEF Decision, Reason, ProfileDecision, DecisionReason

(* A row of the matrix that is ok has one failure in three at most.        *)
LEMMA RowIsHealthy ==
  ASSUME NEW t \in AnyTally, NEW c \in Classes, MatrixRow(t, c) = "ok" \/ c \notin MatrixClasses(t)
  PROVE  2000 * t[c]["issue"] <= 667 * (t[c]["success"] + t[c]["issue"] + t[c]["skipped"])
<1>1. PICK s, i, n, total :
        /\ s = t[c]["success"] /\ i = t[c]["issue"] /\ n = t[c]["skipped"] /\ total = s + i + n
  OBVIOUS
<1>2. s \in Nat /\ i \in Nat /\ n \in Nat
  BY <1>1 DEF AnyTally, Results
<1>3. CASE c \notin MatrixClasses(t)
  <2>1. i = 0
    BY <1>1, <1>2, <1>3 DEF MatrixClasses, Results
  <2>2. QED
    BY <1>1, <1>2, <2>1
<1>4. CASE MatrixRow(t, c) = "ok"
  <2>1. MatrixStatus(total, i, Rate(i, total)) = "ok"
    BY <1>1, <1>4 DEF MatrixRow
  <2>2. total >= 3 /\ ~(i >= 2 /\ Rate(i, total) >= 250)
    <3>1. PICK rate : rate = Rate(i, total)
      OBVIOUS
    <3>2. total \in Nat
      BY <1>1, <1>2
    <3>5. rate \in Nat
      BY <1>2, <3>1, <3>2, RateIsWhole
    <3>6. MatrixStatus(total, i, rate) = "ok"
      BY <2>1, <3>1
    <3>3. total >= 3 /\ ~(i >= 2 /\ rate >= 250)
      BY <1>2, <3>2, <3>5, <3>6 DEF MatrixStatus
    <3>4. QED
      BY <3>1, <3>3
  <2>3. CASE i <= 1
    BY <1>1, <1>2, <2>2, <2>3
  <2>4. CASE i >= 2
    <3>1. ASSUME 499 * total <= 2000 * i PROVE FALSE
      <4>1. 2 * total * 250 <= 2000 * i + total
        BY <1>1, <1>2, <3>1
      <4>2. 250 <= Rate(i, total)
        BY <1>1, <1>2, <2>2, <4>1, RateAtLeast
      <4>3. QED
        BY <1>1, <1>2, <2>2, <2>4, <4>2, RateIsWhole
    <3>2. QED
      BY <1>1, <1>2, <3>1
  <2>5. QED
    BY <1>2, <2>3, <2>4
<1>5. QED
  BY <1>3, <1>4

(* Rows that are all ok have too few failures together for a route to      *)
(* avoid.                                                                  *)
LEMMA TooManyForTheRows ==
  ASSUME NEW fails \in Nat, NEW total \in Nat, NEW rate \in Nat, total >= 3, rate >= 600,
         2 * total * rate <= 2000 * fails + total
  PROVE  2000 * fails > 667 * total
<1>1. 2 * total * 600 <= 2 * total * rate
  BY Z3
<1>2. QED
  BY <1>1

(* So the matrix of a route to avoid has a row that is not ok.             *)
LEMMA MatrixWarns ==
  ASSUME NEW t \in AnyTally
  PROVE  Reason(t) = "repeated failures" => \E c \in MatrixClasses(t) : MatrixRow(t, c) # "ok"
<1>. DEFINE repeated == Reason(t) = "repeated failures"
            allOk == \A c \in MatrixClasses(t) : MatrixRow(t, c) = "ok"
<1>0. SUFFICES repeated /\ allOk => FALSE
  OBVIOUS
<1>. HIDE DEF repeated, allOk
<1>1. PICK fails : fails = All(t, "issue")
  OBVIOUS
<1>2. PICK total : total = TotalOf(t)
  OBVIOUS
<1>3. PICK rate : rate = Rate(fails, total)
  OBVIOUS
<1>4. fails \in Nat /\ total \in Nat
  BY <1>1, <1>2, CountsAreWhole
<1>5. rate \in Nat
  BY <1>3, <1>4, RateIsWhole
<1>6. repeated => total >= 3 /\ rate >= 600
  <2>1. repeated => DecisionReason(routeStatus, total, All(t, "success"), fails, rate)
                      = "repeated failures"
    BY <1>1, <1>2, <1>3 DEF Reason, repeated
  <2>2. QED
    BY <1>4, <1>5, <2>1 DEF DecisionReason
<1>7. total > 0 => 2 * total * rate <= 2000 * fails + total
  BY <1>3, <1>4, RateBounds
<1>8. repeated => 2000 * fails > 667 * total
  BY <1>4, <1>5, <1>6, <1>7, TooManyForTheRows
<1>10. allOk => \A c \in Classes : 2000 * t[c]["issue"] <=
                           667 * (t[c]["success"] + t[c]["issue"] + t[c]["skipped"])
  BY RowIsHealthy DEF allOk
<1>11. \A c \in Classes : \A r \in Results : t[c][r] \in Nat
  BY DEF AnyTally
<1>12. PICK s1, s2, s3, i1, i2, i3, n1, n2, n3 :
        /\ s1 = t["none"]["success"] /\ i1 = t["none"]["issue"] /\ n1 = t["none"]["skipped"]
        /\ s2 = t["dns_suspected"]["success"] /\ i2 = t["dns_suspected"]["issue"]
        /\ n2 = t["dns_suspected"]["skipped"]
        /\ s3 = t["protocol_suspected"]["success"] /\ i3 = t["protocol_suspected"]["issue"]
        /\ n3 = t["protocol_suspected"]["skipped"]
  OBVIOUS
<1>13. /\ s1 \in Nat /\ s2 \in Nat /\ s3 \in Nat /\ i1 \in Nat /\ i2 \in Nat /\ i3 \in Nat
       /\ n1 \in Nat /\ n2 \in Nat /\ n3 \in Nat
  BY <1>11, <1>12 DEF Classes, Results
<1>14. allOk => /\ 2000 * i1 <= 667 * (s1 + i1 + n1)
                /\ 2000 * i2 <= 667 * (s2 + i2 + n2)
                /\ 2000 * i3 <= 667 * (s3 + i3 + n3)
  BY <1>10, <1>12 DEF Classes
<1>15. fails = i1 + i2 + i3
  BY <1>1, <1>12 DEF All
<1>16. total = (s1 + s2 + s3) + (i1 + i2 + i3) + (n1 + n2 + n3)
  BY <1>2, <1>12 DEF All, TotalOf
<1>17. QED
  BY <1>8, <1>13, <1>14, <1>15, <1>16

(* The rank never falls with one more success nor rises with one more      *)
(* failure, at any threshold.                                              *)
LEMMA RankFollows ==
  ASSUME NEW status, NEW total \in Nat, NEW s \in Nat, NEW i \in Nat,
         NEW total2 \in Nat, NEW s2 \in Nat, NEW i2 \in Nat,
         NEW rate \in Nat, NEW rate2 \in Nat,
         total >= 3, total2 >= 3, s2 <= s, i <= i2, rate <= rate2
  PROVE  /\ DecisionRank(ProfileDecision(status, total2, s2, i2, rate2)) \in Nat
         /\ DecisionRank(ProfileDecision(status, total, s, i, rate)) \in Nat
         /\ DecisionRank(ProfileDecision(status, total2, s2, i2, rate2)) <=
              DecisionRank(ProfileDecision(status, total, s, i, rate))
<1>1. /\ DecisionRank("preferred") = 5 /\ DecisionRank("usable") = 4
      /\ DecisionRank("watch") = 2 /\ DecisionRank("avoid") = 1
  BY DEF DecisionRank
<1>2. QED
  BY <1>1 DEF ProfileDecision

(* Hence a route's place in the list of decisions follows its samples.     *)
LEMMA StandingFollows ==
  ASSUME NEW t \in AnyTally, NEW sample \in Samples, TotalOf(t) >= 3
  PROVE  LET more == Standing(WithSample(t, sample)) IN
         /\ sample.result = "issue" => more <= Standing(t)
         /\ sample.result = "success" => more >= Standing(t)
<1>1. PICK u : u = WithSample(t, sample)
  OBVIOUS
<1>2. PICK total, s, i, total2, s2, i2 :
        /\ total = TotalOf(t) /\ s = All(t, "success") /\ i = All(t, "issue")
        /\ total2 = TotalOf(u) /\ s2 = All(u, "success") /\ i2 = All(u, "issue")
  OBVIOUS
<1>3. /\ total \in Nat /\ s \in Nat /\ i \in Nat /\ s <= total /\ i <= total /\ total >= 3
      /\ total2 = total + 1
      /\ s2 = s + (IF sample.result = "success" THEN 1 ELSE 0)
      /\ i2 = i + (IF sample.result = "issue" THEN 1 ELSE 0)
  BY <1>1, <1>2, CountsAreWhole, SampleCounts DEF Results
<1>4. PICK sr, ir, sr2, ir2 :
        /\ sr = Rate(s, total) /\ ir = Rate(i, total)
        /\ sr2 = Rate(s2, total2) /\ ir2 = Rate(i2, total2)
  OBVIOUS
<1>5. sr \in Nat /\ ir \in Nat /\ sr2 \in Nat /\ ir2 \in Nat
  <2>1. total2 \in Nat /\ s2 \in Nat /\ i2 \in Nat
    BY <1>3
  <2>2. sr \in Nat
    BY <1>3, <1>4, RateIsWhole
  <2>3. ir \in Nat
    BY <1>3, <1>4, RateIsWhole
  <2>4. sr2 \in Nat
    BY <1>4, <2>1, RateIsWhole
  <2>5. ir2 \in Nat
    BY <1>4, <2>1, RateIsWhole
  <2>6. QED
    BY <2>2, <2>3, <2>4, <2>5
<1>6. PICK rank, rank2 :
        /\ rank = DecisionRank(ProfileDecision(routeStatus, total, s, i, ir))
        /\ rank2 = DecisionRank(ProfileDecision(routeStatus, total2, s2, i2, ir2))
  OBVIOUS
<1>7. /\ Standing(t) = rank * 2000000 + sr * 1001 + (1000 - ir)
      /\ Standing(u) = rank2 * 2000000 + sr2 * 1001 + (1000 - ir2)
  BY <1>2, <1>4, <1>6 DEF Standing, Decision
<1>8. CASE sample.result = "issue"
  <2>1. s2 = s /\ i2 = i + 1
    BY <1>3, <1>8
  <2>2. sr2 <= sr /\ ir <= ir2
    BY <1>3, <1>4, <2>1, RateUncounted, RateCounted
  <2>3. rank \in Nat /\ rank2 \in Nat /\ rank2 <= rank
    BY <1>3, <1>5, <1>6, <2>1, <2>2, RankFollows
  <2>4. QED
    BY <1>1, <1>5, <1>7, <1>8, <2>2, <2>3
<1>9. CASE sample.result = "success"
  <2>1. s2 = s + 1 /\ i2 = i
    BY <1>3, <1>9
  <2>2. sr <= sr2 /\ ir2 <= ir
    BY <1>3, <1>4, <2>1, RateUncounted, RateCounted
  <2>3. rank \in Nat /\ rank2 \in Nat /\ rank <= rank2
    BY <1>3, <1>5, <1>6, <2>1, <2>2, RankFollows
  <2>4. QED
    BY <1>1, <1>5, <1>7, <1>9, <2>2, <2>3
<1>10. QED
  BY <1>8, <1>9

(* decisionRow, the matrix and the list never contradict each other, for   *)
(* any counts (profileDecision, profileDecisionReason, matrixStatus,       *)
(* decisionRank).                                                          *)
THEOREM DecisionsNeverConflict == DecisionSpec => []DecisionsAgree
<1>1. DecisionInit => tally \in AnyTally
  BY DEF DecisionInit, AnyTally
<1>2. tally \in AnyTally /\ [DecisionNext]_decisionVars => (tally \in AnyTally)'
  BY SampleCounts DEF DecisionNext, RecordSample, Mark, decisionVars
<1>3. tally \in AnyTally => DecisionsAgree
  BY ReasonFits, MatrixWarns, StandingFollows DEF DecisionsAgree
<1>4. QED
  BY <1>1, <1>2, <1>3, PTL DEF DecisionSpec

(* The samples counted are the samples taken, up to the bound.             *)
CountsBounded ==
  /\ routeStatus \in Statuses
  /\ tally \in AnyTally /\ TotalOf(tally) <= MaxSamples

(* Nothing is counted at the start.                                        *)
LEMMA CountsStart ==
  ASSUME routeStatus \in Statuses, tally = [c \in Classes |-> [r \in Results |-> 0]]
  PROVE  CountsBounded
<1>1. tally \in AnyTally
  BY DEF AnyTally
<1>2. \A r \in Results : All(tally, r) = 0
  BY DEF All, Classes
<1>3. TotalOf(tally) = 0
  BY <1>2 DEF TotalOf, Results
<1>4. QED
  BY <1>1, <1>3, SamplesAssumption DEF CountsBounded

(* A sample is counted once, while there is room (record).                 *)
LEMMA CountsStep == CountsBounded /\ [DecisionNext]_decisionVars => CountsBounded'
<1>. SUFFICES ASSUME CountsBounded, [DecisionNext]_decisionVars PROVE CountsBounded'
  OBVIOUS
<1>1. ASSUME NEW sample \in Samples, RecordSample(sample) PROVE CountsBounded'
  <2>1. PICK u : u = WithSample(tally, sample)
    OBVIOUS
  <2>2. tally' = u /\ routeStatus' = routeStatus /\ TotalOf(tally) < MaxSamples
    BY <1>1, <2>1 DEF RecordSample
  <2>3. u \in AnyTally /\ TotalOf(u) = TotalOf(tally) + 1 /\ TotalOf(tally) \in Nat
    BY <2>1, SampleCounts, CountsAreWhole DEF CountsBounded
  <2>4. TotalOf(u) <= MaxSamples
    BY <2>2, <2>3, SamplesAssumption
  <2>5. TotalOf(tally)' = TotalOf(u)
    BY <2>2
  <2>6. QED
    BY <2>2, <2>3, <2>4, <2>5 DEF CountsBounded
<1>2. ASSUME NEW status \in Statuses, Mark(status) PROVE CountsBounded'
  BY <1>2 DEF Mark, CountsBounded
<1>3. CASE UNCHANGED decisionVars
  BY <1>3 DEF decisionVars, CountsBounded
<1>4. QED
  BY <1>1, <1>2, <1>3 DEF DecisionNext

(* No count is above the number of samples.                                *)
LEMMA CountsFollow == CountsBounded => DecisionTypeOK
<1>. SUFFICES ASSUME CountsBounded PROVE DecisionTypeOK
  OBVIOUS
<1>1. PICK t : t = tally
  OBVIOUS
<1>2. /\ t \in AnyTally /\ TotalOf(t) <= MaxSamples /\ MaxSamples \in Nat
      /\ routeStatus \in Statuses
  BY <1>1, SamplesAssumption DEF CountsBounded
<1>3. /\ \A r \in Results : All(t, r) <= TotalOf(t) /\ All(t, r) \in Nat
      /\ TotalOf(t) \in Nat
  BY <1>2, CountsAreWhole DEF Results
<1>4. ASSUME NEW c \in Classes, NEW r \in Results PROVE t[c][r] \in 0 .. MaxSamples
  <2>1. /\ t["none"][r] \in Nat /\ t["dns_suspected"][r] \in Nat
        /\ t["protocol_suspected"][r] \in Nat
    BY <1>2 DEF AnyTally, Classes
  <2>2. t[c][r] \in Nat /\ t[c][r] <= All(t, r)
    BY <2>1 DEF All, Classes
  <2>3. QED
    BY <1>2, <1>3, <2>2
<1>5. t \in Tallies
  BY <1>2, <1>4 DEF Tallies, AnyTally
<1>6. QED
  BY <1>1, <1>2, <1>5 DEF DecisionTypeOK

(* The counts a decision is made from, and each of them, stay within the   *)
(* samples that came in (record, classify).                                *)
THEOREM DecisionTypeCorrect == DecisionSpec => []DecisionTypeOK
<1>1. DecisionInit => CountsBounded
  BY CountsStart DEF DecisionInit
<1>2. QED
  BY <1>1, CountsStep, CountsFollow, PTL DEF DecisionSpec
-----------------------------------------------------------------------------
(* The rate limiter.                                                       *)

(* PassedIn for any list of moments.                                       *)
Between(p, from, to) == {k \in DOMAIN p : from <= p[k] /\ p[k] < to}
Passes(p, from, to) == Cardinality(Between(p, from, to))

(* A client whose last window is over has passed nothing since, and not    *)
(* more than max within the length of a window.                            *)
Ended(p, now) ==
  /\ \A k \in DOMAIN p : p[k] < now
  /\ \A from \in Int : from > now - WindowLength => Passes(p, from, now) <= MaxInWindow

(* A client's window has counted what passed in it, up to max; and no more *)
(* than max passed in less than a window's length before it began.         *)
WindowKept(p, c, now) ==
  /\ c.count > 0 /\ c.resetAt - WindowLength <= now
  /\ \A k \in DOMAIN p : p[k] < c.resetAt
  /\ Passes(p, c.resetAt - WindowLength, c.resetAt)
       = IF c.count <= MaxInWindow THEN c.count ELSE MaxInWindow
  /\ \A from \in Int : from > c.resetAt - 2 * WindowLength =>
       Passes(p, from, c.resetAt - WindowLength) <= MaxInWindow

SpansHold(p) ==
  \A from \in Int : Passes(p, from, from + WindowLength) <= 2 * MaxInWindow

ClientFacts(p, c, now) ==
  /\ p \in Seq(Nat) /\ c \in Counters
  /\ \A k \in DOMAIN p : p[k] <= now
  /\ c.resetAt = 0 => Ended(p, now)
  /\ c.resetAt > 0 => WindowKept(p, c, now)

LastAnswerFits(s) ==
  answered.to = s /\ ~answered.passed =>
    PassedIn(s, answered.state.resetAt - WindowLength, answered.state.resetAt) = MaxInWindow

(* The counters account for the requests they let through, whatever was    *)
(* pruned (rateLimit, pruneExpiredEntries).                                *)
LimitInv ==
  /\ moment \in Nat
  /\ store \in [Senders -> Counters] /\ passes \in [Senders -> Seq(Nat)]
  /\ answered.state.resetAt \in Int
  /\ \A s \in Senders :
       /\ ClientFacts(passes[s], store[s], moment)
       /\ SpansHold(passes[s])
       /\ LastAnswerFits(s)

(* Requests let through are counted by a number.                           *)
LEMMA PassesAreFinite ==
  ASSUME NEW p \in Seq(Nat), NEW from, NEW to
  PROVE  IsFiniteSet(Between(p, from, to)) /\ Passes(p, from, to) \in Nat
<1>1. DOMAIN p = 1 .. Len(p) /\ Len(p) \in Nat
  OBVIOUS
<1>2. IsFiniteSet(1 .. Len(p))
  BY <1>1, FS_Interval
<1>3. Between(p, from, to) \subseteq 1 .. Len(p)
  BY <1>1 DEF Between
<1>4. IsFiniteSet(Between(p, from, to))
  BY <1>2, <1>3, FS_Subset
<1>5. QED
  BY <1>4, FS_CardinalityType DEF Passes

(* A span within another lets no more through.                             *)
LEMMA FewerPass ==
  ASSUME NEW p \in Seq(Nat), NEW a \in Int, NEW b \in Int, NEW c \in Int, NEW d \in Int,
         \A k \in DOMAIN p : a <= p[k] /\ p[k] < b => c <= p[k] /\ p[k] < d
  PROVE  Passes(p, a, b) <= Passes(p, c, d)
<1>1. Between(p, a, b) \subseteq Between(p, c, d)
  BY DEF Between
<1>2. IsFiniteSet(Between(p, c, d))
  BY PassesAreFinite
<1>3. QED
  BY <1>1, <1>2, FS_Subset DEF Passes

(* Two spans with the same requests let the same number through.           *)
LEMMA SamePass ==
  ASSUME NEW p \in Seq(Nat), NEW a \in Int, NEW b \in Int, NEW c \in Int, NEW d \in Int,
         \A k \in DOMAIN p : a <= p[k] /\ p[k] < b <=> c <= p[k] /\ p[k] < d
  PROVE  Passes(p, a, b) = Passes(p, c, d)
<1>1. Between(p, a, b) = Between(p, c, d)
  BY DEF Between
<1>2. QED
  BY <1>1 DEF Passes

(* A span lets no more through than its two parts together.                *)
LEMMA SpanSplits ==
  ASSUME NEW p \in Seq(Nat), NEW from \in Int, NEW mid \in Int, NEW to \in Int
  PROVE  Passes(p, from, to) <= Passes(p, from, mid) + Passes(p, mid, to)
<1>. DEFINE x == Between(p, from, mid)  y == Between(p, mid, to)  z == Between(p, from, to)
<1>1. \A k \in DOMAIN p : p[k] \in Int
  OBVIOUS
<1>2. z \subseteq x \cup y
  BY <1>1 DEF Between
<1>3. IsFiniteSet(x) /\ IsFiniteSet(y) /\ IsFiniteSet(x \cup y) /\ IsFiniteSet(x \cap y)
  <2>1. IsFiniteSet(x) /\ IsFiniteSet(y)
    BY PassesAreFinite
  <2>. HIDE DEF x, y
  <2>2. QED
    BY <2>1, FS_Union, FS_Intersection
<1>4. Cardinality(x) \in Nat /\ Cardinality(y) \in Nat /\ Cardinality(x \cap y) \in Nat
  <2>. HIDE DEF x, y
  <2>1. QED
    BY <1>3, FS_CardinalityType
<1>5. Cardinality(x \cup y) <= Cardinality(x) + Cardinality(y)
  <2>. HIDE DEF x, y
  <2>1. Cardinality(x \cup y) = Cardinality(x) + Cardinality(y) - Cardinality(x \cap y)
    BY <1>3, FS_Union
  <2>2. QED
    BY <1>4, <2>1
<1>6. Cardinality(z) <= Cardinality(x \cup y)
  <2>. HIDE DEF x, y, z
  <2>1. QED
    BY <1>2, <1>3, FS_Subset
<1>7. Cardinality(z) \in Nat /\ Cardinality(x \cup y) \in Nat
  <2>1. Cardinality(z) \in Nat
    BY PassesAreFinite DEF Passes
  <2>. HIDE DEF x, y
  <2>2. QED
    BY <1>3, <2>1, FS_CardinalityType
<1>8. QED
  <2>. HIDE DEF x, y, z
  <2>1. Cardinality(z) <= Cardinality(x) + Cardinality(y)
    BY <1>4, <1>5, <1>6, <1>7
  <2>2. QED
    BY <2>1 DEF Passes, x, y, z

(* A request that passes is one more in every span it falls in.            *)
LEMMA OneMorePasses ==
  ASSUME NEW p \in Seq(Nat), NEW now \in Nat, NEW from \in Int, NEW to \in Int
  PROVE  /\ Append(p, now) \in Seq(Nat)
         /\ \A k \in DOMAIN Append(p, now) :
              Append(p, now)[k] = now \/ (k \in DOMAIN p /\ Append(p, now)[k] = p[k])
         /\ Passes(Append(p, now), from, to) =
              Passes(p, from, to) + (IF from <= now /\ now < to THEN 1 ELSE 0)
<1>1. PICK q, n : q = Append(p, now) /\ n = Len(p) + 1
  OBVIOUS
<1>2. q \in Seq(Nat) /\ DOMAIN q = 1 .. n /\ q[n] = now
  BY <1>1
<1>3. \A k \in 1 .. Len(p) : q[k] = p[k]
  BY <1>1
<1>4. DOMAIN p = 1 .. Len(p) /\ Len(p) \in Nat
  OBVIOUS
<1>5. n \in 1 .. n /\ n \notin DOMAIN p /\ DOMAIN q = DOMAIN p \cup {n}
  BY <1>1, <1>2, <1>4
<1>6. \A k \in DOMAIN p : q[k] = p[k]
  BY <1>3, <1>4
<1>7. \A k \in DOMAIN q : q[k] = now \/ (k \in DOMAIN p /\ q[k] = p[k])
  BY <1>2, <1>5, <1>6
<1>8. CASE from <= now /\ now < to
  <2>1. Between(q, from, to) = Between(p, from, to) \cup {n}
    BY <1>2, <1>5, <1>6, <1>8 DEF Between
  <2>2. n \notin Between(p, from, to)
    BY <1>5 DEF Between
  <2>3. QED
    BY <1>1, <1>2, <1>7, <1>8, <2>1, <2>2, PassesAreFinite, FS_AddElement DEF Passes
<1>9. CASE ~(from <= now /\ now < to)
  <2>1. Between(q, from, to) = Between(p, from, to)
    BY <1>2, <1>5, <1>6, <1>9 DEF Between
  <2>2. Passes(p, from, to) \in Nat
    BY PassesAreFinite
  <2>3. QED
    BY <1>1, <1>2, <1>7, <1>9, <2>1, <2>2 DEF Passes
<1>10. QED
  BY <1>8, <1>9

(* Past its end, a window leaves a client with nothing to make up for.     *)
LEMMA WindowEnds ==
  ASSUME NEW p, NEW c, NEW now \in Nat, NEW later \in Nat, now <= later,
         ClientFacts(p, c, now), c.resetAt <= later,
         c.resetAt = 0 => now = later
  PROVE  Ended(p, later)
<1>1. CASE c.resetAt = 0
  BY <1>1 DEF ClientFacts
<1>2. CASE c.resetAt > 0
  <2>1. p \in Seq(Nat) /\ c.count \in Nat /\ c.resetAt \in Nat
    BY DEF ClientFacts, Counters
  <2>2. WindowKept(p, c, now)
    BY <1>2 DEF ClientFacts
  <2>3. PICK start : start = c.resetAt - WindowLength
    OBVIOUS
  <2>4. start \in Int /\ WindowLength \in Nat /\ MaxInWindow \in Nat
    BY <2>1, <2>3, LimitAssumption
  <2>5. Passes(p, start, c.resetAt) <= MaxInWindow
    BY <2>1, <2>2, <2>3, <2>4 DEF WindowKept
  <2>6. \A k \in DOMAIN p : p[k] < c.resetAt /\ p[k] \in Nat
    BY <2>1, <2>2 DEF WindowKept
  <2>7. ASSUME NEW from \in Int, from > later - WindowLength
        PROVE  Passes(p, from, later) <= MaxInWindow
    <3>1. \A k \in DOMAIN p : from <= p[k] /\ p[k] < later =>
                                start <= p[k] /\ p[k] < c.resetAt
      BY <2>1, <2>3, <2>4, <2>6, <2>7
    <3>2. Passes(p, from, later) <= Passes(p, start, c.resetAt)
      BY <2>1, <2>4, <3>1, FewerPass
    <3>3. Passes(p, from, later) \in Nat /\ Passes(p, start, c.resetAt) \in Nat
      BY <2>1, PassesAreFinite
    <3>4. QED
      BY <2>4, <2>5, <3>2, <3>3
  <2>8. \A k \in DOMAIN p : p[k] < later
    BY <2>1, <2>6
  <2>9. QED
    BY <2>7, <2>8 DEF Ended
<1>3. QED
  BY <1>1, <1>2 DEF ClientFacts, Counters

(* Time goes by.                                                           *)
LEMMA LaterFacts ==
  ASSUME NEW p, NEW c, NEW now \in Nat, NEW later \in Nat, later = now + 1,
         ClientFacts(p, c, now)
  PROVE  ClientFacts(p, c, later)
<1>1. p \in Seq(Nat) /\ c.count \in Nat /\ c.resetAt \in Nat /\ c \in Counters
  BY DEF ClientFacts, Counters
<1>2. /\ WindowLength \in Nat /\ MaxInWindow \in Nat
      /\ \A k \in DOMAIN p : p[k] \in Nat /\ p[k] <= now
  BY <1>1, LimitAssumption DEF ClientFacts
<1>3. ASSUME c.resetAt = 0 PROVE Ended(p, later)
  <2>1. Ended(p, now)
    BY <1>3 DEF ClientFacts
  <2>2. ASSUME NEW from \in Int, from > later - WindowLength
        PROVE  Passes(p, from, later) <= MaxInWindow
    <3>1. \A k \in DOMAIN p : from <= p[k] /\ p[k] < later <=> from <= p[k] /\ p[k] < now
      BY <1>2, <2>1 DEF Ended
    <3>2. Passes(p, from, later) = Passes(p, from, now)
      BY <1>1, <3>1, SamePass
    <3>3. from > now - WindowLength
      BY <1>2, <2>2
    <3>4. QED
      BY <2>1, <3>2, <3>3 DEF Ended
  <2>3. \A k \in DOMAIN p : p[k] < later
    BY <1>2
  <2>4. QED
    BY <2>2, <2>3 DEF Ended
<1>4. c.resetAt > 0 => WindowKept(p, c, later)
  BY <1>1, <1>2 DEF ClientFacts, WindowKept
<1>5. QED
  BY <1>1, <1>2, <1>3, <1>4 DEF ClientFacts

(* A counter that is pruned.                                               *)
LEMMA PrunedFacts ==
  ASSUME NEW p, NEW c, NEW now \in Nat, ClientFacts(p, c, now), c.resetAt <= now
  PROVE  ClientFacts(p, NoCounter, now)
<1>1. Ended(p, now)
  BY WindowEnds
<1>2. NoCounter \in Counters /\ NoCounter.resetAt = 0
  BY DEF NoCounter, Counters
<1>3. QED
  BY <1>1, <1>2 DEF ClientFacts

(* A request of a client: its counter goes on or starts, and the request   *)
(* passes while the count is not above max (rateLimit).                    *)
LEMMA WindowGoesOn ==
  ASSUME NEW p, NEW c, NEW now \in Nat, ClientFacts(p, c, now), c.resetAt > now,
         NEW d, d = [c EXCEPT !.count = @ + 1],
         NEW q, q = IF d.count <= MaxInWindow THEN Append(p, now) ELSE p
  PROVE  ClientFacts(q, d, now)
<1>1. /\ p \in Seq(Nat) /\ c.count \in Nat /\ c.resetAt \in Nat /\ c.resetAt > 0
      /\ WindowKept(p, c, now)
  BY DEF ClientFacts, Counters
<1>2. d \in Counters /\ d.count = c.count + 1 /\ d.resetAt = c.resetAt
  BY <1>1 DEF ClientFacts, Counters
<1>3. PICK start : start = c.resetAt - WindowLength
  OBVIOUS
<1>4. /\ start \in Int /\ start <= now /\ WindowLength \in Nat /\ MaxInWindow \in Nat
      /\ MaxInWindow > 0
  BY <1>1, <1>3, LimitAssumption DEF WindowKept
<1>5. PICK n : n = Passes(p, start, c.resetAt)
  OBVIOUS
<1>6. n = IF c.count <= MaxInWindow THEN c.count ELSE MaxInWindow
  BY <1>1, <1>3, <1>5 DEF WindowKept
<1>7. CASE d.count <= MaxInWindow
  <2>1. q = Append(p, now)
    BY <1>7
  <2>2. /\ q \in Seq(Nat)
        /\ \A k \in DOMAIN q : q[k] = now \/ (k \in DOMAIN p /\ q[k] = p[k])
    BY <1>1, <2>1, OneMorePasses
  <2>3. Passes(q, start, c.resetAt) = n + 1
    BY <1>1, <1>4, <1>5, <2>1, OneMorePasses
  <2>4. ASSUME NEW from \in Int, from > c.resetAt - 2 * WindowLength
        PROVE  Passes(q, from, start) <= MaxInWindow
    <3>1. Passes(p, from, start) <= MaxInWindow
      BY <1>1, <1>3, <2>4 DEF WindowKept
    <3>2. Passes(p, from, start) \in Nat
      BY <1>1, PassesAreFinite
    <3>3. ~(from <= now /\ now < start)
      BY <1>4
    <3>4. Passes(q, from, start) =
            Passes(p, from, start) + (IF from <= now /\ now < start THEN 1 ELSE 0)
      BY <1>1, <1>4, <2>1, OneMorePasses
    <3>5. QED
      BY <3>1, <3>2, <3>3, <3>4
  <2>5. \A k \in DOMAIN q : q[k] <= now /\ q[k] < c.resetAt
    BY <1>1, <2>2 DEF ClientFacts, WindowKept
  <2>6. n + 1 = IF d.count <= MaxInWindow THEN d.count ELSE MaxInWindow
    BY <1>1, <1>2, <1>6, <1>4, <1>7
  <2>7. WindowKept(q, d, now)
    BY <1>1, <1>2, <1>3, <1>4, <2>3, <2>4, <2>5, <2>6 DEF WindowKept
  <2>8. QED
    BY <1>1, <1>2, <2>2, <2>5, <2>7 DEF ClientFacts
<1>8. CASE ~(d.count <= MaxInWindow)
  <2>1. q = p
    BY <1>8
  <2>2. n = IF d.count <= MaxInWindow THEN d.count ELSE MaxInWindow
    BY <1>1, <1>2, <1>4, <1>6, <1>8
  <2>3. WindowKept(p, d, now)
    BY <1>1, <1>2, <1>3, <1>5, <2>2 DEF WindowKept
  <2>4. QED
    BY <1>1, <1>2, <2>1, <2>3 DEF ClientFacts
<1>9. QED
  BY <1>7, <1>8

(* A request after the end of the last window begins the next, and         *)
(* passes.                                                                 *)
LEMMA WindowBegins ==
  ASSUME NEW p, NEW c, NEW now \in Nat, ClientFacts(p, c, now), c.resetAt <= now,
         NEW d, d = [count |-> 1, resetAt |-> now + WindowLength],
         NEW q, q = Append(p, now)
  PROVE  ClientFacts(q, d, now)
<1>1. p \in Seq(Nat) /\ Ended(p, now)
  <2>1. Ended(p, now)
    BY WindowEnds
  <2>2. QED
    BY <2>1 DEF ClientFacts
<1>2. WindowLength \in Nat /\ WindowLength > 0 /\ MaxInWindow \in Nat /\ MaxInWindow > 0
  BY LimitAssumption
<1>3. d \in Counters /\ d.count = 1 /\ d.resetAt = now + WindowLength
  BY <1>2 DEF Counters
<1>4. /\ q \in Seq(Nat)
      /\ \A k \in DOMAIN q : q[k] = now \/ (k \in DOMAIN p /\ q[k] = p[k])
  BY <1>1, OneMorePasses
<1>5. \A k \in DOMAIN q : q[k] <= now /\ q[k] < now + WindowLength
  BY <1>1, <1>2, <1>4 DEF Ended
<1>6. PICK reset : reset = now + WindowLength
  OBVIOUS
<1>7. reset \in Nat /\ reset > 0 /\ reset - WindowLength = now /\ now < reset
  BY <1>2, <1>6
<1>8. Passes(q, now, reset) = 1
  <2>1. Between(p, now, reset) = {}
    BY <1>1 DEF Between, Ended
  <2>2. Passes(p, now, reset) = 0
    BY <2>1, FS_EmptySet DEF Passes
  <2>3. QED
    BY <1>1, <1>7, <2>2, OneMorePasses
<1>9. ASSUME NEW from \in Int, from > reset - 2 * WindowLength
      PROVE  Passes(q, from, now) <= MaxInWindow
  <2>1. from > now - WindowLength
    BY <1>2, <1>6, <1>9
  <2>2. Passes(p, from, now) <= MaxInWindow
    BY <1>1, <2>1 DEF Ended
  <2>3. Passes(p, from, now) \in Nat
    BY <1>1, PassesAreFinite
  <2>4. Passes(q, from, now) = Passes(p, from, now) + (IF from <= now /\ now < now THEN 1 ELSE 0)
    BY <1>1, OneMorePasses
  <2>5. QED
    BY <2>2, <2>3, <2>4
<1>10. WindowKept(q, d, now)
  BY <1>2, <1>3, <1>5, <1>6, <1>7, <1>8, <1>9 DEF WindowKept
<1>11. QED
  BY <1>3, <1>4, <1>5, <1>6, <1>7, <1>10 DEF ClientFacts

(* A span as long as a window takes in one window's end and the next one's *)
(* beginning at most.                                                      *)
LEMMA SpanHolds ==
  ASSUME NEW p, NEW c, NEW now \in Nat, ClientFacts(p, c, now), c.resetAt > now,
         NEW from \in Int, from <= now, now < from + WindowLength
  PROVE  Passes(p, from, from + WindowLength) <= 2 * MaxInWindow
<1>1. /\ p \in Seq(Nat) /\ c.count \in Nat /\ c.resetAt \in Nat /\ c.resetAt > 0
      /\ WindowKept(p, c, now) /\ WindowLength \in Nat /\ MaxInWindow \in Nat
  BY LimitAssumption DEF ClientFacts, Counters
<1>2. PICK start : start = c.resetAt - WindowLength
  OBVIOUS
<1>3. PICK to : to = from + WindowLength
  OBVIOUS
<1>4. start \in Int /\ start <= now /\ to \in Int
  BY <1>1, <1>2, <1>3 DEF WindowKept
<1>5. Passes(p, start, c.resetAt) <= MaxInWindow
  BY <1>1, <1>2 DEF WindowKept
<1>6. Passes(p, start, to) <= Passes(p, start, c.resetAt)
  <2>1. \A k \in DOMAIN p : start <= p[k] /\ p[k] < to => start <= p[k] /\ p[k] < c.resetAt
    BY <1>1 DEF WindowKept
  <2>2. QED
    BY <1>1, <1>4, <2>1, FewerPass
<1>7. /\ Passes(p, start, c.resetAt) \in Nat /\ Passes(p, start, to) \in Nat
      /\ Passes(p, from, start) \in Nat /\ Passes(p, from, to) \in Nat
  BY <1>1, PassesAreFinite
<1>8. Passes(p, from, start) <= MaxInWindow
  <2>1. from > c.resetAt - 2 * WindowLength
    BY <1>1, <1>2, <1>3, <1>4
  <2>2. QED
    BY <1>1, <1>2, <2>1 DEF WindowKept
<1>9. Passes(p, from, to) <= Passes(p, from, start) + Passes(p, start, to)
  BY <1>1, <1>4, SpanSplits
<1>10. Passes(p, from, to) <= 2 * MaxInWindow
  BY <1>1, <1>5, <1>6, <1>7, <1>8, <1>9
<1>11. QED
  BY <1>3, <1>10

(* The counter of a request and the requests let through with it.          *)
Asked(c, now) ==
  IF c.resetAt > now THEN [c EXCEPT !.count = @ + 1]
  ELSE [count |-> 1, resetAt |-> now + WindowLength]
Through(p, d, now) == IF d.count <= MaxInWindow THEN Append(p, now) ELSE p

(* A request keeps every client's facts, and is refused only when its      *)
(* window has let max through.                                             *)
LEMMA SenderKeeps ==
  ASSUME NEW p, NEW c, NEW now \in Nat, ClientFacts(p, c, now), SpansHold(p),
         NEW d, d = Asked(c, now), NEW q, q = Through(p, d, now)
  PROVE  /\ ClientFacts(q, d, now) /\ SpansHold(q)
         /\ ~(d.count <= MaxInWindow) =>
              Passes(q, d.resetAt - WindowLength, d.resetAt) = MaxInWindow
<1>1. /\ p \in Seq(Nat) /\ c.count \in Nat /\ c.resetAt \in Nat /\ c \in Counters
      /\ WindowLength \in Nat /\ WindowLength > 0 /\ MaxInWindow \in Nat /\ MaxInWindow > 0
  BY LimitAssumption DEF ClientFacts, Counters
<1>2. ClientFacts(q, d, now) /\ d.resetAt > now
  <2>1. CASE c.resetAt > now
    <3>1. d = [c EXCEPT !.count = @ + 1]
      BY <2>1 DEF Asked
    <3>2. d.resetAt = c.resetAt
      BY <1>1, <3>1 DEF Counters
    <3>3. QED
      BY <1>1, <2>1, <3>1, <3>2, WindowGoesOn DEF Through
  <2>2. CASE ~(c.resetAt > now)
    <3>1. d = [count |-> 1, resetAt |-> now + WindowLength]
      BY <2>2 DEF Asked
    <3>2. q = Append(p, now) /\ d.resetAt > now
      BY <1>1, <3>1 DEF Through
    <3>3. c.resetAt <= now
      BY <1>1, <2>2
    <3>4. QED
      BY <3>1, <3>2, <3>3, WindowBegins
  <2>3. QED
    BY <2>1, <2>2
<1>3. ASSUME NEW from \in Int
      PROVE  Passes(q, from, from + WindowLength) <= 2 * MaxInWindow
  <2>1. CASE from <= now /\ now < from + WindowLength
    BY <1>2, <2>1, SpanHolds
  <2>2. CASE ~(from <= now /\ now < from + WindowLength)
    <3>1. PICK to : to = from + WindowLength
      OBVIOUS
    <3>2. to \in Int
      BY <1>1, <3>1
    <3>3. Passes(Append(p, now), from, to) =
            Passes(p, from, to) + (IF from <= now /\ now < to THEN 1 ELSE 0)
      BY <1>1, <3>2, OneMorePasses
    <3>4. Passes(p, from, to) \in Nat
      BY <1>1, PassesAreFinite
    <3>5. Passes(Append(p, now), from, to) = Passes(p, from, to)
      BY <2>2, <3>1, <3>3, <3>4
    <3>6. Passes(q, from, to) = Passes(p, from, to)
      BY <3>5 DEF Through
    <3>7. Passes(p, from, to) <= 2 * MaxInWindow
      BY <3>1 DEF SpansHold
    <3>8. QED
      BY <3>1, <3>6, <3>7
  <2>3. QED
    BY <2>1, <2>2
<1>4. ASSUME ~(d.count <= MaxInWindow)
      PROVE  Passes(q, d.resetAt - WindowLength, d.resetAt) = MaxInWindow
  <2>1. WindowKept(q, d, now)
    BY <1>2 DEF ClientFacts, Counters
  <2>2. QED
    BY <1>4, <2>1 DEF WindowKept
<1>5. QED
  BY <1>2, <1>3, <1>4 DEF SpansHold

(* No client has a counter at the start.                                   *)
LEMMA LimitStarts == LimitInit => LimitInv
<1>1. SUFFICES ASSUME LimitInit PROVE LimitInv
  OBVIOUS
<1>2. NoCounter \in Counters /\ NoCounter.resetAt = 0 /\ <<>> \in Seq(Nat)
  BY DEF NoCounter, Counters
<1>3. \A from \in Int : \A to \in Int : Passes(<<>>, from, to) = 0
  <2>1. \A from \in Int : \A to \in Int : Between(<<>>, from, to) = {}
    BY DEF Between
  <2>2. QED
    BY <2>1, FS_EmptySet DEF Passes
<1>4. MaxInWindow \in Nat /\ WindowLength \in Nat
  BY LimitAssumption
<1>5. Ended(<<>>, 0)
  BY <1>3, <1>4 DEF Ended
<1>6. ClientFacts(<<>>, NoCounter, 0)
  BY <1>2, <1>5 DEF ClientFacts
<1>7. SpansHold(<<>>)
  BY <1>3, <1>4 DEF SpansHold
<1>8. moment = 0 /\ store = [s \in Senders |-> NoCounter] /\ passes = [s \in Senders |-> <<>>]
  BY <1>1 DEF LimitInit
<1>9. answered.passed /\ answered.state = NoCounter
  BY <1>1 DEF LimitInit
<1>10. \A s \in Senders : LastAnswerFits(s)
  BY <1>9 DEF LastAnswerFits
<1>11. \A s \in Senders : ClientFacts(passes[s], store[s], moment) /\ SpansHold(passes[s])
  BY <1>6, <1>7, <1>8
<1>12. QED
  BY <1>2, <1>8, <1>9, <1>10, <1>11 DEF LimitInv

(* Time passes: windows end.                                               *)
LEMMA TimeKeeps == LimitInv /\ TimePasses => LimitInv'
<1>1. SUFFICES ASSUME LimitInv, TimePasses PROVE LimitInv'
  OBVIOUS
<1>2. /\ moment' = moment + 1 /\ moment' \in Nat
      /\ store' = store /\ answered' = answered /\ passes' = passes
  BY <1>1 DEF TimePasses, LimitInv
<1>3. ASSUME NEW s \in Senders
      PROVE  ClientFacts(passes[s], store[s], moment)' /\ SpansHold(passes[s])'
             /\ LastAnswerFits(s)'
  <2>1. ClientFacts(passes[s], store[s], moment) /\ SpansHold(passes[s]) /\ LastAnswerFits(s)
    BY <1>1 DEF LimitInv
  <2>2. PICK p, c, now, later : p = passes[s] /\ c = store[s] /\ now = moment /\ later = moment'
    OBVIOUS
  <2>3. ClientFacts(p, c, now) /\ now \in Nat /\ later \in Nat /\ later = now + 1
    BY <1>1, <1>2, <2>1, <2>2 DEF LimitInv
  <2>4. ClientFacts(p, c, later)
    BY <2>3, LaterFacts
  <2>5. LastAnswerFits(s)'
    BY <1>2, <2>1 DEF LastAnswerFits, PassedIn
  <2>6. QED
    BY <1>2, <2>1, <2>2, <2>4, <2>5
<1>4. QED
  BY <1>1, <1>2, <1>3 DEF LimitInv

(* A request of one client, with the pruning of all counters it may        *)
(* bring.                                                                  *)
LEMMA LimitKeeps ==
  ASSUME NEW r \in Senders
  PROVE  LimitInv /\ Limit(r) => LimitInv'
<1>1. SUFFICES ASSUME LimitInv, Limit(r) PROVE LimitInv'
  OBVIOUS
<1>2. PICK now, counters, d :
        /\ now = moment
        /\ counters = (IF sinceCleanup + 1 >= PruneEvery THEN Pruned(store) ELSE store)
        /\ d = Counter(counters, r)
  OBVIOUS
<1>3. /\ moment' = now /\ now \in Nat
      /\ store' = [counters EXCEPT ![r] = d]
      /\ answered' = [to |-> r, passed |-> d.count <= MaxInWindow, state |-> d]
      /\ passes' = IF d.count <= MaxInWindow THEN [passes EXCEPT ![r] = Append(@, moment)]
                   ELSE passes
  BY <1>1, <1>2 DEF Limit, LimitInv
<1>4. ASSUME NEW s \in Senders
      PROVE  /\ counters[s] \in Counters
             /\ ClientFacts(passes[s], counters[s], now)
  <2>1. ClientFacts(passes[s], store[s], now)
    BY <1>1, <1>2 DEF LimitInv
  <2>2. PICK p, c : p = passes[s] /\ c = store[s]
    OBVIOUS
  <2>3. c.resetAt <= now => ClientFacts(p, NoCounter, now)
    BY <1>3, <2>1, <2>2, PrunedFacts
  <2>4. counters[s] = store[s] \/ (counters[s] = NoCounter /\ store[s].resetAt <= now)
    BY <1>2 DEF Pruned
  <2>5. ClientFacts(passes[s], counters[s], now)
    BY <2>1, <2>2, <2>3, <2>4
  <2>6. QED
    BY <2>5 DEF ClientFacts
<1>5. DOMAIN counters = Senders /\ counters = [s \in Senders |-> counters[s]]
  BY <1>1, <1>2 DEF Pruned, LimitInv
<1>6. counters \in [Senders -> Counters]
  BY <1>4, <1>5
<1>7. ASSUME NEW s \in Senders
      PROVE  /\ ClientFacts(passes[s], store[s], moment)' /\ SpansHold(passes[s])'
             /\ LastAnswerFits(s)'
             /\ passes'[s] \in Seq(Nat) /\ store'[s] \in Counters
             /\ s = r => d.resetAt \in Int
  <2>1. /\ ClientFacts(passes[s], counters[s], now) /\ SpansHold(passes[s])
        /\ LastAnswerFits(s) /\ passes \in [Senders -> Seq(Nat)]
    BY <1>1, <1>4 DEF LimitInv
  <2>2. CASE s = r
    <3>1. PICK p, c : p = passes[r] /\ c = counters[r]
      OBVIOUS
    <3>2. d = Asked(c, now)
      BY <1>2, <3>1 DEF Counter, Asked
    <3>3. PICK q : q = Through(p, d, now)
      OBVIOUS
    <3>4. /\ ClientFacts(q, d, now) /\ SpansHold(q)
          /\ ~(d.count <= MaxInWindow) =>
               Passes(q, d.resetAt - WindowLength, d.resetAt) = MaxInWindow
      <4>1. ClientFacts(p, c, now) /\ SpansHold(p) /\ now \in Nat
        BY <1>3, <2>1, <2>2, <3>1
      <4>2. QED
        BY <3>2, <3>3, <4>1, SenderKeeps
    <3>5. passes'[r] = q /\ store'[r] = d
      BY <1>2, <1>3, <1>6, <2>1, <3>1, <3>3 DEF Through
    <3>6. answered'.passed = (d.count <= MaxInWindow) /\ answered'.state = d
      BY <1>3
    <3>7. q \in Seq(Nat) /\ d \in Counters /\ d.resetAt \in Int
      BY <3>4 DEF ClientFacts, Counters
    <3>8. LastAnswerFits(r)'
      BY <3>4, <3>5, <3>6 DEF LastAnswerFits, PassedIn, Passes, Between
    <3>9. QED
      BY <1>3, <2>2, <3>4, <3>5, <3>7, <3>8
  <2>3. CASE s # r
    <3>1. passes'[s] = passes[s] /\ store'[s] = counters[s] /\ answered'.to # s
      BY <1>3, <1>6, <2>1, <2>3
    <3>2. LastAnswerFits(s)'
      BY <3>1 DEF LastAnswerFits
    <3>3. QED
      BY <1>3, <1>6, <2>1, <2>3, <3>1, <3>2
  <2>4. QED
    BY <2>2, <2>3
<1>8. answered'.state.resetAt \in Int
  BY <1>3, <1>7
<1>9. passes' \in [Senders -> Seq(Nat)] /\ store' \in [Senders -> Counters]
  <2>1. /\ DOMAIN passes' = Senders /\ passes' = [s \in Senders |-> passes'[s]]
        /\ DOMAIN store' = Senders /\ store' = [s \in Senders |-> store'[s]]
    BY <1>1, <1>3, <1>6 DEF LimitInv
  <2>2. QED
    BY <1>7, <2>1
<1>10. QED
  BY <1>3, <1>7, <1>8, <1>9 DEF LimitInv

(* The invariant of the limiter, step by step.                             *)
LEMMA LimitStep == LimitInv /\ [LimitNext]_limitVars => LimitInv'
<1>1. CASE TimePasses
  BY <1>1, TimeKeeps
<1>2. ASSUME NEW s \in Senders, Limit(s) PROVE LimitInv => LimitInv'
  BY <1>2, LimitKeeps
<1>3. CASE UNCHANGED limitVars
  <2>1. /\ moment' = moment /\ store' = store /\ answered' = answered /\ passes' = passes
    BY <1>3 DEF limitVars
  <2>2. QED
    BY <2>1 DEF LimitInv, LastAnswerFits, PassedIn
<1>4. QED
  BY <1>1, <1>2, <1>3 DEF LimitNext

(* The promise about windows and spans follows from it.                    *)
LEMMA LimitFollows == LimitInv => LimitHolds
<1>1. SUFFICES ASSUME LimitInv, NEW s \in Senders
               PROVE  /\ \A from \in Moments : PassedIn(s, from, from + WindowLength) <= 2 * MaxInWindow
                      /\ LET c == store[s] IN
                           c.resetAt > 0 =>
                             PassedIn(s, c.resetAt - WindowLength, c.resetAt) <= MaxInWindow
                      /\ answered.to = s /\ ~answered.passed =>
                           PassedIn(s, answered.state.resetAt - WindowLength, answered.state.resetAt)
                             = MaxInWindow
  BY DEF LimitHolds
<1>2. ClientFacts(passes[s], store[s], moment) /\ SpansHold(passes[s]) /\ LastAnswerFits(s)
  BY <1>1 DEF LimitInv
<1>3. \A from \in Moments : PassedIn(s, from, from + WindowLength) <= 2 * MaxInWindow
  <2>1. \A from \in Int : Passes(passes[s], from, from + WindowLength) <= 2 * MaxInWindow
    BY <1>2 DEF SpansHold
  <2>2. Moments \subseteq Int
    BY LimitAssumption DEF Moments
  <2>3. QED
    BY <2>1, <2>2 DEF PassedIn, Passes, Between
<1>4. store[s].resetAt > 0 =>
        PassedIn(s, store[s].resetAt - WindowLength, store[s].resetAt) <= MaxInWindow
  <2>1. PICK p, c : p = passes[s] /\ c = store[s]
    OBVIOUS
  <2>2. c.resetAt > 0 => Passes(p, c.resetAt - WindowLength, c.resetAt) <= MaxInWindow
    BY <1>2, <2>1, LimitAssumption DEF ClientFacts, WindowKept, Counters
  <2>3. QED
    BY <2>1, <2>2 DEF Passes, Between, PassedIn
<1>5. QED
  BY <1>2, <1>3, <1>4 DEF LastAnswerFits

(* The limiter holds what it promises of windows and spans, for every      *)
(* window length, limit and pruning interval (rate-limit.middleware.ts).   *)
THEOREM LimiterHolds == LimitSpec => []LimitHolds
<1>1. QED
  BY LimitStarts, LimitStep, LimitFollows, PTL DEF LimitSpec

(* The counters, the count to the next pruning and the moments requests    *)
(* passed stay in their types (rateLimit).                                 *)
LEMMA LimitTyped ==
  /\ LimitInit => LimitTypeOK
  /\ LimitTypeOK /\ [LimitNext]_limitVars => LimitTypeOK'
<1>. USE LimitAssumption
<1>1. LimitInit => LimitTypeOK
  <2>1. SUFFICES ASSUME LimitInit PROVE LimitTypeOK
    OBVIOUS
  <2>2. NoCounter \in Counters /\ 0 \in Moments /\ <<>> \in Seq(Moments)
    BY DEF NoCounter, Counters, Moments
  <2>3. answered.passed = TRUE
    BY <2>1 DEF LimitInit
  <2>4. QED
    BY <2>1, <2>2, <2>3 DEF LimitInit, LimitTypeOK
<1>2. ASSUME LimitTypeOK, TimePasses PROVE LimitTypeOK'
  BY <1>2 DEF LimitTypeOK, TimePasses, Moments
<1>3. ASSUME LimitTypeOK, NEW s \in Senders, Limit(s) PROVE LimitTypeOK'
  <2>1. PICK counters, d :
          /\ counters = (IF sinceCleanup + 1 >= PruneEvery THEN Pruned(store) ELSE store)
          /\ d = Counter(counters, s)
    OBVIOUS
  <2>2. /\ moment' = moment
        /\ sinceCleanup' = IF sinceCleanup + 1 >= PruneEvery THEN 0 ELSE sinceCleanup + 1
        /\ store' = [counters EXCEPT ![s] = d]
        /\ answered' = [to |-> s, passed |-> d.count <= MaxInWindow, state |-> d]
        /\ passes' = IF d.count <= MaxInWindow THEN [passes EXCEPT ![s] = Append(@, moment)]
                     ELSE passes
    BY <1>3, <2>1 DEF Limit
  <2>3. counters \in [Senders -> Counters]
    BY <1>3, <2>1 DEF Pruned, LimitTypeOK, NoCounter, Counters
  <2>4. d \in Counters
    <3>1. counters[s] \in Counters /\ moment \in Nat
      BY <1>3, <2>3 DEF LimitTypeOK, Moments
    <3>2. QED
      BY <2>1, <3>1 DEF Counter, Counters
  <2>5. passes' \in [Senders -> Seq(Moments)]
    BY <1>3, <2>2 DEF LimitTypeOK
  <2>6. answered'.passed \in BOOLEAN
    <3>1. answered'.passed = (d.count <= MaxInWindow)
      BY <2>2
    <3>2. QED
      BY <3>1
  <2>7. sinceCleanup' \in 0 .. PruneEvery - 1
    BY <1>3, <2>2 DEF LimitTypeOK
  <2>8. QED
    BY <1>3, <2>2, <2>3, <2>4, <2>5, <2>6, <2>7 DEF LimitTypeOK
<1>4. ASSUME LimitTypeOK, UNCHANGED limitVars PROVE LimitTypeOK'
  BY <1>4 DEF LimitTypeOK, limitVars
<1>5. QED
  BY <1>1, <1>2, <1>3, <1>4 DEF LimitNext

(* The store of the limiter, and what is known of its answers, stay in     *)
(* their types for every interval of pruning (rateLimit).                  *)
THEOREM LimitTypeCorrect == LimitSpec => []LimitTypeOK
<1>1. QED
  BY LimitTyped, PTL DEF LimitSpec
-----------------------------------------------------------------------------
(* The HTTP edge.                                                          *)

(* A handler that makes several checks answers with the first that does    *)
(* not pass, or lets the request in (the early throws of a handler).       *)
LEMMA TwoChecks ==
  ASSUME NEW a, NEW b, NEW accepted
  PROVE  \/ a = "passed" /\ b = "passed" /\ AnswerAfter(<<a, b>>, accepted) = accepted
         \/ a # "passed" /\ AnswerAfter(<<a, b>>, accepted) = a
         \/ b # "passed" /\ AnswerAfter(<<a, b>>, accepted) = b
<1>. DEFINE checks == <<a, b>>
            failed == {i \in 1 .. 2 : checks[i] # "passed"}
            first == CHOOSE i \in failed : \A j \in failed : i <= j
<1>1. DOMAIN checks = 1 .. 2 /\ checks[1] = a /\ checks[2] = b
  OBVIOUS
<1>2. AnswerAfter(checks, accepted) = IF failed = {} THEN accepted ELSE checks[first]
  BY <1>1 DEF AnswerAfter
<1>3. failed # {} => \E i \in failed : \A j \in failed : i <= j
  <2>1. failed \subseteq {1, 2}
    OBVIOUS
  <2>2. CASE 1 \in failed
    BY <2>1, <2>2
  <2>3. CASE 1 \notin failed
    BY <2>1, <2>3
  <2>4. QED
    BY <2>2, <2>3
<1>4. failed # {} => first \in failed
  BY <1>3
<1>5. failed = {} => a = "passed" /\ b = "passed"
  BY <1>1
<1>6. \A i \in failed : \/ i = 1 /\ checks[i] # "passed"
                        \/ i = 2 /\ checks[i] # "passed"
  OBVIOUS
<1>. HIDE DEF checks, failed, first
<1>7. QED
  BY <1>1, <1>2, <1>4, <1>5, <1>6 DEF checks

(* The same of three checks.                                               *)
LEMMA ThreeChecks ==
  ASSUME NEW a, NEW b, NEW c, NEW accepted
  PROVE  \/ /\ a = "passed" /\ b = "passed" /\ c = "passed"
            /\ AnswerAfter(<<a, b, c>>, accepted) = accepted
         \/ a # "passed" /\ AnswerAfter(<<a, b, c>>, accepted) = a
         \/ b # "passed" /\ AnswerAfter(<<a, b, c>>, accepted) = b
         \/ c # "passed" /\ AnswerAfter(<<a, b, c>>, accepted) = c
<1>. DEFINE checks == <<a, b, c>>
            failed == {i \in 1 .. 3 : checks[i] # "passed"}
            first == CHOOSE i \in failed : \A j \in failed : i <= j
<1>1. DOMAIN checks = 1 .. 3 /\ checks[1] = a /\ checks[2] = b /\ checks[3] = c
  OBVIOUS
<1>2. AnswerAfter(checks, accepted) = IF failed = {} THEN accepted ELSE checks[first]
  BY <1>1 DEF AnswerAfter
<1>3. failed # {} => \E i \in failed : \A j \in failed : i <= j
  <2>1. failed \subseteq {1, 2, 3}
    OBVIOUS
  <2>2. CASE 1 \in failed
    BY <2>1, <2>2
  <2>3. CASE 1 \notin failed /\ 2 \in failed
    BY <2>1, <2>3
  <2>4. CASE 1 \notin failed /\ 2 \notin failed
    BY <2>1, <2>4
  <2>5. QED
    BY <2>2, <2>3, <2>4
<1>4. failed # {} => first \in failed
  BY <1>3
<1>5. failed = {} => a = "passed" /\ b = "passed" /\ c = "passed"
  BY <1>1
<1>6. \A i \in failed : \/ i = 1 /\ checks[i] # "passed"
                        \/ i = 2 /\ checks[i] # "passed"
                        \/ i = 3 /\ checks[i] # "passed"
  OBVIOUS
<1>. HIDE DEF checks, failed, first
<1>7. QED
  BY <1>1, <1>2, <1>4, <1>5, <1>6 DEF checks

(* The same of four checks.                                                *)
LEMMA FourChecks ==
  ASSUME NEW a, NEW b, NEW c, NEW d, NEW accepted
  PROVE  \/ /\ a = "passed" /\ b = "passed" /\ c = "passed" /\ d = "passed"
            /\ AnswerAfter(<<a, b, c, d>>, accepted) = accepted
         \/ a # "passed" /\ AnswerAfter(<<a, b, c, d>>, accepted) = a
         \/ b # "passed" /\ AnswerAfter(<<a, b, c, d>>, accepted) = b
         \/ c # "passed" /\ AnswerAfter(<<a, b, c, d>>, accepted) = c
         \/ d # "passed" /\ AnswerAfter(<<a, b, c, d>>, accepted) = d
<1>. DEFINE checks == <<a, b, c, d>>
            failed == {i \in 1 .. 4 : checks[i] # "passed"}
            first == CHOOSE i \in failed : \A j \in failed : i <= j
<1>1. /\ DOMAIN checks = 1 .. 4
      /\ checks[1] = a /\ checks[2] = b /\ checks[3] = c /\ checks[4] = d
  OBVIOUS
<1>2. AnswerAfter(checks, accepted) = IF failed = {} THEN accepted ELSE checks[first]
  BY <1>1 DEF AnswerAfter
<1>3. failed # {} => \E i \in failed : \A j \in failed : i <= j
  <2>1. failed \subseteq {1, 2, 3, 4}
    OBVIOUS
  <2>2. CASE 1 \in failed
    BY <2>1, <2>2
  <2>3. CASE 1 \notin failed /\ 2 \in failed
    BY <2>1, <2>3
  <2>4. CASE 1 \notin failed /\ 2 \notin failed /\ 3 \in failed
    BY <2>1, <2>4
  <2>5. CASE 1 \notin failed /\ 2 \notin failed /\ 3 \notin failed
    BY <2>1, <2>5
  <2>6. QED
    BY <2>2, <2>3, <2>4, <2>5
<1>4. failed # {} => first \in failed
  BY <1>3
<1>5. failed = {} => a = "passed" /\ b = "passed" /\ c = "passed" /\ d = "passed"
  BY <1>1
<1>6. \A i \in failed : \/ i = 1 /\ checks[i] # "passed"
                        \/ i = 2 /\ checks[i] # "passed"
                        \/ i = 3 /\ checks[i] # "passed"
                        \/ i = 4 /\ checks[i] # "passed"
  OBVIOUS
<1>. HIDE DEF checks, failed, first
<1>7. QED
  BY <1>1, <1>2, <1>4, <1>5, <1>6 DEF checks

(* What the handler of a route answers, as the request and the environment *)
(* it was given decide it.                                                 *)
BillingAnswer == AnswerAfter(<<BillingPayload, ApiKey, Timestamp, Signature>>, "queued")
PreflightAnswer == AnswerAfter(<<ApiKey, Timestamp, Signature>>, "ok")
TelemetryAnswer ==
  AnswerAfter(<<ApiKey, Timestamp, Signature, TelemetryPayload>>, "recorded")
TestAnswer == AnswerAfter(<<AdminKey, BillingPayload>>, "queued")

AnswerFits ==
  \/ reply = "none"
  \/ /\ ValidSettings(settings)
     /\ \/ request.route = "billing" /\ reply = BillingAnswer
        \/ request.route = "preflight" /\ reply = PreflightAnswer
        \/ request.route = "telemetry" /\ reply = TelemetryAnswer
        \/ request.route = "test" /\ reply = TestAnswer

WorkFits ==
  work = "failed" =>
    \/ reply = "queued" /\ WorkFails(request.body)
    \/ reply = "recorded" /\ request.body.observedAt = "text"

(* A process answers once its environment passed the checks of the boot,   *)
(* as its handler answers, and work fails only after such an answer        *)
(* (validateEnv, the handlers and the worker).                             *)
GateInv ==
  /\ process = "up" => ValidSettings(settings)
  /\ AnswerFits
  /\ WorkFits

(* Nothing is answered before the boot.                                    *)
LEMMA GateStarts == GateInit => GateInv
BY DEF GateInit, GateInv, AnswerFits, WorkFits

(* What was answered stays the answer to the same request.                 *)
LEMMA GateStep == GateInv /\ [GateNext]_gateVars => GateInv'
<1>. SUFFICES ASSUME GateInv, [GateNext]_gateVars PROVE GateInv'
  OBVIOUS
<1>1. UNCHANGED <<settings, request>>
  BY DEF GateNext, gateVars, Boot, HandleBilling, HandlePreflight, HandleTelemetry,
         HandleTest, Answers, RunJob, InsertReport
<1>2. ValidSettings(settings)' = ValidSettings(settings)
  BY <1>1 DEF ValidSettings
<1>3. /\ BillingPayload' = BillingPayload /\ TelemetryPayload' = TelemetryPayload
      /\ ApiKey' = ApiKey /\ Timestamp' = Timestamp /\ Signature' = Signature
      /\ AdminKey' = AdminKey
  BY <1>1 DEF BillingPayload, TelemetryPayload, ApiKey, Timestamp, Tolerance, Signature,
     AdminKey
<1>4. /\ BillingAnswer' = BillingAnswer /\ PreflightAnswer' = PreflightAnswer
      /\ TelemetryAnswer' = TelemetryAnswer /\ TestAnswer' = TestAnswer
  BY <1>3 DEF BillingAnswer, PreflightAnswer, TelemetryAnswer, TestAnswer
<1>5. WorkFails(request.body)' = WorkFails(request.body)
  BY <1>1
<1>6. CASE Boot
  BY <1>1, <1>2, <1>4, <1>5, <1>6 DEF Boot, GateInv, AnswerFits, WorkFits
<1>7. CASE HandleBilling
  BY <1>1, <1>2, <1>4, <1>5, <1>7
     DEF HandleBilling, Answers, BillingAnswer, GateInv, AnswerFits, WorkFits
<1>8. CASE HandlePreflight
  BY <1>1, <1>2, <1>4, <1>5, <1>8
     DEF HandlePreflight, Answers, PreflightAnswer, GateInv, AnswerFits, WorkFits
<1>9. CASE HandleTelemetry
  BY <1>1, <1>2, <1>4, <1>5, <1>9
     DEF HandleTelemetry, Answers, TelemetryAnswer, GateInv, AnswerFits, WorkFits
<1>10. CASE HandleTest
  BY <1>1, <1>2, <1>4, <1>5, <1>10
     DEF HandleTest, Answers, TestAnswer, GateInv, AnswerFits, WorkFits
<1>11. CASE RunJob
  BY <1>1, <1>2, <1>4, <1>5, <1>11 DEF RunJob, GateInv, AnswerFits, WorkFits
<1>12. CASE InsertReport
  BY <1>1, <1>2, <1>4, <1>5, <1>12 DEF InsertReport, GateInv, AnswerFits, WorkFits
<1>13. CASE UNCHANGED gateVars
  BY <1>1, <1>2, <1>4, <1>5, <1>13 DEF gateVars, GateInv, AnswerFits, WorkFits
<1>14. QED
  BY <1>6, <1>7, <1>8, <1>9, <1>10, <1>11, <1>12, <1>13 DEF GateNext

(* A complete body of a known event.                                       *)
LEMMA CompleteFields ==
  ASSUME NEW event \in BillingEvents, NEW body, body = CompleteBody(event)
  PROVE  /\ body.event = event
         /\ body.expiresAt = "date" /\ body.observedAt = "date" /\ body.status = "paid"
         /\ body.deviceLimit = "count" /\ body.details = "object"
         /\ \A f \in NumberFields : body[f] = "count"
         /\ \A f \in EnumFields : body[f] = "known"
         /\ \A f \in RequiredText \cup (OptionalText \ {"status"}) : body[f] = "text"
<1>1. body.event = event
  BY DEF CompleteBody, Fields, RequiredText, OptionalText, NumberFields, EnumFields
<1>2. body.expiresAt = "date" /\ body.observedAt = "date"
  BY DEF CompleteBody, Fields, RequiredText, OptionalText, NumberFields, EnumFields
<1>3. body.status = "paid"
  BY DEF CompleteBody, Fields, RequiredText, OptionalText, NumberFields, EnumFields
<1>4. body.deviceLimit = "count" /\ body.details = "object"
  BY DEF CompleteBody, Fields, RequiredText, OptionalText, NumberFields, EnumFields
<1>5. \A f \in NumberFields : body[f] = "count"
  BY DEF CompleteBody, Fields, RequiredText, OptionalText, NumberFields, EnumFields
<1>6. \A f \in EnumFields : body[f] = "known"
  BY DEF CompleteBody, Fields, RequiredText, OptionalText, NumberFields, EnumFields
<1>7. \A f \in RequiredText \cup (OptionalText \ {"status"}) : body[f] = "text"
  BY DEF CompleteBody, Fields, RequiredText, OptionalText, NumberFields, EnumFields
<1>8. QED
  BY <1>1, <1>2, <1>3, <1>4, <1>5, <1>6, <1>7

(* A complete authentic request passes every check of a process that       *)
(* booted.                                                                 *)
CompleteRequest ==
  /\ request.headers = GoodHeaders /\ request.isRecord
  /\ \E event \in BillingEvents : request.body = CompleteBody(event)

(* A process that booted has its keys: no check fails for want of one,     *)
(* and an authentic request passes them.                                   *)
LEMMA CompletePasses ==
  ASSUME ValidSettings(settings)
  PROVE  /\ {ApiKey, AdminKey, Signature} \subseteq
              {"passed", "invalid key", "invalid signature", "forbidden"}
         /\ request.headers = GoodHeaders =>
              ApiKey = "passed" /\ Timestamp = "passed" /\ Signature = "passed" /\ AdminKey = "passed"
<1>1. settings.apiKey # "unset" /\ settings.secret # "unset" /\ settings.adminKey # "unset"
  BY DEF ValidSettings
<1>2. {ApiKey, AdminKey, Signature} \subseteq
        {"passed", "invalid key", "invalid signature", "forbidden"}
  BY <1>1 DEF ApiKey, AdminKey, Signature
<1>3. ASSUME request.headers = GoodHeaders
      PROVE  ApiKey = "passed" /\ Timestamp = "passed" /\ Signature = "passed" /\ AdminKey = "passed"
  <2>1. /\ request.headers.key = "right" /\ request.headers.clock = "number"
        /\ request.headers.offset = 0 /\ request.headers.signature = "right"
        /\ request.headers.rawBody
    BY <1>3 DEF GoodHeaders
  <2>2. 0 \in -Tolerance .. Tolerance
    BY DEF Tolerance
  <2>3. QED
    BY <1>1, <2>1, <2>2 DEF ApiKey, Timestamp, Signature, AdminKey
<1>4. QED
  BY <1>2, <1>3

(* A complete body is parsed by both parsers.                              *)
LEMMA CompleteParses ==
  CompleteRequest => BillingPayload = "passed" /\ TelemetryPayload = "passed"
<1>1. SUFFICES ASSUME CompleteRequest,
                      NEW event \in BillingEvents, request.body = CompleteBody(event)
               PROVE  BillingPayload = "passed" /\ TelemetryPayload = "passed"
  BY DEF CompleteRequest
<1>2. PICK body : body = request.body
  OBVIOUS
<1>3. request.isRecord
  BY <1>1 DEF CompleteRequest
<1>4. /\ body.event = event
      /\ body.expiresAt = "date" /\ body.observedAt = "date" /\ body.status = "paid"
      /\ body.deviceLimit = "count" /\ body.details = "object"
      /\ \A f \in NumberFields : body[f] = "count"
      /\ \A f \in EnumFields : body[f] = "known"
      /\ \A f \in RequiredText \cup (OptionalText \ {"status"}) : body[f] = "text"
  BY <1>1, <1>2, CompleteFields
<1>5. /\ body.externalPaymentId = "text" /\ body.externalPlanId = "text"
      /\ body.deviceId = "text" /\ body.installId = "text"
  BY <1>4 DEF OptionalText
<1>6. HasWhatEventNeeds(body)
  BY <1>4, <1>5 DEF HasWhatEventNeeds, BillingEvents
<1>7. \A f \in RequiredText : GivenText(body[f])
  BY <1>4 DEF GivenText
<1>8. \A f \in OptionalText \cup {"expiresAt"} : OptionalTextOK(body[f])
  BY <1>4 DEF OptionalTextOK
<1>9. BillingPayload = "passed"
  BY <1>2, <1>3, <1>4, <1>6, <1>7, <1>8 DEF BillingPayload, OptionalNumberOK
<1>10. body.eventType = "known" /\ body.result = "known" /\ body.classification = "known"
  BY <1>4 DEF EnumFields
<1>11. \A f \in NumberFields : OptionalNumberOK(body[f]) /\ body[f] # "fraction"
  BY <1>4 DEF OptionalNumberOK
<1>12. TelemetryPayload = "passed"
  BY <1>2, <1>3, <1>4, <1>5, <1>10, <1>11 DEF TelemetryPayload, OptionalTextOK
<1>13. QED
  BY <1>9, <1>12

(* What a job of a body the edge let in can still fail for.                *)
LEMMA ParsedServes ==
  BillingPayload = "passed" /\ WorkFails(request.body) =>
    \/ request.body.event = "payment_paid" /\ request.body.status # "paid"
    \/ request.body.deviceId = "blank"
<1>1. PICK body : body = request.body
  OBVIOUS
<1>2. SUFFICES ASSUME BillingPayload = "passed", WorkFails(body)
               PROVE  \/ body.event = "payment_paid" /\ body.status # "paid"
                      \/ body.deviceId = "blank"
  BY <1>1
<1>3. /\ body.event \in BillingEvents
      /\ \A f \in OptionalText : OptionalTextOK(body[f])
      /\ OptionalNumberOK(body.deviceLimit) /\ HasWhatEventNeeds(body)
      /\ body.deviceLimit \notin {"negative", "fraction"}
  BY <1>1, <1>2 DEF BillingPayload
<1>4. body.externalPlanId # "object"
  BY <1>3 DEF OptionalText, OptionalTextOK
<1>5. CASE body.event = "payment_paid"
  BY <1>2, <1>3, <1>4, <1>5 DEF WorkFails, HasWhatEventNeeds, GivenText, OptionalNumberOK
<1>6. CASE body.event = "plan_changed"
  BY <1>2, <1>3, <1>4, <1>6 DEF WorkFails, HasWhatEventNeeds, GivenText, OptionalNumberOK
<1>7. CASE body.event = "device_activated"
  BY <1>2, <1>3, <1>7 DEF WorkFails, HasWhatEventNeeds
<1>8. CASE body.event = "subscription_cancel"
  BY <1>2, <1>8 DEF WorkFails
<1>9. QED
  BY <1>3, <1>5, <1>6, <1>7, <1>8 DEF BillingEvents

(* What any answer of a handler implies.                                   *)
LEMMA AnswerSays ==
  ASSUME GateInv, reply # "none"
  PROVE  /\ reply \in {"ok", "queued", "recorded"} =>
              /\ request.route # "test" =>
                   ApiKey = "passed" /\ Timestamp = "passed" /\ Signature = "passed"
              /\ request.route = "test" => AdminKey = "passed"
              /\ reply = "queued" => BillingPayload = "passed"
         /\ reply \notin {"ok", "queued", "recorded"} => ~CompleteRequest
         /\ reply # "internal error"
<1>1. ValidSettings(settings)
  BY DEF GateInv, AnswerFits
<1>2. /\ BillingPayload \in {"passed", "invalid payload"}
      /\ TelemetryPayload \in {"passed", "invalid payload"}
  BY DEF BillingPayload, TelemetryPayload
<1>3. Timestamp \in {"passed", "invalid signature"}
  BY DEF Timestamp
<1>4. /\ ApiKey \in {"passed", "invalid key", "invalid signature", "forbidden"}
      /\ AdminKey \in {"passed", "invalid key", "invalid signature", "forbidden"}
      /\ Signature \in {"passed", "invalid key", "invalid signature", "forbidden"}
  BY <1>1, CompletePasses
<1>5. CompleteRequest =>
        /\ BillingPayload = "passed" /\ TelemetryPayload = "passed"
        /\ ApiKey = "passed" /\ Timestamp = "passed" /\ Signature = "passed" /\ AdminKey = "passed"
  BY <1>1, CompletePasses, CompleteParses DEF CompleteRequest
<1>6. PICK p, e, k, m, g, n :
        /\ p = BillingPayload /\ e = TelemetryPayload
        /\ k = ApiKey /\ m = Timestamp /\ g = Signature /\ n = AdminKey
  OBVIOUS
<1>7. ASSUME request.route = "billing", reply = BillingAnswer
      PROVE  \/ reply = "queued" /\ k = "passed" /\ m = "passed" /\ g = "passed" /\ p = "passed"
             \/ reply = p /\ p # "passed"
             \/ reply = k /\ k # "passed"
             \/ reply = m /\ m # "passed"
             \/ reply = g /\ g # "passed"
  <2>1. reply = AnswerAfter(<<p, k, m, g>>, "queued")
    BY <1>6, <1>7 DEF BillingAnswer
  <2>2. QED
    BY <2>1, FourChecks
<1>8. ASSUME request.route = "preflight", reply = PreflightAnswer
      PROVE  \/ reply = "ok" /\ k = "passed" /\ m = "passed" /\ g = "passed"
             \/ reply = k /\ k # "passed"
             \/ reply = m /\ m # "passed"
             \/ reply = g /\ g # "passed"
  <2>1. reply = AnswerAfter(<<k, m, g>>, "ok")
    BY <1>6, <1>8 DEF PreflightAnswer
  <2>2. QED
    BY <2>1, ThreeChecks
<1>9. ASSUME request.route = "telemetry", reply = TelemetryAnswer
      PROVE  \/ reply = "recorded" /\ k = "passed" /\ m = "passed" /\ g = "passed"
             \/ reply = e /\ e # "passed"
             \/ reply = k /\ k # "passed"
             \/ reply = m /\ m # "passed"
             \/ reply = g /\ g # "passed"
  <2>1. reply = AnswerAfter(<<k, m, g, e>>, "recorded")
    BY <1>6, <1>9 DEF TelemetryAnswer
  <2>2. QED
    BY <2>1, FourChecks
<1>10. ASSUME request.route = "test", reply = TestAnswer
      PROVE  \/ reply = "queued" /\ n = "passed" /\ p = "passed"
             \/ reply = n /\ n # "passed"
             \/ reply = p /\ p # "passed"
  <2>1. reply = AnswerAfter(<<n, p>>, "queued")
    BY <1>6, <1>10 DEF TestAnswer
  <2>2. QED
    BY <2>1, TwoChecks
<1>11. \/ request.route = "billing" /\ reply = BillingAnswer
       \/ request.route = "preflight" /\ reply = PreflightAnswer
       \/ request.route = "telemetry" /\ reply = TelemetryAnswer
       \/ request.route = "test" /\ reply = TestAnswer
  BY DEF GateInv, AnswerFits
<1>12. /\ p \in {"passed", "invalid payload"} /\ e \in {"passed", "invalid payload"}
       /\ m \in {"passed", "invalid signature"}
       /\ k \in {"passed", "invalid key", "invalid signature", "forbidden"}
       /\ n \in {"passed", "invalid key", "invalid signature", "forbidden"}
       /\ g \in {"passed", "invalid key", "invalid signature", "forbidden"}
  BY <1>6, <1>2, <1>3, <1>4
<1>13. CompleteRequest => /\ p = "passed" /\ e = "passed" /\ k = "passed"
                          /\ m = "passed" /\ g = "passed" /\ n = "passed"
  BY <1>6, <1>5
<1>14. /\ reply \in {"ok", "queued", "recorded"} =>
            /\ request.route # "test" => k = "passed" /\ m = "passed" /\ g = "passed"
            /\ request.route = "test" => n = "passed"
            /\ reply = "queued" => p = "passed"
       /\ reply \notin {"ok", "queued", "recorded"} => ~CompleteRequest
       /\ reply # "internal error"
  BY <1>7, <1>8, <1>9, <1>10, <1>11, <1>12, <1>13
<1>15. QED
  BY <1>6, <1>14

(* What the edge promises follows from how its handlers answer.            *)
LEMMA GateHolds == GateInv => LetInIsServable
<1>1. SUFFICES ASSUME GateInv PROVE LetInIsServable
  OBVIOUS
<1>2. reply \in {"ok", "queued", "recorded"} =>
        /\ request.headers.key = "right"
        /\ request.route # "test" =>
             /\ request.headers.clock = "number"
             /\ request.headers.offset \in -Tolerance .. Tolerance
             /\ request.headers.signature = "right" /\ request.headers.rawBody
  <2>1. ApiKey = "passed" => request.headers.key = "right"
    BY DEF ApiKey
  <2>2. AdminKey = "passed" => request.headers.key = "right"
    BY DEF AdminKey
  <2>3. Timestamp = "passed" => /\ request.headers.clock = "number"
                                /\ request.headers.offset \in -Tolerance .. Tolerance
    BY DEF Timestamp
  <2>4. Signature = "passed" => request.headers.signature = "right" /\ request.headers.rawBody
    BY DEF Signature
  <2>5. QED
    BY <1>1, <2>1, <2>2, <2>3, <2>4, AnswerSays
<1>3. work = "failed" =>
        \/ request.body.event = "payment_paid" /\ request.body.status # "paid"
        \/ request.body.deviceId = "blank"
        \/ request.body.observedAt = "text"
  BY <1>1, AnswerSays, ParsedServes DEF GateInv, WorkFits
<1>4. reply \notin {"none", "ok", "queued", "recorded"} =>
        \/ request.headers # GoodHeaders \/ ~request.isRecord
        \/ \A event \in BillingEvents : request.body # CompleteBody(event)
  BY <1>1, AnswerSays DEF CompleteRequest
<1>5. reply # "internal error"
  BY <1>1, AnswerSays
<1>6. QED
  BY <1>2, <1>3, <1>4, <1>5 DEF LetInIsServable

(* Whatever the edge lets in was checked and can be served, and a complete *)
(* authentic request is never refused, for every clock offset              *)
(* (webhook.service.ts, validate-env.ts).                                  *)
THEOREM EdgeLetsServableIn == GateSpec => []LetInIsServable
<1>1. QED
  BY GateStarts, GateStep, GateHolds, PTL DEF GateSpec

(* What a check of the edge may come to.                                   *)
LEMMA CheckReplies ==
  /\ BillingPayload \in {"passed", "invalid payload"}
  /\ TelemetryPayload \in {"passed", "invalid payload"}
  /\ ApiKey \in {"passed", "internal error", "invalid key"}
  /\ Timestamp \in {"passed", "invalid signature"}
  /\ Signature \in {"passed", "internal error", "invalid signature"}
  /\ AdminKey \in {"passed", "internal error", "invalid key", "forbidden"}
<1>1. BillingPayload \in {"passed", "invalid payload"}
  BY DEF BillingPayload
<1>2. TelemetryPayload \in {"passed", "invalid payload"}
  BY DEF TelemetryPayload
<1>3. ApiKey \in {"passed", "internal error", "invalid key"}
  BY DEF ApiKey
<1>4. Timestamp \in {"passed", "invalid signature"}
  BY DEF Timestamp
<1>5. Signature \in {"passed", "internal error", "invalid signature"}
  BY DEF Signature
<1>6. AdminKey \in {"passed", "internal error", "invalid key", "forbidden"}
  BY DEF AdminKey
<1>7. QED
  BY <1>1, <1>2, <1>3, <1>4, <1>5, <1>6

(* The answers of the edge.                                                *)
EdgeReplies == {"none", "ok", "queued", "recorded", "invalid payload", "invalid key",
                "invalid signature", "forbidden", "internal error"}

(* Every handler answers with one of them.                                 *)
LEMMA AnswersKnown ==
  /\ BillingAnswer \in EdgeReplies /\ PreflightAnswer \in EdgeReplies
  /\ TelemetryAnswer \in EdgeReplies /\ TestAnswer \in EdgeReplies
<1>1. PICK b, k, t, s, p, a :
        /\ b = BillingPayload /\ k = ApiKey /\ t = Timestamp /\ s = Signature
        /\ p = TelemetryPayload /\ a = AdminKey
  OBVIOUS
<1>2. /\ b \in {"passed", "invalid payload"} /\ p \in {"passed", "invalid payload"}
      /\ k \in {"passed", "internal error", "invalid key"}
      /\ t \in {"passed", "invalid signature"}
      /\ s \in {"passed", "internal error", "invalid signature"}
      /\ a \in {"passed", "internal error", "invalid key", "forbidden"}
  BY <1>1, CheckReplies
<1>3. AnswerAfter(<<b, k, t, s>>, "queued") \in EdgeReplies
  <2>1. PICK r : r = AnswerAfter(<<b, k, t, s>>, "queued")
    OBVIOUS
  <2>2. \/ r = "queued"
        \/ b # "passed" /\ r = b
        \/ k # "passed" /\ r = k
        \/ t # "passed" /\ r = t
        \/ s # "passed" /\ r = s
    BY <2>1, FourChecks
  <2>3. r \in EdgeReplies
    BY ONLY <1>2, <2>2 DEF EdgeReplies
  <2>4. QED
    BY <2>1, <2>3
<1>4. AnswerAfter(<<k, t, s>>, "ok") \in EdgeReplies
  <2>1. PICK r : r = AnswerAfter(<<k, t, s>>, "ok")
    OBVIOUS
  <2>2. \/ r = "ok"
        \/ k # "passed" /\ r = k
        \/ t # "passed" /\ r = t
        \/ s # "passed" /\ r = s
    BY <2>1, ThreeChecks
  <2>3. r \in EdgeReplies
    BY ONLY <1>2, <2>2 DEF EdgeReplies
  <2>4. QED
    BY <2>1, <2>3
<1>5. AnswerAfter(<<k, t, s, p>>, "recorded") \in EdgeReplies
  <2>1. PICK r : r = AnswerAfter(<<k, t, s, p>>, "recorded")
    OBVIOUS
  <2>2. \/ r = "recorded"
        \/ k # "passed" /\ r = k
        \/ t # "passed" /\ r = t
        \/ s # "passed" /\ r = s
        \/ p # "passed" /\ r = p
    BY <2>1, FourChecks
  <2>3. r \in EdgeReplies
    BY ONLY <1>2, <2>2 DEF EdgeReplies
  <2>4. QED
    BY <2>1, <2>3
<1>6. AnswerAfter(<<a, b>>, "queued") \in EdgeReplies
  <2>1. PICK r : r = AnswerAfter(<<a, b>>, "queued")
    OBVIOUS
  <2>2. \/ r = "queued"
        \/ a # "passed" /\ r = a
        \/ b # "passed" /\ r = b
    BY <2>1, TwoChecks
  <2>3. r \in EdgeReplies
    BY ONLY <1>2, <2>2 DEF EdgeReplies
  <2>4. QED
    BY <2>1, <2>3
<1>7. QED
  BY <1>1, <1>3, <1>4, <1>5, <1>6
     DEF BillingAnswer, PreflightAnswer, TelemetryAnswer, TestAnswer

(* A handler, the worker or an insert answers in the types.                *)
LEMMA GateTyped == GateTypeOK /\ [GateNext]_gateVars => GateTypeOK'
<1>. SUFFICES ASSUME GateTypeOK, [GateNext]_gateVars PROVE GateTypeOK'
  OBVIOUS
<1>1. settings' = settings
  BY DEF GateNext, gateVars, Boot, HandleBilling, HandlePreflight, HandleTelemetry,
         HandleTest, Answers, RunJob, InsertReport
<1>2. CASE Boot
  BY <1>1, <1>2 DEF Boot, GateTypeOK
<1>3. CASE HandleBilling \/ HandlePreflight \/ HandleTelemetry \/ HandleTest
  <2>1. reply' \in EdgeReplies /\ UNCHANGED <<process, work>>
    BY <1>3, AnswersKnown
       DEF HandleBilling, HandlePreflight, HandleTelemetry, HandleTest, Answers,
           BillingAnswer, PreflightAnswer, TelemetryAnswer, TestAnswer
  <2>2. QED
    BY <1>1, <2>1 DEF GateTypeOK, EdgeReplies
<1>4. CASE RunJob \/ InsertReport
  BY <1>1, <1>4 DEF RunJob, InsertReport, GateTypeOK
<1>5. CASE UNCHANGED gateVars
  BY <1>5 DEF gateVars, GateTypeOK
<1>6. QED
  BY <1>2, <1>3, <1>4, <1>5 DEF GateNext

(* The settings the process may start with are of the range.               *)
LEMMA SettingsGood == GoodSettings \in SettingsRange
<1>1. [GoodSettings EXCEPT !.tolerance = "unset"] = GoodSettings
  BY DEF GoodSettings
<1>2. [GoodSettings EXCEPT !.tolerance = "unset"] \in SettingsRange
  BY DEF SettingsRange
<1>3. QED
  BY <1>1, <1>2

(* A request at the edge has one of the answers its handlers name, under   *)
(* any settings, body and headers (webhook.controller.ts, validate-env.ts, *)
(* webhook.service.ts).                                                    *)
THEOREM GateTypeCorrect == GateSpec => []GateTypeOK
<1>1. GateInit => GateTypeOK
  BY SettingsGood DEF GateInit, GateTypeOK
<1>2. QED
  BY <1>1, GateTyped, PTL DEF GateSpec
-----------------------------------------------------------------------------
(* The configurator's catalogue.                                           *)

EditRows == [step : {"none", "clear", "save", "site"},
             id : Templates \cup Domains \cup {NoTemplate},
             row : TemplateRows \cup {NoTemplateRow},
             site : DomainRows \cup {NoDomain}, alone : BOOLEAN]

(* What an edit under way has read and made of it.                         *)
EditFits(a) ==
  /\ edit[a].step \in {"clear", "save"} => edit[a].id \in Templates /\ edit[a].row \in TemplateRows
  /\ edit[a].step = "clear" => edit[a].row.isDefault
  /\ edit[a].step = "site" => edit[a].id \in Domains /\ edit[a].site \in DomainRows

AloneFits(a) ==
  edit[a].step # "none" /\ edit[a].alone => \A b \in Editors : b # a => edit[b].step = "none"

SavesDefault(a, type) ==
  edit[a].step = "save" /\ edit[a].row.isDefault /\ edit[a].row.type = type

IsDefaultOf(t, type) == template[t].type = type /\ template[t].isDefault

ClearedFirst(a) ==
  \A type \in Types : SavesDefault(a, type) /\ edit[a].alone =>
    \A t \in Templates : IsDefaultOf(t, type) => t = edit[a].id

DefaultFits(type) ==
  \/ type \in tangled
  \/ \E a \in Editors : SavesDefault(a, type)
  \/ \A t \in Templates : IsDefaultOf(t, type) <=> chosen[type] = t

SitesFit ==
  /\ \A d \in Domains : domain[d].isActive <=> d \in offered
  /\ \A d, e \in Domains : d # e /\ domain[d].stored /\ domain[e].stored =>
       domain[d].url # domain[e].url

CatalogueInv ==
  /\ template \in [Templates -> TemplateRows \cup {NoTemplateRow}]
  /\ domain \in [Domains -> DomainRows \cup {NoDomain}]
  /\ edit \in [Editors -> EditRows]
  /\ chosen \in [Types -> Templates \cup {NoTemplate}]
  /\ \A a \in Editors : EditFits(a) /\ AloneFits(a) /\ ClearedFirst(a)
  /\ \A type \in Types : DefaultFits(type)
  /\ SitesFit

(* What the rows of the catalogue are made of.                             *)
LEMMA RowsTyped ==
  /\ \A row \in TemplateRows : row.type \in Types /\ row.isDefault \in BOOLEAN
  /\ ~NoTemplateRow.isDefault
  /\ \A site \in DomainRows : site.stored /\ site.isActive \in BOOLEAN
  /\ ~NoDomain.stored /\ ~NoDomain.isActive
  /\ NoEdit \in EditRows /\ NoEdit.step = "none"
BY DEF TemplateRows, NoTemplateRow, DomainRows, NoDomain, NoEdit, EditRows

(* The catalogue is empty at the start.                                    *)
LEMMA CatalogueStarts == CatalogueInit => CatalogueInv
<1>1. SUFFICES ASSUME CatalogueInit PROVE CatalogueInv
  OBVIOUS
<1>2. /\ template = [t \in Templates |-> NoTemplateRow] /\ domain = [d \in Domains |-> NoDomain]
      /\ edit = [a \in Editors |-> NoEdit] /\ chosen = [type \in Types |-> NoTemplate]
      /\ offered = {}
  BY <1>1 DEF CatalogueInit
<1>3. \A a \in Editors : EditFits(a) /\ AloneFits(a) /\ ClearedFirst(a)
  BY <1>2, RowsTyped DEF EditFits, AloneFits, ClearedFirst, SavesDefault
<1>4. \A type \in Types : DefaultFits(type)
  BY <1>2, RowsTyped, CatalogueAssumption DEF DefaultFits, IsDefaultOf
<1>5. SitesFit
  BY <1>2, RowsTyped DEF SitesFit
<1>6. QED
  BY <1>2, <1>3, <1>4, <1>5, RowsTyped DEF CatalogueInv

(* An edit begins: every other is under way no longer alone.               *)
BeginsWith(a, call) ==
  /\ edit[a].step = "none"
  /\ edit' = Begun(a, call)
  /\ UNCHANGED <<template, domain, chosen, offered, tangled>>

(* The edits under way stay what they were when another begins.            *)
LEMMA EditBegins ==
  ASSUME NEW a \in Editors, NEW call \in EditRows,
         call.step \in {"clear", "save"} => call.id \in Templates /\ call.row \in TemplateRows,
         call.step = "clear" => call.row.isDefault,
         call.step = "save" => ~call.row.isDefault,
         call.step = "site" => call.id \in Domains /\ call.site \in DomainRows,
         CatalogueInv, BeginsWith(a, call)
  PROVE  CatalogueInv'
<1>1. /\ template' = template /\ domain' = domain /\ chosen' = chosen /\ offered' = offered
      /\ tangled' = tangled
  BY DEF BeginsWith
<1>2. PICK none : none = (Open = {})
  OBVIOUS
<1>3. none \in BOOLEAN
  BY <1>2
<1>4. edit \in [Editors -> EditRows]
  BY DEF CatalogueInv
<1>5. edit' = [b \in Editors |-> IF b = a THEN [call EXCEPT !.alone = none]
                                ELSE [edit[b] EXCEPT !.alone = FALSE]]
  BY <1>2 DEF BeginsWith, Begun
<1>6. edit' \in [Editors -> EditRows]
  BY <1>3, <1>4, <1>5 DEF EditRows
<1>7. /\ edit'[a].step = call.step /\ edit'[a].id = call.id /\ edit'[a].row = call.row
      /\ edit'[a].site = call.site /\ edit'[a].alone = none
  BY <1>5 DEF EditRows
<1>8. ASSUME NEW b \in Editors, b # a
      PROVE  /\ edit'[b].step = edit[b].step /\ edit'[b].id = edit[b].id
             /\ edit'[b].row = edit[b].row /\ edit'[b].site = edit[b].site /\ ~edit'[b].alone
  BY <1>4, <1>5, <1>8 DEF EditRows
<1>9. none => \A b \in Editors : edit[b].step = "none"
  BY <1>2 DEF Open
<1>10. ASSUME NEW b \in Editors PROVE EditFits(b)'
  <2>1. CASE b = a
    BY <1>7, <2>1 DEF EditFits
  <2>2. CASE b # a
    BY <1>8, <2>2 DEF EditFits, CatalogueInv
  <2>3. QED
    BY <2>1, <2>2
<1>11. ASSUME NEW b \in Editors PROVE AloneFits(b)'
  <2>1. CASE b = a
    BY <1>7, <1>8, <1>9, <2>1 DEF AloneFits
  <2>2. CASE b # a
    BY <1>8, <2>2 DEF AloneFits
  <2>3. QED
    BY <2>1, <2>2
<1>12. ASSUME NEW b \in Editors PROVE ClearedFirst(b)'
  <2>1. CASE b = a
    BY <1>7, <2>1 DEF ClearedFirst, SavesDefault
  <2>2. CASE b # a
    BY <1>8, <2>2 DEF ClearedFirst
  <2>3. QED
    BY <2>1, <2>2
<1>13. ASSUME NEW type \in Types PROVE DefaultFits(type)'
  <2>1. DefaultFits(type)
    BY DEF CatalogueInv
  <2>2. ASSUME NEW b \in Editors, SavesDefault(b, type) PROVE SavesDefault(b, type)'
    BY <1>8, <2>2 DEF SavesDefault, BeginsWith
  <2>3. QED
    BY <1>1, <2>1, <2>2 DEF DefaultFits, IsDefaultOf
<1>14. SitesFit'
  BY <1>1 DEF SitesFit, CatalogueInv
<1>15. QED
  BY <1>1, <1>6, <1>10, <1>11, <1>12, <1>13, <1>14 DEF CatalogueInv

(* An edit of a template begins (createPolicyTemplate,                     *)
(* updatePolicyTemplate).                                                  *)
LEMMA TemplateEditBegins ==
  ASSUME NEW a \in Editors, NEW t \in Templates, CatalogueInv,
         CreateTemplate(a, t) \/ UpdateTemplate(a, t)
  PROVE  CatalogueInv'
<1>1. PICK row \in TemplateRows :
        BeginsWith(a, [NoEdit EXCEPT !.step = IF row.isDefault THEN "clear" ELSE "save",
                                     !.id = t, !.row = row])
  BY DEF CreateTemplate, UpdateTemplate, BeginsWith
<1>2. PICK call : call = [NoEdit EXCEPT !.step = IF row.isDefault THEN "clear" ELSE "save",
                                        !.id = t, !.row = row]
  OBVIOUS
<1>3. call \in EditRows
  BY <1>2 DEF NoEdit, EditRows
<1>4. /\ call.step = IF row.isDefault THEN "clear" ELSE "save"
      /\ call.id = t /\ call.row = row
  BY <1>2 DEF NoEdit
<1>5. BeginsWith(a, call)
  BY <1>1, <1>2
<1>6. QED
  BY <1>3, <1>4, <1>5, EditBegins

(* An edit of a domain begins (createDomainEndpoint,                       *)
(* updateDomainEndpoint).                                                  *)
LEMMA SiteEditBegins ==
  ASSUME NEW a \in Editors, NEW d \in Domains, CatalogueInv,
         CreateDomainEndpoint(a, d) \/ UpdateDomainEndpoint(a, d)
  PROVE  CatalogueInv'
<1>1. PICK site \in DomainRows :
        BeginsWith(a, [NoEdit EXCEPT !.step = "site", !.id = d, !.site = site])
  BY DEF CreateDomainEndpoint, UpdateDomainEndpoint, BeginsWith
<1>2. PICK call : call = [NoEdit EXCEPT !.step = "site", !.id = d, !.site = site]
  OBVIOUS
<1>3. call \in EditRows
  BY <1>2 DEF NoEdit, EditRows
<1>4. call.step = "site" /\ call.id = d /\ call.site = site
  BY <1>2 DEF NoEdit
<1>5. BeginsWith(a, call)
  BY <1>1, <1>2
<1>6. QED
  BY <1>3, <1>4, <1>5, EditBegins

(* The other defaults of a type are cleared (clearDefaultTemplate).        *)
LEMMA ClearKeeps ==
  ASSUME NEW a \in Editors, CatalogueInv, ClearDefaults(a)
  PROVE  CatalogueInv'
<1>1. /\ domain' = domain /\ chosen' = chosen /\ offered' = offered /\ tangled' = tangled
      /\ edit[a].step = "clear" /\ edit' = [edit EXCEPT ![a].step = "save"]
      /\ template' = Cleared(edit[a].row.type, edit[a].id)
  BY DEF ClearDefaults
<1>2. PICK id, row : id = edit[a].id /\ row = edit[a].row
  OBVIOUS
<1>3. id \in Templates /\ row \in TemplateRows /\ row.isDefault /\ row.type \in Types
  BY <1>1, <1>2, RowsTyped DEF CatalogueInv, EditFits
<1>4. /\ edit \in [Editors -> EditRows]
      /\ template \in [Templates -> TemplateRows \cup {NoTemplateRow}]
  BY DEF CatalogueInv
<1>5. edit' \in [Editors -> EditRows]
  BY <1>1, <1>4 DEF EditRows
<1>6. /\ edit'[a].step = "save" /\ edit'[a].id = id /\ edit'[a].row = row
      /\ edit'[a].alone = edit[a].alone
  BY <1>1, <1>2, <1>4 DEF EditRows
<1>7. \A b \in Editors : b # a => edit'[b] = edit[b]
  BY <1>1, <1>4
<1>8. template' = [t \in Templates |->
                     IF template[t].type = row.type /\ t # id
                     THEN [template[t] EXCEPT !.isDefault = FALSE] ELSE template[t]]
  BY <1>1, <1>2 DEF Cleared
<1>9. template' \in [Templates -> TemplateRows \cup {NoTemplateRow}]
  <2>1. ASSUME NEW r \in TemplateRows \cup {NoTemplateRow}
        PROVE  [r EXCEPT !.isDefault = FALSE] \in TemplateRows \cup {NoTemplateRow}
    <3>1. CASE r \in TemplateRows
      BY <3>1 DEF TemplateRows
    <3>2. CASE r = NoTemplateRow
      <4>1. r \in [stored : {FALSE}, type : {"none"}, isDefault : {FALSE}, payload : {"apps"}]
        BY <3>2 DEF NoTemplateRow
      <4>2. [r EXCEPT !.isDefault = FALSE] = r
        BY <4>1
      <4>3. QED
        BY <3>2, <4>2
    <3>3. QED
      BY <3>1, <3>2
  <2>2. \A t \in Templates : template[t] \in TemplateRows \cup {NoTemplateRow}
    BY <1>4
  <2>3. QED
    BY <1>8, <2>1, <2>2
<1>10. ASSUME NEW t \in Templates
       PROVE  /\ template'[t].type = template[t].type
              /\ IsDefaultOf(t, row.type)' => t = id
              /\ \A type : type # row.type => (IsDefaultOf(t, type)' <=> IsDefaultOf(t, type))
  BY <1>4, <1>8 DEF IsDefaultOf, TemplateRows, NoTemplateRow
<1>11. ASSUME NEW b \in Editors PROVE EditFits(b)'
  <2>1. CASE b = a
    BY <1>3, <1>6, <2>1 DEF EditFits
  <2>2. CASE b # a
    BY <1>7, <2>2 DEF EditFits, CatalogueInv
  <2>3. QED
    BY <2>1, <2>2
<1>12. ASSUME NEW b \in Editors PROVE AloneFits(b)'
  <2>1. AloneFits(b)
    BY DEF CatalogueInv
  <2>2. \A c \in Editors : edit'[c].step = "none" <=> edit[c].step = "none"
    BY <1>1, <1>6, <1>7
  <2>3. edit'[b].alone = edit[b].alone
    BY <1>6, <1>7
  <2>4. QED
    BY <2>1, <2>2, <2>3 DEF AloneFits
<1>13. ASSUME NEW b \in Editors PROVE ClearedFirst(b)'
  <2>1. CASE b = a
    BY <1>6, <1>10, <2>1 DEF ClearedFirst, SavesDefault
  <2>2. CASE b # a
    BY <1>1, <1>7, <2>2 DEF ClearedFirst, SavesDefault, CatalogueInv, AloneFits
  <2>3. QED
    BY <2>1, <2>2
<1>14. ASSUME NEW type \in Types PROVE DefaultFits(type)'
  <2>1. CASE type = row.type
    BY <1>3, <1>6, <2>1 DEF DefaultFits, SavesDefault
  <2>2. CASE type # row.type
    <3>1. DefaultFits(type)
      BY DEF CatalogueInv
    <3>2. ASSUME NEW b \in Editors, SavesDefault(b, type) PROVE SavesDefault(b, type)'
      BY <1>1, <1>7, <3>2 DEF SavesDefault
    <3>3. QED
      BY <1>1, <1>10, <2>2, <3>1, <3>2 DEF DefaultFits
  <2>3. QED
    BY <2>1, <2>2
<1>15. SitesFit'
  BY <1>1 DEF SitesFit, CatalogueInv
<1>16. QED
  BY <1>1, <1>5, <1>9, <1>11, <1>12, <1>13, <1>14, <1>15 DEF CatalogueInv

(* An edit ends, saved or not, and its editor is free again.               *)
LEMMA EditEnds ==
  ASSUME NEW a \in Editors, CatalogueInv, edit' = [edit EXCEPT ![a] = NoEdit]
  PROVE  /\ edit' \in [Editors -> EditRows]
         /\ edit'[a].step = "none"
         /\ \A b \in Editors : b # a => edit'[b] = edit[b]
         /\ \A b \in Editors : EditFits(b)' /\ AloneFits(b)'
         /\ \A type : \A b \in Editors : SavesDefault(b, type)' <=> b # a /\ SavesDefault(b, type)
<1>1. edit \in [Editors -> EditRows]
  BY DEF CatalogueInv
<1>2. edit' \in [Editors -> EditRows] /\ edit'[a] = NoEdit
  BY <1>1, RowsTyped
<1>3. \A b \in Editors : b # a => edit'[b] = edit[b]
  BY <1>1
<1>4. edit'[a].step = "none"
  BY <1>2, RowsTyped
<1>5. ASSUME NEW b \in Editors PROVE EditFits(b)'
  BY <1>3, <1>4 DEF EditFits, CatalogueInv
<1>6. ASSUME NEW b \in Editors PROVE AloneFits(b)'
  BY <1>3, <1>4 DEF AloneFits, CatalogueInv
<1>7. \A type : \A b \in Editors : SavesDefault(b, type)' <=> b # a /\ SavesDefault(b, type)
  BY <1>3, <1>4 DEF SavesDefault
<1>8. QED
  BY <1>2, <1>3, <1>4, <1>5, <1>6, <1>7

(* An edit breaks off, before or after its clear.                          *)
LEMMA BreakOffKeeps ==
  ASSUME NEW a \in Editors, CatalogueInv, BreakOff(a)
  PROVE  CatalogueInv'
<1>1. /\ domain' = domain /\ chosen' = chosen /\ offered' = offered /\ template' = template
      /\ edit' = [edit EXCEPT ![a] = NoEdit] /\ edit[a].step \in {"clear", "save"}
      /\ tangled' = IF edit[a].step = "save" /\ edit[a].row.isDefault
                    THEN tangled \cup Concerned(a) ELSE tangled
  BY DEF BreakOff
<1>2. /\ edit' \in [Editors -> EditRows]
      /\ \A b \in Editors : b # a => edit'[b] = edit[b]
      /\ \A b \in Editors : EditFits(b)' /\ AloneFits(b)'
      /\ \A type : \A b \in Editors : SavesDefault(b, type)' <=> b # a /\ SavesDefault(b, type)
  BY <1>1, EditEnds
<1>3. ASSUME NEW b \in Editors PROVE ClearedFirst(b)'
  BY <1>1, <1>2 DEF ClearedFirst, IsDefaultOf, CatalogueInv
<1>4. ASSUME NEW type \in Types PROVE DefaultFits(type)'
  <2>1. DefaultFits(type) /\ tangled \subseteq tangled'
    BY <1>1 DEF CatalogueInv
  <2>2. SavesDefault(a, type) => type \in tangled'
    BY <1>1 DEF SavesDefault, Concerned
  <2>3. QED
    BY <1>1, <1>2, <2>1, <2>2 DEF DefaultFits, IsDefaultOf
<1>5. SitesFit'
  BY <1>1 DEF SitesFit, CatalogueInv
<1>6. QED
  BY <1>1, <1>2, <1>3, <1>4, <1>5 DEF CatalogueInv

(* A template is saved: alone, or its types are tangled from now on.       *)
LEMMA SaveKeeps ==
  ASSUME NEW a \in Editors, CatalogueInv, SaveTemplate(a)
  PROVE  CatalogueInv'
<1>1. /\ domain' = domain /\ offered' = offered /\ edit[a].step = "save"
      /\ edit' = [edit EXCEPT ![a] = NoEdit]
      /\ template' = [template EXCEPT ![edit[a].id] = edit[a].row]
      /\ chosen' = ChosenAfter(a)
      /\ tangled' = IF edit[a].alone
                    THEN IF edit[a].row.isDefault THEN tangled \ {edit[a].row.type} ELSE tangled
                    ELSE tangled \cup Concerned(a)
  BY DEF SaveTemplate
<1>2. PICK id, row : id = edit[a].id /\ row = edit[a].row
  OBVIOUS
<1>3. id \in Templates /\ row \in TemplateRows /\ row.type \in Types /\ id # NoTemplate
  BY <1>1, <1>2, RowsTyped, CatalogueAssumption DEF CatalogueInv, EditFits
<1>4. template \in [Templates -> TemplateRows \cup {NoTemplateRow}]
  BY DEF CatalogueInv
<1>5. /\ template' = [template EXCEPT ![id] = row]
      /\ template' \in [Templates -> TemplateRows \cup {NoTemplateRow}]
      /\ template'[id] = row
      /\ \A t \in Templates : t # id => template'[t] = template[t]
  BY <1>1, <1>2, <1>3, <1>4
<1>6. /\ edit' \in [Editors -> EditRows]
      /\ \A b \in Editors : b # a => edit'[b] = edit[b]
      /\ \A b \in Editors : EditFits(b)' /\ AloneFits(b)'
      /\ \A type : \A b \in Editors : SavesDefault(b, type)' <=> b # a /\ SavesDefault(b, type)
  BY <1>1, EditEnds
<1>7. ASSUME NEW type \in Types
      PROVE  chosen'[type] = IF row.isDefault /\ row.type = type THEN id
                             ELSE IF chosen[type] = id THEN NoTemplate ELSE chosen[type]
  BY <1>1, <1>2 DEF ChosenAfter
<1>8. chosen' \in [Types -> Templates \cup {NoTemplate}]
  BY <1>1, <1>2, <1>3 DEF ChosenAfter, CatalogueInv
<1>9. ASSUME NEW b \in Editors PROVE ClearedFirst(b)'
  <2>1. SUFFICES ASSUME NEW type \in Types, SavesDefault(b, type)', edit'[b].alone PROVE FALSE
    BY DEF ClearedFirst
  <2>2. b # a /\ edit[b].alone /\ edit[b].step = "save"
    BY <1>6, <2>1 DEF SavesDefault
  <2>3. QED
    BY <1>1, <2>2 DEF CatalogueInv, AloneFits
<1>10. ASSUME NEW type \in Types PROVE DefaultFits(type)'
  <2>1. DefaultFits(type)
    BY DEF CatalogueInv
  <2>2. /\ IsDefaultOf(id, type)' <=> row.type = type /\ row.isDefault
        /\ \A t \in Templates : t # id => (IsDefaultOf(t, type)' <=> IsDefaultOf(t, type))
    BY <1>5 DEF IsDefaultOf
  <2>3. CASE edit[a].alone /\ SavesDefault(a, type)
    <3>1. row.type = type /\ row.isDefault
      BY <1>2, <2>3 DEF SavesDefault
    <3>2. \A t \in Templates : IsDefaultOf(t, type) => t = id
      BY <1>2, <2>3 DEF CatalogueInv, ClearedFirst
    <3>3. chosen'[type] = id
      BY <1>7, <3>1
    <3>4. QED
      BY <2>2, <3>1, <3>2, <3>3 DEF DefaultFits
  <2>4. CASE edit[a].alone /\ ~SavesDefault(a, type)
    <3>1. ~(row.type = type /\ row.isDefault)
      BY <1>1, <1>2, <2>4 DEF SavesDefault
    <3>2. \A b \in Editors : ~SavesDefault(b, type)
      BY <1>1, <2>4 DEF CatalogueInv, AloneFits, SavesDefault
    <3>3. type \in tangled => type \in tangled'
      BY <1>1, <1>2, <2>4, <3>1
    <3>4. chosen'[type] = IF chosen[type] = id THEN NoTemplate ELSE chosen[type]
      BY <1>7, <3>1
    <3>5. CASE type \in tangled
      BY <3>3, <3>5 DEF DefaultFits
    <3>6. CASE type \notin tangled
      <4>1. \A t \in Templates : IsDefaultOf(t, type) <=> chosen[type] = t
        BY <2>1, <3>2, <3>6 DEF DefaultFits
      <4>2. \A t \in Templates : IsDefaultOf(t, type)' <=> chosen'[type] = t
        BY <1>3, <2>2, <3>1, <3>4, <4>1, CatalogueAssumption
      <4>3. QED
        BY <4>2 DEF DefaultFits
    <3>7. QED
      BY <3>5, <3>6
  <2>5. CASE ~edit[a].alone
    <3>1. tangled' = tangled \cup Concerned(a)
      BY <1>1, <2>5
    <3>2. CASE type \in tangled'
      BY <3>2 DEF DefaultFits
    <3>3. CASE type \notin tangled'
      <4>1. type \notin tangled /\ template[id].type # type /\ row.type # type
        BY <1>2, <3>1, <3>3 DEF Concerned
      <4>2. \A t \in Templates : IsDefaultOf(t, type)' <=> IsDefaultOf(t, type)
        BY <2>2, <4>1 DEF IsDefaultOf
      <4>3. ~IsDefaultOf(id, type)
        BY <4>1 DEF IsDefaultOf
      <4>4. chosen'[type] = IF chosen[type] = id THEN NoTemplate ELSE chosen[type]
        BY <1>7, <4>1
      <4>5. ~SavesDefault(a, type)
        BY <1>2, <4>1 DEF SavesDefault
      <4>6. CASE \E b \in Editors : SavesDefault(b, type)
        BY <1>6, <4>5, <4>6 DEF DefaultFits
      <4>7. CASE \A t \in Templates : IsDefaultOf(t, type) <=> chosen[type] = t
        <5>1. chosen'[type] = chosen[type]
          BY <1>3, <4>3, <4>4, <4>7
        <5>2. QED
          BY <4>2, <4>7, <5>1 DEF DefaultFits
      <4>8. QED
        BY <2>1, <4>1, <4>6, <4>7 DEF DefaultFits
    <3>4. QED
      BY <3>2, <3>3
  <2>6. QED
    BY <2>3, <2>4, <2>5
<1>11. SitesFit'
  BY <1>1 DEF SitesFit, CatalogueInv
<1>12. QED
  BY <1>1, <1>5, <1>6, <1>8, <1>9, <1>10, <1>11 DEF CatalogueInv

(* A template is deleted under the edits that are open                     *)
(* (deletePolicyTemplate).                                                 *)
LEMMA DeleteTemplateKeeps ==
  ASSUME NEW t \in Templates, CatalogueInv, DeletePolicyTemplate(t)
  PROVE  CatalogueInv'
<1>1. /\ domain' = domain /\ offered' = offered
      /\ template' = [template EXCEPT ![t] = NoTemplateRow]
      /\ chosen' = [type \in Types |-> IF chosen[type] = t THEN NoTemplate ELSE chosen[type]]
      /\ tangled \subseteq tangled'
      /\ edit' = [a \in Editors |-> [edit[a] EXCEPT !.alone = FALSE]]
  BY DEF DeletePolicyTemplate
<1>2. /\ edit \in [Editors -> EditRows] /\ t # NoTemplate
      /\ template \in [Templates -> TemplateRows \cup {NoTemplateRow}]
      /\ chosen \in [Types -> Templates \cup {NoTemplate}]
  BY CatalogueAssumption DEF CatalogueInv
<1>3. edit' \in [Editors -> EditRows]
  BY <1>1, <1>2 DEF EditRows
<1>4. ASSUME NEW a \in Editors
      PROVE  /\ edit'[a].step = edit[a].step /\ edit'[a].id = edit[a].id
             /\ edit'[a].row = edit[a].row /\ edit'[a].site = edit[a].site /\ ~edit'[a].alone
  BY <1>1, <1>2 DEF EditRows
<1>5. /\ template' \in [Templates -> TemplateRows \cup {NoTemplateRow}]
      /\ template'[t] = NoTemplateRow
      /\ \A u \in Templates : u # t => template'[u] = template[u]
  BY <1>1, <1>2
<1>6. chosen' \in [Types -> Templates \cup {NoTemplate}]
  BY <1>1, <1>2
<1>7. \A a \in Editors : EditFits(a)' /\ AloneFits(a)' /\ ClearedFirst(a)'
  BY <1>4 DEF EditFits, AloneFits, ClearedFirst, CatalogueInv
<1>8. ASSUME NEW type \in Types PROVE DefaultFits(type)'
  <2>1. DefaultFits(type)
    BY DEF CatalogueInv
  <2>2. \A a \in Editors : SavesDefault(a, type) => SavesDefault(a, type)'
    BY <1>4 DEF SavesDefault
  <2>3. /\ ~IsDefaultOf(t, type)'
        /\ \A u \in Templates : u # t => (IsDefaultOf(u, type)' <=> IsDefaultOf(u, type))
    BY <1>5, RowsTyped DEF IsDefaultOf
  <2>4. chosen'[type] = IF chosen[type] = t THEN NoTemplate ELSE chosen[type]
    BY <1>1
  <2>5. CASE type \in tangled \/ \E a \in Editors : SavesDefault(a, type)
    BY <1>1, <2>2, <2>5 DEF DefaultFits
  <2>6. CASE \A u \in Templates : IsDefaultOf(u, type) <=> chosen[type] = u
    <3>1. \A u \in Templates : IsDefaultOf(u, type)' <=> chosen'[type] = u
      BY <2>3, <2>4, <2>6, CatalogueAssumption
    <3>2. QED
      BY <3>1 DEF DefaultFits
  <2>7. QED
    BY <2>1, <2>5, <2>6 DEF DefaultFits
<1>9. SitesFit'
  BY <1>1 DEF SitesFit, CatalogueInv
<1>10. QED
  BY <1>1, <1>3, <1>5, <1>6, <1>7, <1>8, <1>9 DEF CatalogueInv

(* What happens to domains leaves the templates as they were.              *)
LEMMA TemplatesKept ==
  ASSUME NEW a \in Editors, CatalogueInv, UNCHANGED <<template, chosen>>,
         tangled \subseteq tangled',
         edit[a].step = "site", edit' = [edit EXCEPT ![a] = NoEdit]
  PROVE  /\ edit' \in [Editors -> EditRows]
         /\ \A b \in Editors : EditFits(b)' /\ AloneFits(b)' /\ ClearedFirst(b)'
         /\ \A type \in Types : DefaultFits(type)'
<1>1. /\ edit' \in [Editors -> EditRows]
      /\ \A b \in Editors : b # a => edit'[b] = edit[b]
      /\ \A b \in Editors : EditFits(b)' /\ AloneFits(b)'
      /\ \A type : \A b \in Editors : SavesDefault(b, type)' <=> b # a /\ SavesDefault(b, type)
  BY EditEnds
<1>2. ASSUME NEW b \in Editors PROVE ClearedFirst(b)'
  BY <1>1 DEF ClearedFirst, IsDefaultOf, CatalogueInv
<1>3. ASSUME NEW type \in Types PROVE DefaultFits(type)'
  <2>1. DefaultFits(type) /\ ~SavesDefault(a, type)
    BY DEF CatalogueInv, SavesDefault
  <2>2. QED
    BY <1>1, <2>1 DEF DefaultFits, IsDefaultOf
<1>4. QED
  BY <1>1, <1>2, <1>3

(* A domain is saved unless its url was taken meanwhile.                   *)
LEMMA SaveDomainKeeps ==
  ASSUME NEW a \in Editors, CatalogueInv, SaveDomain(a)
  PROVE  CatalogueInv'
<1>1. PICK d, site : d = edit[a].id /\ site = edit[a].site
  OBVIOUS
<1>2. /\ edit[a].step = "site" /\ edit' = [edit EXCEPT ![a] = NoEdit]
      /\ template' = template /\ chosen' = chosen /\ tangled \subseteq tangled'
      /\ \/ /\ UrlFree(d, site.url) /\ domain' = [domain EXCEPT ![d] = site]
            /\ offered' = IF site.isActive THEN offered \cup {d} ELSE offered \ {d}
         \/ domain' = domain /\ offered' = offered
  BY <1>1 DEF SaveDomain
<1>3. d \in Domains /\ site \in DomainRows
  BY <1>1, <1>2 DEF CatalogueInv, EditFits
<1>4. domain \in [Domains -> DomainRows \cup {NoDomain}] /\ SitesFit
  BY DEF CatalogueInv
<1>5. /\ edit' \in [Editors -> EditRows]
      /\ \A b \in Editors : EditFits(b)' /\ AloneFits(b)' /\ ClearedFirst(b)'
      /\ \A type \in Types : DefaultFits(type)'
  BY <1>2, TemplatesKept
<1>6. domain' \in [Domains -> DomainRows \cup {NoDomain}] /\ SitesFit'
  <2>1. CASE /\ UrlFree(d, site.url) /\ domain' = [domain EXCEPT ![d] = site]
             /\ offered' = IF site.isActive THEN offered \cup {d} ELSE offered \ {d}
    <3>1. /\ domain' \in [Domains -> DomainRows \cup {NoDomain}] /\ domain'[d] = site
          /\ \A e \in Domains : e # d => domain'[e] = domain[e]
      BY <1>3, <1>4, <2>1
    <3>2. \A e \in Domains : domain'[e].isActive <=> e \in offered'
      <4>1. \A e \in Domains : e # d => (e \in offered' <=> e \in offered)
        BY <2>1
      <4>2. d \in offered' <=> site.isActive
        BY <2>1
      <4>3. QED
        BY <1>4, <3>1, <4>1, <4>2 DEF SitesFit
    <3>3. ASSUME NEW e \in Domains, NEW f \in Domains, e # f,
                 domain'[e].stored, domain'[f].stored
          PROVE  domain'[e].url # domain'[f].url
      <4>1. \A g \in Domains : g # d => domain'[g].url # site.url
        BY <2>1, <3>1 DEF UrlFree
      <4>2. CASE e = d \/ f = d
        BY <3>1, <3>3, <4>1, <4>2
      <4>3. CASE e # d /\ f # d
        BY <1>4, <3>1, <3>3, <4>3 DEF SitesFit
      <4>4. QED
        BY <4>2, <4>3
    <3>4. QED
      BY <3>1, <3>2, <3>3 DEF SitesFit
  <2>2. CASE domain' = domain /\ offered' = offered
    BY <1>4, <2>2 DEF SitesFit
  <2>3. QED
    BY <1>2, <2>1, <2>2
<1>7. QED
  BY <1>2, <1>5, <1>6 DEF CatalogueInv

(* A domain is deleted (deleteDomainEndpoint).                             *)
LEMMA DeleteDomainKeeps ==
  ASSUME NEW d \in Domains, CatalogueInv, DeleteDomainEndpoint(d)
  PROVE  CatalogueInv'
<1>1. /\ template' = template /\ chosen' = chosen /\ tangled \subseteq tangled'
      /\ domain' = [domain EXCEPT ![d] = NoDomain] /\ offered' = offered \ {d}
      /\ edit' = [a \in Editors |-> [edit[a] EXCEPT !.alone = FALSE]]
  BY DEF DeleteDomainEndpoint
<1>2. /\ edit \in [Editors -> EditRows] /\ SitesFit
      /\ domain \in [Domains -> DomainRows \cup {NoDomain}]
  BY DEF CatalogueInv
<1>3. edit' \in [Editors -> EditRows]
  BY <1>1, <1>2 DEF EditRows
<1>4. ASSUME NEW a \in Editors
      PROVE  /\ edit'[a].step = edit[a].step /\ edit'[a].id = edit[a].id
             /\ edit'[a].row = edit[a].row /\ edit'[a].site = edit[a].site /\ ~edit'[a].alone
  BY <1>1, <1>2 DEF EditRows
<1>5. \A a \in Editors : EditFits(a)' /\ AloneFits(a)' /\ ClearedFirst(a)'
  BY <1>4 DEF EditFits, AloneFits, ClearedFirst, CatalogueInv
<1>6. ASSUME NEW type \in Types PROVE DefaultFits(type)'
  <2>1. DefaultFits(type)
    BY DEF CatalogueInv
  <2>2. \A a \in Editors : SavesDefault(a, type) => SavesDefault(a, type)'
    BY <1>4 DEF SavesDefault
  <2>3. QED
    BY <1>1, <2>1, <2>2 DEF DefaultFits, IsDefaultOf
<1>7. /\ domain' \in [Domains -> DomainRows \cup {NoDomain}] /\ domain'[d] = NoDomain
      /\ \A e \in Domains : e # d => domain'[e] = domain[e]
  BY <1>1, <1>2
<1>8. SitesFit'
  BY <1>1, <1>2, <1>7, RowsTyped DEF SitesFit
<1>9. QED
  BY <1>1, <1>3, <1>5, <1>6, <1>7, <1>8 DEF CatalogueInv

(* The invariant of the catalogue, step by step.                           *)
LEMMA CatalogueStep == CatalogueInv /\ [CatalogueNext]_catalogueVars => CatalogueInv'
<1>1. SUFFICES ASSUME CatalogueInv, [CatalogueNext]_catalogueVars PROVE CatalogueInv'
  OBVIOUS
<1>2. ASSUME NEW a \in Editors, NEW t \in Templates, CreateTemplate(a, t) \/ UpdateTemplate(a, t)
      PROVE  CatalogueInv'
  BY <1>1, <1>2, TemplateEditBegins
<1>3. ASSUME NEW a \in Editors, ClearDefaults(a) PROVE CatalogueInv'
  BY <1>1, <1>3, ClearKeeps
<1>4. ASSUME NEW a \in Editors, SaveTemplate(a) PROVE CatalogueInv'
  BY <1>1, <1>4, SaveKeeps
<1>5. ASSUME NEW a \in Editors, BreakOff(a) PROVE CatalogueInv'
  BY <1>1, <1>5, BreakOffKeeps
<1>6. ASSUME NEW a \in Editors, NEW d \in Domains,
             CreateDomainEndpoint(a, d) \/ UpdateDomainEndpoint(a, d)
      PROVE  CatalogueInv'
  BY <1>1, <1>6, SiteEditBegins
<1>7. ASSUME NEW a \in Editors, SaveDomain(a) PROVE CatalogueInv'
  BY <1>1, <1>7, SaveDomainKeeps
<1>8. ASSUME NEW t \in Templates, DeletePolicyTemplate(t) PROVE CatalogueInv'
  BY <1>1, <1>8, DeleteTemplateKeeps
<1>9. ASSUME NEW d \in Domains, DeleteDomainEndpoint(d) PROVE CatalogueInv'
  BY <1>1, <1>9, DeleteDomainKeeps
<1>10. CASE UNCHANGED catalogueVars
  BY <1>1, <1>10 DEF catalogueVars, CatalogueInv, EditFits, AloneFits, ClearedFirst,
     DefaultFits,
                     SavesDefault, IsDefaultOf, SitesFit
<1>11. QED
  BY <1>1, <1>2, <1>3, <1>4, <1>5, <1>6, <1>7, <1>8, <1>9, <1>10 DEF CatalogueNext

(* What the configs carry follows from it.                                 *)
LEMMA CatalogueFollows == CatalogueInv => ConfigsCarryChoice
<1>1. SUFFICES ASSUME CatalogueInv PROVE ConfigsCarryChoice
  OBVIOUS
<1>2. ASSUME NEW type \in Types, type \notin tangled,
             ~ \E a \in Editors : edit[a].step = "save" /\ edit[a].row.isDefault
                                    /\ edit[a].row.type = type
      PROVE  ClientPolicies(type) =
               IF chosen[type] = NoTemplate THEN {"built-in"}
               ELSE {NormalizedPolicy(type, template[chosen[type]].payload)}
  <2>1. \A t \in Templates : IsDefaultOf(t, type) <=> chosen[type] = t
    BY <1>1, <1>2 DEF CatalogueInv, DefaultFits, SavesDefault
  <2>2. chosen[type] \in Templates \cup {NoTemplate}
    BY <1>1 DEF CatalogueInv
  <2>3. PICK defaults :
          defaults = {t \in Templates : template[t].type = type /\ template[t].isDefault}
    OBVIOUS
  <2>4. \A t : t \in defaults <=> t \in Templates /\ chosen[type] = t
    BY <2>1, <2>3 DEF IsDefaultOf
  <2>5. ClientPolicies(type) =
          IF defaults = {} THEN {"built-in"}
          ELSE {NormalizedPolicy(type, template[t].payload) : t \in defaults}
    BY <2>3 DEF ClientPolicies
  <2>6. CASE chosen[type] = NoTemplate
    <3>1. defaults = {}
      BY <2>4, <2>6, CatalogueAssumption
    <3>2. QED
      BY <2>5, <2>6, <3>1
  <2>7. CASE chosen[type] # NoTemplate
    <3>1. defaults = {chosen[type]}
      BY <2>2, <2>4, <2>7
    <3>2. {NormalizedPolicy(type, template[t].payload) : t \in defaults}
            = {NormalizedPolicy(type, template[chosen[type]].payload)}
      BY <3>1
    <3>3. QED
      BY <2>5, <2>7, <3>1, <3>2
  <2>8. QED
    BY <2>6, <2>7
<1>3. \A d \in Domains \ tangled : d \in DomainBundle <=> d \in offered
  BY <1>1 DEF CatalogueInv, SitesFit, DomainBundle
<1>4. \A d, e \in DomainBundle : d # e => domain[d].url # domain[e].url
  <2>1. \A d \in Domains : domain[d].isActive => domain[d].stored
    BY <1>1, RowsTyped DEF CatalogueInv
  <2>2. QED
    BY <1>1, <2>1 DEF CatalogueInv, SitesFit, DomainBundle
<1>5. QED
  BY <1>2, <1>3, <1>4 DEF ConfigsCarryChoice

(* Whatever edits overlap and wherever they break off, the configs carry   *)
(* what was chosen last, but for the types those edits concern             *)
(* (configurator.service.ts: clearDefaultTemplate, buildDomainBundle).     *)
THEOREM ConfigsFollowTheCatalogue == CatalogueSpec => []ConfigsCarryChoice
<1>1. QED
  BY CatalogueStarts, CatalogueStep, CatalogueFollows, PTL DEF CatalogueSpec

(* The edits begun are bounded; what is offered are domains, and edits     *)
(* overlap on types and domains only.                                      *)
CatalogueCounts ==
  /\ edits \in 0 .. MaxEdits
  /\ offered \subseteq Domains
  /\ tangled \subseteq Types \cup Domains

(* The histories of the catalogue stay about its types and domains,        *)
(* whatever rows an edit has read (configurator.service.ts).               *)
LEMMA CatalogueCounted ==
  CatalogueInv /\ CatalogueCounts /\ [CatalogueNext]_catalogueVars => CatalogueCounts'
<1>. SUFFICES ASSUME CatalogueInv, CatalogueCounts, [CatalogueNext]_catalogueVars
              PROVE  CatalogueCounts'
  OBVIOUS
<1>1. /\ edits \in Nat /\ edits <= MaxEdits /\ MaxEdits \in Nat
      /\ offered \subseteq Domains /\ tangled \subseteq Types \cup Domains
  BY CatalogueAssumption DEF CatalogueCounts
<1>2. BeginsEdit => edits' \in 0 .. MaxEdits
  BY <1>1 DEF BeginsEdit
<1>3. ASSUME NEW a \in Editors, NEW t \in Templates, CreateTemplate(a, t) \/ UpdateTemplate(a, t)
      PROVE  CatalogueCounts'
  <2>1. BeginsEdit /\ UNCHANGED <<offered, tangled>>
    BY <1>3 DEF CreateTemplate, UpdateTemplate
  <2>2. QED
    BY <1>1, <1>2, <2>1 DEF CatalogueCounts
<1>4. ASSUME NEW a \in Editors, NEW d \in Domains,
             CreateDomainEndpoint(a, d) \/ UpdateDomainEndpoint(a, d)
      PROVE  CatalogueCounts'
  <2>1. BeginsEdit /\ UNCHANGED <<offered, tangled>>
    BY <1>4 DEF CreateDomainEndpoint, UpdateDomainEndpoint
  <2>2. QED
    BY <1>1, <1>2, <2>1 DEF CatalogueCounts
<1>5. ASSUME NEW a \in Editors, ClearDefaults(a) PROVE CatalogueCounts'
  BY <1>5 DEF ClearDefaults, CatalogueCounts
<1>6. ASSUME NEW a \in Editors, SaveTemplate(a) PROVE CatalogueCounts'
  <2>1. edits' = edits /\ offered' = offered /\ tangled' \subseteq tangled \cup Concerned(a)
    BY <1>6 DEF SaveTemplate
  <2>2. Concerned(a) \subseteq Types
    BY DEF Concerned
  <2>3. QED
    BY <2>1, <2>2 DEF CatalogueCounts
<1>7. ASSUME NEW a \in Editors, BreakOff(a) PROVE CatalogueCounts'
  <2>1. edits' = edits /\ offered' = offered /\ tangled' \subseteq tangled \cup Concerned(a)
    BY <1>7 DEF BreakOff
  <2>2. Concerned(a) \subseteq Types
    BY DEF Concerned
  <2>3. QED
    BY <2>1, <2>2 DEF CatalogueCounts
<1>8. ASSUME NEW a \in Editors, SaveDomain(a) PROVE CatalogueCounts'
  <2>1. edit[a].id \in Domains
    BY <1>8 DEF SaveDomain, CatalogueInv, EditFits
  <2>2. /\ edits' = edits /\ offered' \subseteq offered \cup {edit[a].id}
        /\ tangled' \subseteq tangled \cup {edit[a].id}
    BY <1>8 DEF SaveDomain
  <2>3. QED
    BY <2>1, <2>2 DEF CatalogueCounts
<1>9. ASSUME NEW t \in Templates, DeletePolicyTemplate(t) PROVE CatalogueCounts'
  <2>1. template[t] \in TemplateRows
    BY <1>9 DEF DeletePolicyTemplate, CatalogueInv, NoTemplateRow
  <2>2. template[t].type \in Types
    BY <2>1, RowsTyped
  <2>3. BeginsEdit /\ offered' = offered /\ tangled' \subseteq tangled \cup {template[t].type}
    BY <1>9 DEF DeletePolicyTemplate
  <2>4. QED
    BY <1>1, <1>2, <2>2, <2>3 DEF CatalogueCounts
<1>10. ASSUME NEW d \in Domains, DeleteDomainEndpoint(d) PROVE CatalogueCounts'
  <2>1. BeginsEdit /\ offered' \subseteq offered /\ tangled' \subseteq tangled \cup {d}
    BY <1>10 DEF DeleteDomainEndpoint
  <2>2. QED
    BY <1>1, <1>2, <2>1 DEF CatalogueCounts
<1>11. CASE UNCHANGED catalogueVars
  BY <1>11 DEF catalogueVars, CatalogueCounts
<1>12. QED
  BY <1>3, <1>4, <1>5, <1>6, <1>7, <1>8, <1>9, <1>10, <1>11 DEF CatalogueNext

(* The rows, the edits and the histories of the catalogue keep their       *)
(* types: no edit saves what is no row (configurator.service.ts).          *)
THEOREM CatalogueTypeCorrect == CatalogueSpec => []CatalogueTypeOK
<1>1. CatalogueInit => CatalogueCounts
  BY CatalogueAssumption DEF CatalogueInit, CatalogueCounts
<1>2. CatalogueInv /\ CatalogueCounts => CatalogueTypeOK
  BY DEF CatalogueInv, CatalogueCounts, CatalogueTypeOK, EditRows
<1>3. QED
  BY <1>1, <1>2, CatalogueStarts, CatalogueStep, CatalogueCounted, PTL DEF CatalogueSpec
-----------------------------------------------------------------------------
(* The rows of device_configs.                                             *)

AnyRow ==
  {NoDeviceRow} \cup
  {[device |-> who.device, install |-> who.install, status |-> status] :
     who \in Identities \cup {NoRowCall.who}, status \in ConfigStatus}

RowSteps ==
  {"none", "reading", "finding", "creating", "serving", "closing", "listing", "next", "paying",
   "service", "saving service", "pushing"}
RowKinds == {"none", "activate", "revoke", "end", "delete", "pay", "regenerate"}

News == [device : DeviceIds, ready : BOOLEAN]
RowCallRecords ==
  [step : RowSteps, kind : RowKinds,
   who : [device : DeviceIds \cup {NoId}, install : Installs \cup {NoId}],
   st : ServiceStatus, row : RowIds \cup {NoId}, as : AnyRow, list : [RowIds -> AnyRow],
   todo : SUBSET RowIds, news : SUBSET News,
   crossed : SUBSET DeviceIds]

(* The steps a call takes.                                                 *)
StepsFit(c) ==
  \/ c.kind = "none" /\ c.step = "none"
  \/ c.kind = "activate"
     /\ c.step \in {"reading", "finding", "creating", "serving", "pushing"}
  \/ c.kind = "revoke" /\ c.step \in {"finding", "closing", "pushing"}
  \/ c.kind = "end" /\ c.step \in {"listing", "next", "saving service"}
  \/ c.kind = "delete" /\ c.step \in {"listing", "next", "service", "saving service"}
  \/ c.kind = "pay" /\ c.step \in {"paying", "service", "saving service"}
  \/ c.kind = "regenerate"
     /\ c.step \in {"service", "saving service", "listing", "next", "reading", "finding",
                    "serving"}

Known(who) ==
  \E i \in Identities : who.device = i.device /\ who.install = i.install

RowOfDevice(r, d) == HasRow(r) /\ configRow[r].device = d

(* A call knows whom it is about; its row, those it has listed and the     *)
(* service's are of the device they were read for; and a regeneration has  *)
(* only devices with a row to find.                                        *)
CallFits(c) ==
  /\ c \in RowCallRecords /\ StepsFit(c)
  /\ c.step \in {"reading", "finding", "creating", "serving", "closing", "pushing"} =>
       Known(c.who)
  /\ c.step \in {"serving", "closing"} => c.row \in RowIds /\ RowOfDevice(c.row, c.who.device)
  /\ c.step = "closing" => c.as.device = c.who.device
  /\ \A r \in c.todo : c.list[r] # NoDeviceRow /\ RowOfDevice(r, c.list[r].device)
  /\ c.kind = "regenerate" =>
       /\ \A r \in c.todo : c.list[r].device # NoId
       /\ c.step \in {"reading", "finding"} => RowsOf(c.who.device) # {}
       /\ c.step \in {"service", "saving service", "listing"} => c.todo = {} /\ c.news = {}
  /\ c.step = "saving service" /\ c.row # NoId => RowOfDevice(c.row, NoId)
  /\ c.kind \in {"end", "delete"} /\ c.step \in {"service", "saving service"} => c.todo = {}
  /\ c.kind = "pay" => c.todo = {}
  /\ OfDevice(c.kind) => Known(c.who) /\ \A n \in c.news : n.device = c.who.device
  /\ c.kind # "regenerate" /\ c.step # "pushing" => c.news = {}

Serving(c, d) == c.step \in {"reading", "finding", "serving"} /\ c.who.device = d
Listing(c, d) == \E r \in c.todo : c.list[r].device = d
HasNews(c, d) == \E n \in c.news : n.device = d

Off(r) == configRow[r].status \in {"revoked", "deleted"}
Closed(d) == \A r \in RowsOf(d) : Off(r)
InSync(d) == d \in untold \/ (d \in pushed <=> IsReady(d))

(* What a call on a device that no other overlaps with has made of it so   *)
(* far: billing was told, or will be by its news, what the row says.       *)
Alone(c, d) ==
  /\ c.step = "creating" => RowsOf(d) = {}
  /\ c.kind \in {"end", "delete"} /\ c.step # "listing" =>
       \A r \in RowsOf(d) : r \in c.todo \/ Off(r)
  /\ d \notin doubled =>
       /\ \A n \in c.news : n.device = d => (n.ready <=> IsReady(d))
       /\ c.kind = "revoke" /\ c.step = "pushing" => Closed(d)
       /\ c.kind = "regenerate" =>
            /\ Serving(c, d) => ~Listing(c, d)
            /\ Serving(c, d) \/ Listing(c, d) => ~HasNews(c, d)
            /\ outcome[d] \in {"on", "off"} /\ ~HasNews(c, d) => InSync(d)

(* What a call under way leaves of a device's outcome.                     *)
HandFits(c, d) ==
  d \in On(c) =>
    /\ c.kind # "regenerate" => outcome[d] = "open"
    /\ d \notin doubled /\ c.kind = "regenerate" /\ (Serving(c, d) \/ Listing(c, d)) =>
         outcome[d] \notin {"off", "ended"}
    /\ d \notin c.crossed => Alone(c, d)

(* Calls that overlap on a device know it.                                 *)
Crossing ==
  \A g, h \in RowHandlers : \A b \in {rowCall[g]}, c \in {rowCall[h]} :
    g # h => On(b) \cap On(c) \subseteq b.crossed

OneRow(d) == \A r, s \in RowsOf(d) : r = s

Stands(d) ==
  d \notin doubled =>
    /\ OneRow(d)
    /\ outcome[d] \in {"off", "ended"} => Closed(d)
    /\ outcome[d] \in {"on", "off"} /\ Untouched(d) => InSync(d)

RowsInv ==
  /\ configRow \in [RowIds -> AnyRow] /\ svcStatus \in ServiceStatus
  /\ DOMAIN rowCall = RowHandlers /\ rowCall = [h \in RowHandlers |-> rowCall[h]]
  /\ \A h \in RowHandlers : \A c \in {rowCall[h]} :
       CallFits(c) /\ \A d \in DeviceIds : HandFits(c, d)
  /\ Crossing
  /\ \A d \in DeviceIds : Stands(d)

(* The devices calls are on.                                               *)
LEMMA OnFacts ==
  ASSUME NEW c
  PROVE  /\ OfDevice(c.kind) => On(c) = {c.who.device}
         /\ c.kind \in {"end", "delete", "regenerate"} => On(c) = DeviceIds
         /\ c.kind \in {"pay", "none"} => On(c) = {}
BY DEF On, OfDevice

LEMMA TouchedBy ==
  ASSUME NEW d
  PROVE  Untouched(d) <=> \A h \in RowHandlers : \A c \in {rowCall[h]} : d \notin On(c)
BY DEF Untouched, Call, On

LEMMA NobodysCall ==
  /\ NoRowCall \in RowCallRecords /\ NoRowCall.step = "none" /\ NoRowCall.kind = "none"
  /\ NoRowCall.todo = {} /\ NoRowCall.news = {} /\ NoRowCall.crossed = {}
  /\ NoRowCall.who = [device |-> NoId, install |-> NoId] /\ NoRowCall.row = NoId
  /\ On(NoRowCall) = {}
<1>1. NoDeviceRow \in AnyRow
  BY DEF AnyRow
<1>2. NoRowCall.kind = "none"
  BY DEF NoRowCall
<1>3. NoRowCall \in RowCallRecords
  <2>1. [r \in RowIds |-> NoDeviceRow] \in [RowIds -> AnyRow]
    BY <1>1
  <2>2. [device |-> NoId, install |-> NoId]
          \in [device : DeviceIds \cup {NoId}, install : Installs \cup {NoId}]
    OBVIOUS
  <2>3. "none" \in RowSteps /\ "none" \in RowKinds
    BY DEF RowSteps, RowKinds
  <2>4. QED
    BY <1>1, <2>1, <2>2, <2>3 DEF NoRowCall, RowCallRecords, ServiceStatus
<1>4. On(NoRowCall) = {}
  BY <1>2, OnFacts
<1>5. QED
  BY <1>3, <1>4 DEF NoRowCall

(* A row names nobody, or an identity; only that of nobody has no device.  *)
LEMMA DeviceRowFacts ==
  ASSUME NEW x \in AnyRow, x # NoDeviceRow
  PROVE  /\ x = [device |-> x.device, install |-> x.install, status |-> x.status]
         /\ x.status \in ConfigStatus
         /\ (x.device = NoId /\ x.install = NoId) \/ Known(x)
         /\ x.device \in DeviceIds \cup {NoId} /\ x.install \in Installs \cup {NoId}
         /\ x.device = NoId <=> x.install = NoId
<1>1. PICK who \in Identities \cup {NoRowCall.who}, status \in ConfigStatus :
         x = [device |-> who.device, install |-> who.install, status |-> status]
  BY DEF AnyRow
<1>2. CASE who = NoRowCall.who
  BY <1>1, <1>2 DEF NoRowCall
<1>3. CASE who \in Identities
  BY <1>1, <1>3, DeviceRowsAssumption DEF Known, DeviceIds, Installs
<1>4. QED
  BY <1>1, <1>2, <1>3

LEMMA RowMade ==
  ASSUME NEW who, Known(who) \/ (who.device = NoId /\ who.install = NoId),
         NEW status \in ConfigStatus
  PROVE  LET x == [device |-> who.device, install |-> who.install, status |-> status] IN
         x \in AnyRow /\ x # NoDeviceRow
<1> DEFINE x == [device |-> who.device, install |-> who.install, status |-> status]
<1>1. PICK i \in Identities \cup {NoRowCall.who} :
         who.device = i.device /\ who.install = i.install
  <2>1. CASE Known(who)
    BY <2>1 DEF Known
  <2>2. CASE who.device = NoId /\ who.install = NoId
    BY <2>2, NobodysCall
  <2>3. QED
    BY <2>1, <2>2
<1>2. x = [device |-> i.device, install |-> i.install, status |-> status]
  BY <1>1
<1>3. x \in AnyRow
  BY <1>2 DEF AnyRow
<1>4. x.status # NoDeviceRow.status
  BY DEF NoDeviceRow, ConfigStatus
<1>5. QED
  BY <1>3, <1>4

(* findDeviceConfig finds only rows of the device, and all of them.        *)
LEMMA Matching ==
  ASSUME RowsInv, NEW who, Known(who)
  PROVE  /\ who.device \in DeviceIds /\ RowsOf(who.device) \subseteq Matches(who)
         /\ \A r \in Matches(who) : r \in RowIds /\ RowOfDevice(r, who.device)
<1>1. who.device \in DeviceIds /\ who.install \in Installs
  BY DEF Known, DeviceIds, Installs
<1>2. who.device # NoId /\ who.install # NoId
  BY <1>1, DeviceRowsAssumption
<1>3. RowsOf(who.device) \subseteq Matches(who)
  BY <1>2 DEF RowsOf, Matches, HasRow, NoDeviceRow
<1>4. ASSUME NEW r \in Matches(who) PROVE RowOfDevice(r, who.device)
  <2>1. r \in RowIds /\ HasRow(r)
        /\ (configRow[r].device = who.device \/ configRow[r].install = who.install)
    BY DEF Matches
  <2>2. PICK x : x = configRow[r]
    OBVIOUS
  <2>3. x \in AnyRow /\ x # NoDeviceRow
    BY <2>1, <2>2 DEF RowsInv, HasRow
  <2>4. x.install = who.install => x.device = who.device
    BY <1>2, <2>3, DeviceRowFacts, DeviceRowsAssumption DEF Known
  <2>5. QED
    BY <2>1, <2>2, <2>4 DEF RowOfDevice
<1>5. QED
  BY <1>1, <1>3, <1>4 DEF Matches

(* Rows stay with their devices.                                           *)
RowsStay ==
  \A r \in RowIds : HasRow(r) => HasRow(r)' /\ configRow'[r].device = configRow[r].device

RowsSame(d) == RowsOf(d)' = RowsOf(d) /\ \A r \in RowsOf(d) : configRow'[r] = configRow[r]

(* A step is not about device d.                                           *)
SameFor(d) ==
  /\ RowsSame(d)
  /\ d \in pushed' <=> d \in pushed
  /\ d \in untold' <=> d \in untold
  /\ d \in doubled' <=> d \in doubled

LEMMA RowsKept ==
  ASSUME RowsStay
  PROVE  /\ \A d : \A r \in RowIds : RowOfDevice(r, d) => RowOfDevice(r, d)'
         /\ \A d : RowsOf(d) # {} /\ d # NoId => RowsOf(d)' # {}
<1>1. \A d : \A r \in RowIds : RowOfDevice(r, d) => RowOfDevice(r, d)'
  BY DEF RowsStay, RowOfDevice, HasRow
<1>2. ASSUME NEW d, d # NoId, NEW r \in RowsOf(d) PROVE r \in RowsOf(d)'
  <2>1. r \in RowIds /\ HasRow(r) /\ configRow[r].device = d
    BY <1>2 DEF RowsOf, HasRow, NoDeviceRow
  <2>2. QED
    BY <2>1 DEF RowsStay, RowsOf
<1>3. QED
  BY <1>1, <1>2

LEMMA CallKept ==
  ASSUME NEW c, CallFits(c), RowsStay
  PROVE  CallFits(c)'
<1>1. c.todo \subseteq RowIds
  BY DEF CallFits, RowCallRecords
<1>2. \A r \in c.todo : RowOfDevice(r, c.list[r].device)'
  BY <1>1, RowsKept DEF CallFits
<1>3. c.step \in {"serving", "closing"} => RowOfDevice(c.row, c.who.device)'
  BY RowsKept DEF CallFits
<1>4. c.step = "saving service" /\ c.row # NoId => RowOfDevice(c.row, NoId)'
  <2>1. c.row # NoId => c.row \in RowIds
    BY DEF CallFits, RowCallRecords
  <2>2. QED
    BY <2>1, RowsKept DEF CallFits
<1>5. c.kind = "regenerate" /\ c.step \in {"reading", "finding"} => RowsOf(c.who.device)' # {}
  <2>1. Known(c.who) => c.who.device # NoId
    BY DeviceRowsAssumption DEF Known, DeviceIds
  <2>2. QED
    BY <2>1, RowsKept DEF CallFits
<1>6. QED
  BY <1>2, <1>3, <1>4, <1>5 DEF CallFits

LEMMA ReadyKept ==
  ASSUME NEW d, RowsSame(d)
  PROVE  /\ IsReady(d)' <=> IsReady(d)
         /\ Closed(d)' <=> Closed(d)
         /\ \A r \in RowsOf(d) : Off(r)' <=> Off(r)
         /\ OneRow(d)' <=> OneRow(d)
BY DEF RowsSame, IsReady, Closed, Off, OneRow

LEMMA AloneKept ==
  ASSUME NEW c, NEW d, SameFor(d), outcome'[d] = outcome[d], Alone(c, d)
  PROVE  Alone(c, d)'
<1>1. RowsOf(d)' = RowsOf(d)
  BY DEF SameFor, RowsSame
<1>2. InSync(d)' <=> InSync(d)
  BY ReadyKept DEF InSync, SameFor
<1>3. QED
  BY <1>1, <1>2, ReadyKept DEF Alone, SameFor

LEMMA HandKept ==
  ASSUME NEW c, NEW d, SameFor(d), outcome'[d] = outcome[d], HandFits(c, d)
  PROVE  HandFits(c, d)'
<1>1. Alone(c, d) => Alone(c, d)'
  BY AloneKept
<1>2. QED
  BY <1>1 DEF HandFits, SameFor

(* A call that another overlaps with on d.                                 *)
LEMMA CrossedHand ==
  ASSUME NEW c, NEW d, HandFits(c, d), d \in c.crossed, doubled \subseteq doubled',
         outcome'[d] \in {outcome[d], "open"}
  PROVE  HandFits(c, d)'
BY DEF HandFits

LEMMA StandsKept ==
  ASSUME NEW d, SameFor(d), outcome'[d] = outcome[d], Stands(d),
         Untouched(d)' => Untouched(d)
  PROVE  Stands(d)'
<1>1. InSync(d)' <=> InSync(d)
  BY ReadyKept DEF InSync, SameFor
<1>2. QED
  BY <1>1, ReadyKept DEF Stands, SameFor

(* What is known of a call under way.                                      *)
LEMMA CallUnderWay ==
  ASSUME RowsInv, NEW h \in RowHandlers, NEW c, c = rowCall[h]
  PROVE  /\ CallFits(c) /\ \A d \in DeviceIds : HandFits(c, d)
         /\ \A g \in RowHandlers \ {h} : \A b : b = rowCall[g] =>
              On(b) \cap On(c) \subseteq b.crossed /\ On(b) \cap On(c) \subseteq c.crossed
BY DEF RowsInv, Crossing

(* h, whose call was b, is at c of the same call.                          *)
MovesTo(h, b, c) ==
  /\ b = rowCall[h] /\ rowCall' = [rowCall EXCEPT ![h] = c]
  /\ On(c) = On(b) /\ c.crossed = b.crossed
  /\ outcome' = outcome

LEMMA MoveKeeps ==
  ASSUME RowsInv, NEW h \in RowHandlers, NEW b, NEW c, MovesTo(h, b, c), CallFits(c)',
         RowsStay, configRow' \in [RowIds -> AnyRow], svcStatus' \in ServiceStatus,
         doubled \subseteq doubled',
         \A d \in DeviceIds \ On(c) : SameFor(d),
         \A d \in DeviceIds \cap On(c) : HandFits(c, d)',
         \A d \in DeviceIds \cap On(c) : d \notin doubled' =>
           OneRow(d)' /\ (outcome[d] \in {"off", "ended"} => Closed(d)')
  PROVE  RowsInv'
<1>1. /\ \A g \in RowHandlers : rowCall'[g] = IF g = h THEN c ELSE rowCall[g]
      /\ DOMAIN rowCall' = RowHandlers /\ rowCall' = [g \in RowHandlers |-> rowCall'[g]]
  BY DEF MovesTo, RowsInv
<1>2. ASSUME NEW g \in RowHandlers, NEW e, e = rowCall'[g]
      PROVE  CallFits(e)' /\ \A d \in DeviceIds : HandFits(e, d)'
  <2>1. CASE g = h
    <3>1. e = c
      BY <1>1, <1>2, <2>1
    <3>2. \A d \in DeviceIds \ On(c) : HandFits(c, d)'
      BY DEF HandFits
    <3>3. QED
      BY <3>1, <3>2
  <2>2. CASE g # h
    <3>1. e = rowCall[g]
      BY <1>1, <1>2, <2>2
    <3>2. CallFits(e) /\ \A d \in DeviceIds : HandFits(e, d)
      BY <3>1, CallUnderWay
    <3>3. On(e) \cap On(c) \subseteq e.crossed
      BY <2>2, <3>1, CallUnderWay DEF MovesTo
    <3>4. ASSUME NEW d \in DeviceIds PROVE HandFits(e, d)'
      <4>1. CASE d \notin On(c)
        BY <3>2, <4>1, HandKept DEF MovesTo
      <4>2. CASE d \in On(c) /\ d \in On(e)
        BY <3>2, <3>3, <4>2, CrossedHand DEF MovesTo
      <4>3. CASE d \notin On(e)
        BY <4>3 DEF HandFits
      <4>4. QED
        BY <4>1, <4>2, <4>3
    <3>5. QED
      BY <3>2, <3>4, CallKept
  <2>3. QED
    BY <2>1, <2>2
<1>3. Crossing'
  <2>1. SUFFICES ASSUME NEW f \in RowHandlers, NEW g \in RowHandlers, f # g,
                        NEW d, NEW e, d = rowCall'[f], e = rowCall'[g]
                 PROVE  On(d) \cap On(e) \subseteq d.crossed
    BY DEF Crossing
  <2>2. CASE f = h
    <3>1. d = c /\ e = rowCall[g]
      BY <1>1, <2>1, <2>2
    <3>2. QED
      BY <2>1, <2>2, <3>1, CallUnderWay DEF MovesTo
  <2>3. CASE g = h
    <3>1. e = c /\ d = rowCall[f]
      BY <1>1, <2>1, <2>3
    <3>2. QED
      BY <2>1, <2>3, <3>1, CallUnderWay DEF MovesTo
  <2>4. CASE f # h /\ g # h
    <3>1. e = rowCall[g] /\ d = rowCall[f]
      BY <1>1, <2>1, <2>4
    <3>2. QED
      BY <2>1, <3>1, CallUnderWay
  <2>5. QED
    BY <2>2, <2>3, <2>4
<1>4. ASSUME NEW d \in DeviceIds PROVE Stands(d)'
  <2>1. Stands(d)
    BY DEF RowsInv
  <2>2. Untouched(d)' <=> \A g \in RowHandlers : \A e \in {rowCall'[g]} : d \notin On(e)
    BY DEF Untouched, Call, On
  <2>3. CASE d \notin On(c)
    <3>1. Untouched(d)' => Untouched(d)
      BY <1>1, <2>2, <2>3, TouchedBy DEF MovesTo
    <3>2. QED
      BY <2>1, <2>3, <3>1, StandsKept DEF MovesTo
  <2>4. CASE d \in On(c)
    <3>1. ~Untouched(d)'
      BY <1>1, <2>2, <2>4
    <3>2. QED
      BY <2>4, <3>1 DEF Stands, MovesTo
  <2>5. QED
    BY <2>3, <2>4
<1>5. QED
  BY <1>1, <1>2, <1>3, <1>4 DEF RowsInv

(* A move that writes no row and tells nothing.                            *)
LEMMA QuietMove ==
  ASSUME RowsInv, NEW h \in RowHandlers, NEW b, NEW c, MovesTo(h, b, c), CallFits(c),
         UNCHANGED <<configRow, pushed, doubled, untold>>, svcStatus' \in ServiceStatus,
         \A d \in DeviceIds \cap On(c) : HandFits(c, d)
  PROVE  RowsInv'
<1>1. RowsStay /\ \A d : SameFor(d)
  BY DEF RowsStay, HasRow, SameFor, RowsSame, RowsOf
<1>2. \A d \in DeviceIds \cap On(c) : HandFits(c, d)'
  BY <1>1, HandKept DEF MovesTo
<1>3. ASSUME NEW d \in DeviceIds \cap On(c), d \notin doubled'
      PROVE  OneRow(d)' /\ (outcome[d] \in {"off", "ended"} => Closed(d)')
  BY <1>1, <1>3, ReadyKept DEF RowsInv, Stands, SameFor
<1>4. QED
  BY <1>1, <1>2, <1>3, MoveKeeps, CallKept DEF RowsInv

(* h's call b is over and came to result.                                  *)
EndsAs(h, b, result) ==
  /\ b = rowCall[h] /\ rowCall' = [rowCall EXCEPT ![h] = NoRowCall]
  /\ \A d \in DeviceIds :
       outcome'[d] = IF d \notin On(b) THEN outcome[d]
                     ELSE IF d \in b.crossed THEN "open"
                     ELSE IF b.kind = "regenerate" THEN outcome[d]
                     ELSE result

LEMMA EndSays ==
  ASSUME NEW h, NEW b, b = rowCall[h], NEW result, EndRowCall(h, result)
  PROVE  EndsAs(h, b, result)
BY DEF EndRowCall, EndsAs, Call, On

LEMMA EndKeeps ==
  ASSUME RowsInv, NEW h \in RowHandlers, NEW b, NEW result, EndsAs(h, b, result),
         RowsStay, configRow' \in [RowIds -> AnyRow], svcStatus' \in ServiceStatus,
         doubled' = doubled,
         \A d \in DeviceIds \ On(b) : SameFor(d),
         \A d \in (DeviceIds \cap On(b)) \ doubled :
           /\ OneRow(d)'
           /\ d \notin b.crossed /\ outcome'[d] \in {"off", "ended"} => Closed(d)'
           /\ d \notin b.crossed /\ outcome'[d] \in {"on", "off"} => InSync(d)'
  PROVE  RowsInv'
<1>1. /\ \A g \in RowHandlers : rowCall'[g] = IF g = h THEN NoRowCall ELSE rowCall[g]
      /\ DOMAIN rowCall' = RowHandlers /\ rowCall' = [g \in RowHandlers |-> rowCall'[g]]
  BY DEF EndsAs, RowsInv
<1>2. ASSUME NEW g \in RowHandlers, NEW e, e = rowCall'[g]
      PROVE  CallFits(e)' /\ \A d \in DeviceIds : HandFits(e, d)'
  <2>1. CASE g = h
    <3>1. e = NoRowCall
      BY <1>1, <1>2, <2>1
    <3>2. \A d \in DeviceIds : HandFits(e, d)'
      BY <3>1, NobodysCall DEF HandFits
    <3>3. CallFits(e)'
      BY <3>1, NobodysCall DEF CallFits, StepsFit, OfDevice
    <3>4. QED
      BY <3>2, <3>3
  <2>2. CASE g # h
    <3>1. e = rowCall[g]
      BY <1>1, <1>2, <2>2
    <3>2. CallFits(e) /\ \A d \in DeviceIds : HandFits(e, d)
      BY <3>1, CallUnderWay
    <3>3. On(e) \cap On(b) \subseteq e.crossed /\ On(e) \cap On(b) \subseteq b.crossed
      BY <2>2, <3>1, CallUnderWay DEF EndsAs
    <3>4. ASSUME NEW d \in DeviceIds PROVE HandFits(e, d)'
      <4>1. CASE d \notin On(b)
        BY <3>2, <4>1, HandKept DEF EndsAs
      <4>2. CASE d \in On(b) /\ d \in On(e)
        BY <3>2, <3>3, <4>2, CrossedHand DEF EndsAs
      <4>3. CASE d \notin On(e)
        BY <4>3 DEF HandFits
      <4>4. QED
        BY <4>1, <4>2, <4>3
    <3>5. QED
      BY <3>2, <3>4, CallKept
  <2>3. QED
    BY <2>1, <2>2
<1>3. Crossing'
  <2>1. SUFFICES ASSUME NEW f \in RowHandlers, NEW g \in RowHandlers, f # g,
                        NEW d, NEW e, d = rowCall'[f], e = rowCall'[g]
                 PROVE  On(d) \cap On(e) \subseteq d.crossed
    BY DEF Crossing
  <2>2. CASE f = h \/ g = h
    <3>1. d = NoRowCall \/ e = NoRowCall
      BY <1>1, <2>1, <2>2
    <3>2. QED
      BY <3>1, NobodysCall
  <2>3. CASE f # h /\ g # h
    <3>1. e = rowCall[g] /\ d = rowCall[f]
      BY <1>1, <2>1, <2>3
    <3>2. QED
      BY <2>1, <3>1, CallUnderWay
  <2>4. QED
    BY <2>2, <2>3
<1>4. ASSUME NEW d \in DeviceIds PROVE Stands(d)'
  <2>1. Stands(d)
    BY DEF RowsInv
  <2>2. CASE d \notin On(b)
    <3>1. Untouched(d)' <=> \A g \in RowHandlers : \A e \in {rowCall'[g]} : d \notin On(e)
      BY DEF Untouched, Call, On
    <3>2. Untouched(d)' => Untouched(d)
      BY <1>1, <2>2, <3>1, TouchedBy DEF EndsAs
    <3>3. QED
      BY <2>1, <2>2, <3>2, StandsKept DEF EndsAs
  <2>3. CASE d \in On(b)
    <3>1. d \in b.crossed => outcome'[d] = "open"
      BY <2>3 DEF EndsAs
    <3>2. QED
      BY <2>3, <3>1 DEF Stands
  <2>4. QED
    BY <2>2, <2>3
<1>5. QED
  BY <1>1, <1>2, <1>3, <1>4 DEF RowsInv

(* A call learns that others overlap with it.                              *)
LEMMA MoreCrossed ==
  ASSUME NEW c, CallFits(c), NEW devices \in SUBSET DeviceIds,
         NEW e, e = [c EXCEPT !.crossed = @ \cup devices]
  PROVE  /\ CallFits(e) /\ On(e) = On(c) /\ e.crossed = c.crossed \cup devices
         /\ \A d : HandFits(c, d) => HandFits(e, d)
<1>1. c \in RowCallRecords
  BY DEF CallFits
<1>2. /\ e.kind = c.kind /\ e.step = c.step /\ e.who = c.who /\ e.row = c.row
      /\ e.as = c.as /\ e.list = c.list /\ e.st = c.st /\ e.todo = c.todo /\ e.news = c.news
      /\ e.crossed = c.crossed \cup devices
  BY <1>1 DEF RowCallRecords
<1>3. e \in RowCallRecords
  BY <1>1 DEF RowCallRecords
<1>4. CallFits(e)
  BY <1>2, <1>3 DEF CallFits, StepsFit
<1>5. On(e) = On(c)
  BY <1>2 DEF On
<1>6. \A d : Alone(c, d) => Alone(e, d)
  BY <1>2 DEF Alone, Listing, Serving, HasNews
<1>7. \A d : HandFits(c, d) => HandFits(e, d)
  BY <1>2, <1>5, <1>6 DEF HandFits, Listing, Serving
<1>8. QED
  BY <1>2, <1>4, <1>5, <1>7

(* A call c starts at h.                                                   *)
LEMMA RowCallStartKeeps ==
  ASSUME RowsInv, NEW h \in RowHandlers, NEW call, StartRowCall(h, call),
         CallFits(call), call.crossed = {}, call.todo = {}, call.news = {},
         call.step \in {"reading", "finding", "listing", "paying", "service"},
         call.kind = "regenerate" => call.step = "service",
         call.kind = "delete" => call.step = "listing",
         UNCHANGED <<configRow, pushed, doubled, untold>>, svcStatus' \in ServiceStatus
  PROVE  RowsInv'
<1>1. PICK c : c = [call EXCEPT !.crossed =
                      On(call) \cap UNION {On(Call(f)) : f \in RowHandlers \ {h}}]
  OBVIOUS
<1>2. call \in RowCallRecords
  BY DEF CallFits
<1>3. /\ c.kind = call.kind /\ c.step = call.step /\ c.who = call.who /\ c.row = call.row
      /\ c.as = call.as /\ c.list = call.list /\ c.st = call.st
      /\ c.todo = {} /\ c.news = {}
  BY <1>1, <1>2 DEF RowCallRecords
<1>4. On(c) = On(call) /\ c.crossed \subseteq On(c)
  BY <1>1, <1>2, <1>3 DEF On, OfDevice, RowCallRecords
<1>5. On(c) \subseteq DeviceIds
  <2>1. Known(c.who) => c.who.device \in DeviceIds
    BY DEF Known, DeviceIds
  <2>2. OfDevice(c.kind) => Known(c.who)
    BY <1>3 DEF CallFits
  <2>3. c.kind \in RowKinds
    BY <1>2, <1>3 DEF RowCallRecords
  <2>4. QED
    BY <2>1, <2>2, <2>3, OnFacts DEF RowKinds, OfDevice
<1>6. c \in RowCallRecords
  BY <1>1, <1>2, <1>4, <1>5 DEF RowCallRecords
<1>7. CallFits(c)
  BY <1>3, <1>6 DEF CallFits, StepsFit
<1>8. \A g \in RowHandlers \ {h} : \A e : e = rowCall[g] => On(e) \cap On(c) \subseteq c.crossed
  <2>1. SUFFICES ASSUME NEW g \in RowHandlers \ {h}, NEW e, e = rowCall[g]
                 PROVE  On(e) \cap On(c) \subseteq c.crossed
    OBVIOUS
  <2>2. On(Call(g)) = On(e)
    BY <2>1 DEF On, Call
  <2>3. c.crossed = On(call) \cap UNION {On(Call(f)) : f \in RowHandlers \ {h}}
    BY <1>1, <1>2 DEF RowCallRecords
  <2>4. QED
    BY <1>4, <2>1, <2>2, <2>3
<1>9. rowCall' = [g \in RowHandlers |->
        IF g = h THEN c ELSE [rowCall[g] EXCEPT !.crossed = @ \cup (On(rowCall[g]) \cap On(c))]]
  BY <1>1, <1>4 DEF StartRowCall, Call
<1>10. \A d \in DeviceIds : outcome'[d] = IF call.kind # "regenerate" /\ d \in On(c) THEN "open"
                                          ELSE outcome[d]
  BY <1>4 DEF StartRowCall
<1>11. rowCall[h].step = "none"
  BY DEF StartRowCall, Call
<1>12. \A d : SameFor(d)
  BY DEF SameFor, RowsSame, RowsOf
<1>13. \A g \in RowHandlers \ {h} : \A e, f : e = rowCall[g] /\ f = rowCall'[g] =>
         f = [e EXCEPT !.crossed = @ \cup (On(e) \cap On(c))]
  <2>1. SUFFICES ASSUME NEW g \in RowHandlers \ {h}, NEW e, NEW f,
                        e = rowCall[g], f = rowCall'[g]
                 PROVE  f = [e EXCEPT !.crossed = @ \cup (On(e) \cap On(c))]
    OBVIOUS
  <2>2. On(rowCall[g]) = On(e)
    BY <2>1 DEF On
  <2>3. QED
    BY <1>9, <2>1, <2>2
<1>14. \A g \in RowHandlers \ {h} : \A e, f : e = rowCall[g] /\ f = rowCall'[g] =>
         /\ CallFits(e) /\ CallFits(f) /\ On(f) = On(e)
         /\ f.crossed = e.crossed \cup (On(e) \cap On(c))
         /\ \A d \in DeviceIds : HandFits(e, d) /\ HandFits(f, d)
  <2>1. SUFFICES ASSUME NEW g \in RowHandlers \ {h}, NEW e, NEW f,
                        e = rowCall[g], f = rowCall'[g]
                 PROVE  /\ CallFits(e) /\ CallFits(f) /\ On(f) = On(e)
                        /\ f.crossed = e.crossed \cup (On(e) \cap On(c))
                        /\ \A d \in DeviceIds : HandFits(e, d) /\ HandFits(f, d)
    OBVIOUS
  <2>2. CallFits(e) /\ \A d \in DeviceIds : HandFits(e, d)
    BY <2>1, CallUnderWay
  <2>3. QED
    <3>1. PICK devices : devices = On(e) \cap On(c)
      OBVIOUS
    <3>2. devices \in SUBSET DeviceIds /\ f = [e EXCEPT !.crossed = @ \cup devices]
      BY <1>5, <1>13, <2>1, <3>1
    <3>3. /\ CallFits(f) /\ On(f) = On(e) /\ f.crossed = e.crossed \cup devices
          /\ \A d : HandFits(e, d) => HandFits(f, d)
      BY ONLY <2>2, <3>2, MoreCrossed
    <3>4. QED
      BY <2>2, <3>1, <3>3
<1>15. rowCall'[h] = c
  BY <1>9
<1>16. ASSUME NEW d \in DeviceIds PROVE HandFits(c, d)'
  <2>1. Untouched(d) \/ d \in c.crossed \/ d \notin On(c)
    <3>1. ASSUME d \in On(c), d \notin c.crossed, NEW g \in RowHandlers, NEW e, e = rowCall[g]
          PROVE  d \notin On(e)
      <4>1. CASE g = h
        <5>1. e.step = "none" /\ StepsFit(e)
          BY <1>11, <3>1, <4>1, CallUnderWay DEF CallFits
        <5>2. QED
          BY <5>1, OnFacts DEF StepsFit
      <4>2. CASE g # h
        BY <1>8, <3>1, <4>2
      <4>3. QED
        BY <4>1, <4>2
    <3>2. QED
      BY <3>1, TouchedBy
  <2>2. Stands(d)
    BY DEF RowsInv
  <2>3. d \in On(c) /\ c.kind # "regenerate" => outcome'[d] = "open"
    BY <1>3, <1>10
  <2>4. d \in On(c) /\ d \notin doubled /\ c.kind = "regenerate" /\ d \notin c.crossed
        /\ outcome'[d] \in {"on", "off"} => InSync(d)'
    <3>1. InSync(d)' <=> InSync(d)
      BY <1>12, ReadyKept DEF InSync, SameFor
    <3>2. c.kind = "regenerate" => outcome'[d] = outcome[d]
      BY <1>3, <1>10
    <3>3. QED
      BY <2>1, <2>2, <3>1, <3>2 DEF Stands
  <2>5. ~Listing(c, d) /\ (c.kind = "regenerate" => ~Serving(c, d))
    BY <1>3 DEF Listing, Serving
  <2>6. doubled' = doubled
    OBVIOUS
  <2>7. c.step # "creating" /\ c.step # "pushing"
        /\ (c.kind \in {"end", "delete"} => c.step = "listing")
    BY <1>3, <1>7 DEF CallFits, StepsFit
  <2>8. d \in On(c) /\ d \notin c.crossed => Alone(c, d)'
    BY <1>3, <2>4, <2>5, <2>6, <2>7 DEF Alone
  <2>9. QED
    BY <2>3, <2>5, <2>8 DEF HandFits
<1>17. ASSUME NEW g \in RowHandlers, NEW f, f = rowCall'[g]
       PROVE  CallFits(f)' /\ \A d \in DeviceIds : HandFits(f, d)'
  <2>1. RowsStay
    BY DEF RowsStay, HasRow
  <2>2. CASE g = h
    BY <1>7, <1>15, <1>16, <1>17, <2>1, <2>2, CallKept
  <2>3. CASE g # h
    <3>1. PICK e : e = rowCall[g]
      OBVIOUS
    <3>2. CallFits(f)'
      BY <1>14, <1>17, <2>1, <2>3, <3>1, CallKept
    <3>3. ASSUME NEW d \in DeviceIds PROVE HandFits(f, d)'
      <4>1. HandFits(f, d) /\ On(f) = On(e) /\ f.crossed = e.crossed \cup (On(e) \cap On(c))
        BY <1>14, <1>17, <2>3, <3>1
      <4>2. CASE d \notin On(c)
        BY <1>10, <1>12, <4>1, <4>2, HandKept
      <4>3. CASE d \in On(c) /\ d \in On(f)
        BY <1>10, <4>1, <4>3, CrossedHand
      <4>4. CASE d \notin On(f)
        BY <4>4 DEF HandFits
      <4>5. QED
        BY <4>2, <4>3, <4>4
    <3>4. QED
      BY <3>2, <3>3
  <2>4. QED
    BY <2>2, <2>3
<1>18. Crossing'
  <2>1. SUFFICES ASSUME NEW f \in RowHandlers, NEW g \in RowHandlers, f # g,
                        NEW d, NEW e, d = rowCall'[f], e = rowCall'[g]
                 PROVE  On(d) \cap On(e) \subseteq d.crossed
    BY DEF Crossing
  <2>2. PICK b, a : b = rowCall[f] /\ a = rowCall[g]
    OBVIOUS
  <2>3. CASE f = h
    BY <1>8, <1>14, <1>15, <2>1, <2>2, <2>3
  <2>4. CASE g = h
    BY <1>14, <1>15, <2>1, <2>2, <2>4
  <2>5. CASE f # h /\ g # h
    <3>1. On(b) \cap On(a) \subseteq b.crossed
      BY <2>1, <2>2, CallUnderWay
    <3>2. QED
      BY <1>14, <2>1, <2>2, <2>5, <3>1
  <2>6. QED
    BY <2>3, <2>4, <2>5
<1>19. ASSUME NEW d \in DeviceIds PROVE Stands(d)'
  <2>1. Stands(d)
    BY DEF RowsInv
  <2>2. Untouched(d)' <=> \A g \in RowHandlers : \A e \in {rowCall'[g]} : d \notin On(e)
    BY DEF Untouched, Call, On
  <2>3. CASE d \notin On(c)
    <3>1. ASSUME Untouched(d)', NEW g \in RowHandlers, NEW e, e = rowCall[g] PROVE d \notin On(e)
      <4>1. CASE g = h
        <5>1. e.step = "none" /\ StepsFit(e)
          BY <1>11, <3>1, <4>1, CallUnderWay DEF CallFits
        <5>2. QED
          BY <5>1, OnFacts DEF StepsFit
      <4>2. CASE g # h
        BY <1>14, <2>2, <3>1, <4>2
      <4>3. QED
        BY <4>1, <4>2
    <3>2. Untouched(d)' => Untouched(d)
      BY <3>1, TouchedBy
    <3>3. QED
      BY <1>10, <1>12, <2>1, <2>3, <3>2, StandsKept
  <2>4. CASE d \in On(c)
    <3>1. ~Untouched(d)'
      BY <1>15, <2>2, <2>4
    <3>2. outcome'[d] \in {outcome[d], "open"} /\ RowsSame(d) /\ doubled' = doubled
      BY <1>10, <1>12 DEF SameFor
    <3>3. QED
      BY <2>1, <3>1, <3>2, ReadyKept DEF Stands
  <2>5. QED
    BY <2>3, <2>4
<1>20. DOMAIN rowCall' = RowHandlers /\ rowCall' = [g \in RowHandlers |-> rowCall'[g]]
  BY <1>9
<1>21. QED
  BY <1>17, <1>18, <1>19, <1>20 DEF RowsInv

(* The handlers start (handleBillingEvent, regenerateServiceConfig).       *)
LEMMA CallsStart ==
  ASSUME RowsInv, NEW h \in RowHandlers,
         \/ \E who \in Identities, kind \in {"activate", "revoke"} : StartDeviceCall(h, kind, who)
         \/ StartEnd(h) \/ StartDelete(h) \/ StartPayment(h) \/ StartRegenerate(h)
  PROVE  RowsInv'
<1> DEFINE New(kind, step) == [NoRowCall EXCEPT !.kind = kind, !.step = step]
<1>1. ASSUME NEW call, NEW kind \in RowKinds, NEW step \in RowSteps, call = New(kind, step),
             StartRowCall(h, call),
             \/ kind \in {"end", "delete"} /\ step = "listing"
             \/ kind = "pay" /\ step = "paying"
             \/ kind = "regenerate" /\ step = "service",
             UNCHANGED <<configRow, pushed, doubled, untold>>, svcStatus' \in ServiceStatus
      PROVE  RowsInv'
  <2>1. call \in RowCallRecords /\ call.kind = kind /\ call.step = step
        /\ call.todo = {} /\ call.news = {} /\ call.crossed = {} /\ call.row = NoId
    BY <1>1, NobodysCall DEF RowCallRecords
  <2>2. CallFits(call)
    BY <1>1, <2>1 DEF CallFits, StepsFit, OfDevice
  <2>3. QED
    BY <1>1, <2>1, <2>2, RowCallStartKeeps
<1>2. ASSUME NEW who \in Identities, NEW kind \in {"activate", "revoke"},
             StartDeviceCall(h, kind, who)
      PROVE  RowsInv'
  <2>1. PICK call : call = [NoRowCall EXCEPT !.kind = kind, !.who = who,
                              !.step = IF kind = "activate" THEN "reading" ELSE "finding"]
    OBVIOUS
  <2>2. StartRowCall(h, call) /\ UNCHANGED <<configRow, svcStatus, pushed, doubled, untold>>
    BY <1>2, <2>1 DEF StartDeviceCall
  <2>3. /\ call.kind = kind /\ call.who = who /\ call.row = NoId
        /\ call.step = IF kind = "activate" THEN "reading" ELSE "finding"
        /\ call.todo = {} /\ call.news = {} /\ call.crossed = {}
    BY <2>1, NobodysCall DEF RowCallRecords
  <2>4. call \in RowCallRecords
    <3>1. who \in [device : DeviceIds \cup {NoId}, install : Installs \cup {NoId}]
      BY DeviceRowsAssumption DEF DeviceIds, Installs
    <3>2. PICK step : step = IF kind = "activate" THEN "reading" ELSE "finding"
      OBVIOUS
    <3>3. step \in RowSteps /\ kind \in RowKinds
      BY <3>2 DEF RowSteps, RowKinds
    <3>4. call = [NoRowCall EXCEPT !.kind = kind, !.who = who, !.step = step]
      BY <2>1, <3>2
    <3>5. QED
      BY <3>1, <3>3, <3>4, NobodysCall DEF RowCallRecords
  <2>5. Known(who)
    BY DEF Known
  <2>6. CallFits(call)
    BY <1>2, <2>3, <2>4, <2>5 DEF CallFits, StepsFit, OfDevice
  <2>7. svcStatus' \in ServiceStatus
    BY <2>2 DEF RowsInv
  <2>8. QED
    BY <1>2, <2>2, <2>3, <2>6, <2>7, RowCallStartKeeps
<1>3. CASE StartEnd(h)
  <2>1. PICK call : call = New("end", "listing")
    OBVIOUS
  <2>2. StartRowCall(h, call) /\ svcStatus' = "suspended"
        /\ UNCHANGED <<configRow, pushed, doubled, untold>>
    BY <1>3, <2>1 DEF StartEnd
  <2>3. QED
    BY <1>1, <2>1, <2>2 DEF RowKinds, RowSteps, ServiceStatus
<1>4. CASE StartDelete(h)
  <2>1. PICK call : call = New("delete", "listing")
    OBVIOUS
  <2>2. StartRowCall(h, call) /\ UNCHANGED <<configRow, svcStatus, pushed, doubled, untold>>
    BY <1>4, <2>1 DEF StartDelete
  <2>3. QED
    BY <1>1, <2>1, <2>2 DEF RowKinds, RowSteps, RowsInv
<1>5. CASE StartPayment(h)
  <2>1. PICK call : call = New("pay", "paying")
    OBVIOUS
  <2>2. StartRowCall(h, call) /\ svcStatus' = "provisioning"
        /\ UNCHANGED <<configRow, pushed, doubled, untold>>
    BY <1>5, <2>1 DEF StartPayment
  <2>3. QED
    BY <1>1, <2>1, <2>2 DEF RowKinds, RowSteps, ServiceStatus
<1>6. CASE StartRegenerate(h)
  <2>1. PICK call : call = New("regenerate", "service")
    OBVIOUS
  <2>2. StartRowCall(h, call) /\ UNCHANGED <<configRow, svcStatus, pushed, doubled, untold>>
    BY <1>6, <2>1 DEF StartRegenerate
  <2>3. QED
    BY <1>1, <2>1, <2>2 DEF RowKinds, RowSteps, RowsInv
<1>7. QED
  BY <1>2, <1>3, <1>4, <1>5, <1>6

LEMMA RowWritten ==
  ASSUME RowsInv, NEW r \in RowIds, NEW x \in AnyRow, x # NoDeviceRow,
         configRow' = [configRow EXCEPT ![r] = x], HasRow(r) => configRow[r].device = x.device
  PROVE  /\ RowsStay /\ configRow' \in [RowIds -> AnyRow] /\ configRow'[r] = x
         /\ \A d \in DeviceIds \ {x.device} : RowsSame(d)
         /\ RowsOf(x.device)' = RowsOf(x.device) \cup {r}
         /\ \A s \in RowsOf(x.device) : s # r => configRow'[s] = configRow[s]
<1>1. configRow \in [RowIds -> AnyRow]
  BY DEF RowsInv
<1>2. \A s \in RowIds : configRow'[s] = IF s = r THEN x ELSE configRow[s]
  BY <1>1
<1>3. RowsStay
  BY <1>2 DEF RowsStay, HasRow
<1>4. ASSUME NEW d \in DeviceIds \ {x.device} PROVE RowsSame(d)
  <2>1. r \notin RowsOf(d)
    <3>1. d # NoId
      BY DeviceRowsAssumption
    <3>2. QED
      BY <3>1 DEF RowsOf, HasRow, NoDeviceRow
  <2>2. r \notin RowsOf(d)'
    BY <1>2 DEF RowsOf
  <2>3. RowsOf(d)' = RowsOf(d)
    BY <1>2, <2>1, <2>2 DEF RowsOf
  <2>4. QED
    BY <1>2, <2>1, <2>3 DEF RowsSame, RowsOf
<1>5. RowsOf(x.device)' = RowsOf(x.device) \cup {r}
  BY <1>2 DEF RowsOf
<1>6. \A s \in RowsOf(x.device) : s # r => configRow'[s] = configRow[s]
  BY <1>2 DEF RowsOf
<1>7. configRow' \in [RowIds -> AnyRow]
  BY <1>1
<1>8. QED
  BY <1>2, <1>3, <1>4, <1>5, <1>6, <1>7

(* A step of h, and the call before it.                                    *)
LEMMA Steps ==
  ASSUME NEW h, NEW b, b = rowCall[h], NEW c, Step(h, c), On(c) = On(b), c.crossed = b.crossed
  PROVE  MovesTo(h, b, c)
BY DEF Step, MovesTo

LEMMA OnSame ==
  ASSUME NEW b, NEW c, c.kind = b.kind, c.who = b.who
  PROVE  On(c) = On(b)
BY DEF On

LEMMA OnDevices ==
  ASSUME NEW b, CallFits(b)
  PROVE  On(b) \subseteq DeviceIds
<1>1. Known(b.who) => b.who.device \in DeviceIds
  BY DEF Known, DeviceIds
<1>2. b.kind \in RowKinds
  BY DEF CallFits, RowCallRecords
<1>3. QED
  BY <1>1, <1>2, OnFacts DEF RowKinds, OfDevice, CallFits

(* syncDeviceSnapshot reads the service.                                   *)
LEMMA ServiceRead ==
  ASSUME RowsInv, NEW h \in RowHandlers, ReadService(h)
  PROVE  RowsInv'
<1>1. PICK b : b = rowCall[h]
  OBVIOUS
<1>2. CallFits(b) /\ \A d \in DeviceIds : HandFits(b, d)
  BY <1>1, CallUnderWay
<1>3. PICK c : c = [b EXCEPT !.step = "finding", !.st = svcStatus]
  OBVIOUS
<1>4. b.step = "reading" /\ Step(h, c) /\ UNCHANGED <<configRow, svcStatus, pushed, doubled, untold>>
  BY <1>1, <1>3 DEF ReadService, Call
<1>5. b \in RowCallRecords /\ svcStatus \in ServiceStatus
  BY <1>2 DEF CallFits, RowsInv
<1>6. /\ c.kind = b.kind /\ c.who = b.who /\ c.row = b.row /\ c.as = b.as /\ c.list = b.list
      /\ c.todo = b.todo /\ c.news = b.news /\ c.crossed = b.crossed /\ c.step = "finding"
  BY <1>3, <1>5 DEF RowCallRecords
<1>7. c \in RowCallRecords
  BY <1>3, <1>5 DEF RowCallRecords, RowSteps
<1>8. CallFits(c)
  BY <1>2, <1>4, <1>6, <1>7 DEF CallFits, StepsFit
<1>9. On(c) = On(b)
  BY <1>6, OnSame
<1>10. ASSUME NEW d \in DeviceIds PROVE HandFits(c, d)
  <2>1. (Serving(c, d) <=> Serving(b, d)) /\ (Listing(c, d) <=> Listing(b, d))
        /\ (HasNews(c, d) <=> HasNews(b, d))
    BY <1>4, <1>6 DEF Serving, Listing, HasNews
  <2>2. Alone(b, d) => Alone(c, d)
    BY <1>4, <1>6, <2>1 DEF Alone
  <2>3. QED
    BY <1>2, <1>6, <1>9, <2>1, <2>2 DEF HandFits
<1>11. MovesTo(h, b, c)
  BY <1>1, <1>4, <1>6, <1>9, Steps
<1>12. QED
  BY <1>4, <1>5, <1>8, <1>10, <1>11, QuietMove

(* The call c that follows b, with the news n to push.                     *)
PushesOf(b, c, n, status) ==
  /\ n.device = b.who.device /\ (n.ready <=> status = "ready")
  /\ c.news = b.news \cup {n}
  /\ c.step = IF b.kind = "regenerate" THEN "next" ELSE "pushing"
  /\ c.kind = b.kind /\ c.who = b.who /\ c.row = NoId /\ c.list = b.list /\ c.todo = b.todo
  /\ c.crossed = b.crossed

LEMMA Pushes ==
  ASSUME NEW h, NEW b \in RowCallRecords, b = rowCall[h], b.who.device \in DeviceIds,
         NEW status, ToPush(h, status)
  PROVE  \E c \in RowCallRecords, n \in News : Step(h, c) /\ PushesOf(b, c, n, status)
<1>1. PICK ready \in BOOLEAN : ready = (status = "ready")
  OBVIOUS
<1>2. PICK step : step = IF b.kind = "regenerate" THEN "next" ELSE "pushing"
  OBVIOUS
<1>3. PICK n : n = [device |-> b.who.device, ready |-> ready]
  OBVIOUS
<1>4. PICK c : c = [b EXCEPT !.step = step, !.news = @ \cup {n}, !.row = NoId,
                      !.as = NoDeviceRow, !.st = "active"]
  OBVIOUS
<1>5. Step(h, c)
  BY <1>1, <1>2, <1>3, <1>4 DEF ToPush, Call
<1>6. step \in RowSteps /\ NoDeviceRow \in AnyRow /\ "active" \in ServiceStatus
  BY <1>2 DEF RowSteps, AnyRow, ServiceStatus
<1>7. n \in News /\ n.device = b.who.device /\ n.ready = ready
  BY <1>3 DEF News
<1>8. c \in RowCallRecords
  BY <1>4, <1>6, <1>7 DEF RowCallRecords
<1>9. /\ c.news = b.news \cup {n} /\ c.step = step
      /\ c.kind = b.kind /\ c.who = b.who /\ c.row = NoId /\ c.list = b.list
      /\ c.todo = b.todo /\ c.crossed = b.crossed
  BY <1>4 DEF RowCallRecords
<1>10. PushesOf(b, c, n, status)
  BY <1>1, <1>2, <1>7, <1>9 DEF PushesOf
<1>11. QED
  BY <1>5, <1>7, <1>8, <1>10

(* findDeviceConfig.                                                       *)
LEMMA RowFound ==
  ASSUME RowsInv, NEW h \in RowHandlers, FindRow(h)
  PROVE  RowsInv'
<1>1. PICK b : b = rowCall[h]
  OBVIOUS
<1>2. CallFits(b) /\ \A d \in DeviceIds : HandFits(b, d)
  BY <1>1, CallUnderWay
<1>3. b \in RowCallRecords /\ b.step = "finding"
      /\ UNCHANGED <<configRow, svcStatus, pushed, doubled, untold>>
  BY <1>1, <1>2 DEF CallFits, FindRow, Call
<1>4. Known(b.who) /\ b.kind \in {"activate", "revoke", "regenerate"}
      /\ (b.kind # "regenerate" => b.news = {})
  BY <1>2, <1>3 DEF CallFits, StepsFit
<1>5. /\ b.who.device \in DeviceIds /\ RowsOf(b.who.device) \subseteq Matches(b.who)
      /\ \A r \in Matches(b.who) : r \in RowIds /\ RowOfDevice(r, b.who.device)
  BY <1>4, Matching
<1>6. svcStatus' \in ServiceStatus
  BY <1>3 DEF RowsInv
<1>7. CASE Matches(b.who) = {} /\ b.kind = "revoke"
  <2>1. ToPush(h, "none")
    BY <1>1, <1>3, <1>7 DEF FindRow, Call
  <2>2. PICK c \in RowCallRecords, n \in News : Step(h, c) /\ PushesOf(b, c, n, "none")
    BY <1>1, <1>3, <1>5, <2>1, Pushes
  <2>3. CallFits(c)
    BY <1>2, <1>3, <1>4, <1>7, <2>2 DEF CallFits, StepsFit, PushesOf
  <2>4. On(c) = On(b) /\ On(c) = {b.who.device}
    BY <1>7, <2>2, OnSame, OnFacts DEF OfDevice, PushesOf
  <2>5. HandFits(c, b.who.device)
    <3>1. RowsOf(b.who.device) = {}
      BY <1>5, <1>7
    <3>2. ~IsReady(b.who.device) /\ Closed(b.who.device)
      BY <3>1 DEF IsReady, Closed
    <3>3. Alone(c, b.who.device)
      BY <1>4, <1>7, <2>2, <3>2 DEF Alone, PushesOf
    <3>4. QED
      BY <1>2, <1>5, <1>7, <2>2, <2>4, <3>3 DEF HandFits, PushesOf
  <2>6. MovesTo(h, b, c)
    BY <1>1, <2>2, <2>4, Steps DEF PushesOf
  <2>7. QED
    BY <1>3, <1>6, <2>3, <2>4, <2>5, <2>6, QuietMove
<1>8. CASE Matches(b.who) = {} /\ b.kind # "revoke"
  <2>1. PICK c : c = [b EXCEPT !.step = "creating"]
    OBVIOUS
  <2>2. Step(h, c)
    BY <1>1, <1>3, <1>8, <2>1 DEF FindRow, GoesTo, Call
  <2>3. b.kind = "activate"
    BY <1>2, <1>3, <1>4, <1>5, <1>8 DEF CallFits
  <2>4. /\ c.kind = b.kind /\ c.who = b.who /\ c.row = b.row /\ c.as = b.as /\ c.list = b.list
        /\ c.todo = b.todo /\ c.news = {} /\ c.crossed = b.crossed /\ c.step = "creating"
    BY <1>3, <1>4, <2>1, <2>3 DEF RowCallRecords
  <2>5. c \in RowCallRecords
    BY <1>3, <2>1 DEF RowCallRecords, RowSteps
  <2>6. CallFits(c)
    BY <1>2, <1>4, <2>3, <2>4, <2>5 DEF CallFits, StepsFit
  <2>7. On(c) = On(b) /\ On(c) = {b.who.device}
    BY <2>3, <2>4, OnSame, OnFacts DEF OfDevice
  <2>8. HandFits(c, b.who.device)
    <3>1. RowsOf(b.who.device) = {}
      BY <1>5, <1>8
    <3>2. Alone(c, b.who.device)
      BY <2>3, <2>4, <3>1 DEF Alone
    <3>3. QED
      BY <1>2, <1>5, <2>3, <2>4, <2>7, <3>2 DEF HandFits
  <2>9. QED
    BY <1>1, <1>3, <1>6, <2>2, <2>4, <2>6, <2>7, <2>8, Steps, QuietMove
<1>9. CASE Matches(b.who) # {}
  <2>1. PICK step : step = IF b.kind = "revoke" THEN "closing" ELSE "serving"
    OBVIOUS
  <2>2. PICK r \in Matches(b.who) :
           Step(h, [b EXCEPT !.row = r, !.as = configRow[r], !.step = step])
    BY <1>1, <1>3, <1>9, <2>1 DEF FindRow, Call
  <2>3. PICK c : c = [b EXCEPT !.row = r, !.as = configRow[r], !.step = step]
    OBVIOUS
  <2>4. r \in RowIds /\ RowOfDevice(r, b.who.device) /\ step \in RowSteps
    BY <1>5, <2>1 DEF RowSteps
  <2>5. /\ c.kind = b.kind /\ c.who = b.who /\ c.row = r /\ c.as = configRow[r]
        /\ c.list = b.list /\ c.todo = b.todo /\ c.news = b.news /\ c.crossed = b.crossed
        /\ c.step = step
    BY <1>3, <2>3 DEF RowCallRecords
  <2>6. configRow[r] \in AnyRow
    BY <2>4 DEF RowsInv
  <2>7. c \in RowCallRecords
    BY <1>3, <2>3, <2>4, <2>6 DEF RowCallRecords
  <2>8. StepsFit(c)
    BY <1>4, <2>1, <2>5 DEF StepsFit
  <2>9. CallFits(c)
    BY <1>2, <1>4, <2>1, <2>4, <2>5, <2>7, <2>8 DEF CallFits, RowOfDevice
  <2>10. On(c) = On(b)
    BY <2>5, OnSame
  <2>11. ASSUME NEW d \in DeviceIds PROVE HandFits(c, d)
    <3>1. (Listing(c, d) <=> Listing(b, d)) /\ (HasNews(c, d) <=> HasNews(b, d))
      BY <2>5 DEF Listing, HasNews
    <3>2. b.kind = "regenerate" => (Serving(c, d) <=> Serving(b, d))
      BY <1>3, <2>1, <2>5 DEF Serving
    <3>3. c.step \in {"closing", "serving"}
      BY <2>1, <2>5
    <3>4. Alone(b, d) => Alone(c, d)
      BY <1>3, <2>5, <3>1, <3>2, <3>3 DEF Alone
    <3>5. QED
      BY <1>2, <2>5, <2>10, <3>1, <3>2, <3>4 DEF HandFits
  <2>12. Step(h, c)
    BY <2>2, <2>3
  <2>13. MovesTo(h, b, c)
    BY <1>1, <2>5, <2>10, <2>12, Steps
  <2>14. QED
    BY <1>3, <1>6, <2>9, <2>11, <2>13, QuietMove
<1>10. QED
  BY <1>7, <1>8, <1>9

(* getOrCreateDeviceConfig, when there was no row.                         *)
LEMMA RowCreated ==
  ASSUME RowsInv, NEW h \in RowHandlers, CreateRow(h)
  PROVE  RowsInv'
<1>1. PICK b : b = rowCall[h]
  OBVIOUS
<1>2. CallFits(b) /\ \A d \in DeviceIds : HandFits(b, d)
  BY <1>1, CallUnderWay
<1>3. b \in RowCallRecords /\ b.step = "creating" /\ b.kind = "activate" /\ Known(b.who)
      /\ b.news = {}
  BY <1>1, <1>2 DEF CallFits, StepsFit, CreateRow, Call
<1>4. PICK r : r = NewRow
  OBVIOUS
<1>5. r \in RowIds /\ ~HasRow(r)
  BY <1>4 DEF CreateRow, RoomForRow, NewRow
<1>6. PICK x : x = [device |-> b.who.device, install |-> b.who.install, status |-> "pending"]
  OBVIOUS
<1>7. x \in AnyRow /\ x # NoDeviceRow
  BY <1>3, <1>6, RowMade DEF ConfigStatus
<1>8. configRow' = [configRow EXCEPT ![r] = x]
  BY <1>1, <1>4, <1>6 DEF CreateRow, SaveRow, Call
<1>9. PICK d : d = b.who.device
  OBVIOUS
<1>10. d \in DeviceIds /\ x.device = d /\ d # NoId
  BY <1>3, <1>6, <1>9, DeviceRowsAssumption DEF Known, DeviceIds
<1>11. /\ RowsStay /\ configRow' \in [RowIds -> AnyRow] /\ configRow'[r] = x
       /\ \A e \in DeviceIds \ {d} : RowsSame(e)
       /\ RowsOf(d)' = RowsOf(d) \cup {r}
  BY <1>5, <1>7, <1>8, <1>10, RowWritten
<1>12. PICK c : c = [b EXCEPT !.row = r, !.as = x, !.step = "serving"]
  OBVIOUS
<1>13. Step(h, c) /\ UNCHANGED <<svcStatus, pushed, untold>>
       /\ doubled' = IF RowsOf(d) # {} /\ d \in b.crossed THEN doubled \cup {d} ELSE doubled
  BY <1>1, <1>4, <1>9, <1>11, <1>12 DEF CreateRow, Call
<1>14. /\ c.kind = b.kind /\ c.who = b.who /\ c.row = r /\ c.as = x /\ c.list = b.list
       /\ c.todo = b.todo /\ c.news = {} /\ c.crossed = b.crossed /\ c.step = "serving"
  BY <1>3, <1>12 DEF RowCallRecords
<1>15. c \in RowCallRecords
  BY <1>3, <1>5, <1>7, <1>12 DEF RowCallRecords, RowSteps
<1>16. CallFits(c)'
  <2>1. RowOfDevice(r, d)'
    BY <1>7, <1>10, <1>11 DEF RowOfDevice, HasRow
  <2>2. CallFits(b)'
    BY <1>2, <1>11, CallKept
  <2>3. QED
    BY <1>3, <1>5, <1>9, <1>14, <1>15, <2>1, <2>2 DEF CallFits, StepsFit, OfDevice
<1>17. On(c) = On(b) /\ On(c) = {d}
  BY <1>3, <1>9, <1>14, OnSame, OnFacts DEF OfDevice
<1>18. \A e \in DeviceIds \ {d} : SameFor(e)
  BY <1>11, <1>13 DEF SameFor
<1>19. MovesTo(h, b, c)
  BY <1>1, <1>13, <1>14, <1>17, Steps
<1>20. outcome[d] = "open" /\ (d \notin b.crossed => RowsOf(d) = {})
  BY <1>2, <1>3, <1>10, <1>17 DEF HandFits, Alone
<1>21. HandFits(c, d)'
  <2>1. Alone(c, d)'
    BY <1>3, <1>14 DEF Alone
  <2>2. QED
    BY <1>3, <1>14, <1>19, <1>20, <2>1 DEF HandFits, MovesTo
<1>22. d \notin doubled' => OneRow(d)'
  <2>1. d \notin doubled' => RowsOf(d) = {}
    BY <1>13, <1>20
  <2>2. QED
    BY <1>11, <2>1 DEF OneRow
<1>23. svcStatus' \in ServiceStatus /\ doubled \subseteq doubled'
  BY <1>13 DEF RowsInv
<1>24. QED
  BY <1>11, <1>16, <1>17, <1>18, <1>19, <1>20, <1>21, <1>22, <1>23, MoveKeeps

(* The row of a device, its only one unless it is doubled, is saved.       *)
LEMMA SavedIsReady ==
  ASSUME RowsInv, NEW d \in DeviceIds, NEW r \in RowsOf(d),
         RowsOf(d)' = RowsOf(d) \cup {r}, d \notin doubled
  PROVE  /\ OneRow(d)'
         /\ IsReady(d)' <=> configRow'[r].status = "ready"
         /\ configRow'[r].status = "revoked" => Closed(d)'
<1>1. OneRow(d)
  BY DEF RowsInv, Stands
<1>2. RowsOf(d) = {r} /\ RowsOf(d)' = {r}
  BY <1>1 DEF OneRow
<1>3. QED
  BY <1>2 DEF OneRow, IsReady, Closed, Off

(* syncDeviceSnapshot saves the row it serves the device with.             *)
LEMMA DeviceServed ==
  ASSUME RowsInv, NEW h \in RowHandlers, ServeDevice(h)
  PROVE  RowsInv'
<1>1. PICK b : b = rowCall[h]
  OBVIOUS
<1>2. CallFits(b) /\ \A d \in DeviceIds : HandFits(b, d)
  BY <1>1, CallUnderWay
<1>3. b \in RowCallRecords /\ b.step = "serving" /\ b.kind \in {"activate", "regenerate"}
      /\ Known(b.who) /\ b.row \in RowIds /\ RowOfDevice(b.row, b.who.device)
      /\ (b.kind = "activate" => b.news = {})
  BY <1>1, <1>2 DEF CallFits, StepsFit, ServeDevice, Call
<1>4. PICK status \in ConfigStatus :
         /\ configRow' = [configRow EXCEPT ![b.row] =
              [device |-> b.who.device, install |-> b.who.install, status |-> status]]
         /\ ToPush(h, status)
         /\ UNCHANGED <<svcStatus, pushed, doubled, untold>>
  BY <1>1 DEF ServeDevice, SaveRow, Call, MappedStatus, ConfigStatus
<1>5. PICK d : d = b.who.device
  OBVIOUS
<1>6. d \in DeviceIds /\ d # NoId
  BY <1>3, <1>5, DeviceRowsAssumption DEF Known, DeviceIds
<1>7. PICK x : x = [device |-> b.who.device, install |-> b.who.install, status |-> status]
  OBVIOUS
<1>8. x \in AnyRow /\ x # NoDeviceRow /\ x.device = d /\ x.status = status
  BY <1>3, <1>5, <1>7, RowMade
<1>9. /\ RowsStay /\ configRow' \in [RowIds -> AnyRow] /\ configRow'[b.row] = x
      /\ \A e \in DeviceIds \ {d} : RowsSame(e)
      /\ RowsOf(d)' = RowsOf(d) \cup {b.row}
  <2>1. configRow' = [configRow EXCEPT ![b.row] = x]
    BY <1>4, <1>7
  <2>2. HasRow(b.row) => configRow[b.row].device = x.device
    BY <1>3, <1>5, <1>8 DEF RowOfDevice
  <2>3. QED
    BY <1>3, <1>8, <2>1, <2>2, RowWritten
<1>10. b.row \in RowsOf(d)
  BY <1>3, <1>5 DEF RowOfDevice, RowsOf
<1>11. PICK c \in RowCallRecords, n \in News : Step(h, c) /\ PushesOf(b, c, n, status)
  BY <1>1, <1>3, <1>4, <1>5, <1>6, Pushes
<1>12. CallFits(c)'
  <2>1. CallFits(b)'
    BY <1>2, <1>9, CallKept
  <2>2. StepsFit(c)
    BY <1>3, <1>11 DEF StepsFit, PushesOf
  <2>3. b.kind = "activate" => c.news = {n} /\ n.device = c.who.device /\ c.step = "pushing"
    BY <1>3, <1>11 DEF PushesOf
  <2>4. b.kind = "regenerate" => c.step = "next"
    BY <1>11 DEF PushesOf
  <2>5. c.kind = b.kind /\ c.who = b.who /\ c.row = NoId /\ c.list = b.list /\ c.todo = b.todo
    BY <1>11 DEF PushesOf
  <2>6. QED
    BY <1>3, <2>1, <2>2, <2>3, <2>4, <2>5 DEF CallFits, OfDevice
<1>13. On(c) = On(b)
  BY <1>11, OnSame DEF PushesOf
<1>14. MovesTo(h, b, c)
  BY <1>1, <1>11, <1>13, Steps DEF PushesOf
<1>15. \A e \in DeviceIds \ {d} : SameFor(e)
  BY <1>4, <1>9 DEF SameFor
<1>16. d \in On(c)
  <2>1. b.kind = "activate" => On(b) = {d}
    BY <1>5, OnFacts DEF OfDevice
  <2>2. b.kind = "regenerate" => On(b) = DeviceIds
    BY OnFacts
  <2>3. QED
    BY <1>3, <1>6, <1>13, <2>1, <2>2
<1>17. Serving(b, d)
  BY <1>3, <1>5 DEF Serving
<1>18. d \notin doubled => outcome[d] \notin {"off", "ended"}
  BY <1>2, <1>3, <1>6, <1>13, <1>16, <1>17 DEF HandFits
<1>19. d \notin doubled => OneRow(d)' /\ (IsReady(d)' <=> status = "ready")
  BY <1>6, <1>8, <1>9, <1>10, SavedIsReady
<1>20. \A e : ~Serving(c, e)
  BY <1>11 DEF PushesOf, Serving
<1>21. \A e : Listing(c, e) <=> Listing(b, e)
  BY <1>11 DEF PushesOf, Listing
<1>22. HandFits(c, d)'
  <2>1. ASSUME d \notin c.crossed PROVE Alone(c, d)'
    <3>1. Alone(b, d)
      BY <1>2, <1>6, <1>11, <1>13, <1>16, <2>1 DEF HandFits, PushesOf
    <3>2. HasNews(c, d) /\ n.device = d /\ (n.ready <=> status = "ready")
      BY <1>5, <1>11 DEF HasNews, PushesOf
    <3>3. d \notin doubled => \A m \in c.news : m.device = d => m = n
      <4>1. b.kind = "regenerate" /\ d \notin doubled => ~HasNews(b, d)
        BY <1>17, <3>1 DEF Alone
      <4>2. QED
        BY <1>3, <1>11, <4>1 DEF PushesOf, HasNews
    <3>4. b.kind = "regenerate" /\ d \notin doubled => ~Listing(c, d)
      BY <1>17, <1>21, <3>1 DEF Alone
    <3>5. c.kind = b.kind /\ c.step # "creating"
      BY <1>11 DEF PushesOf
    <3>6. QED
      BY <1>3, <1>4, <1>19, <1>20, <3>2, <3>3, <3>4, <3>5 DEF Alone
  <2>2. c.kind # "regenerate" => outcome'[d] = "open"
    BY <1>2, <1>6, <1>11, <1>13, <1>14, <1>16 DEF HandFits, PushesOf, MovesTo
  <2>3. QED
    BY <1>4, <1>14, <1>18, <2>1, <2>2 DEF HandFits, MovesTo
<1>23. ASSUME NEW e \in DeviceIds, e \in On(c), e # d PROVE HandFits(c, e)'
  <2>1. b.kind = "regenerate"
    BY <1>3, <1>5, <1>13, <1>23, OnFacts DEF OfDevice
  <2>2. ~Serving(b, e)
    BY <1>5, <1>23 DEF Serving
  <2>3. HasNews(c, e) <=> HasNews(b, e)
    BY <1>5, <1>11, <1>23 DEF HasNews, PushesOf
  <2>4. Alone(b, e) => Alone(c, e)
    BY <1>5, <1>11, <1>20, <1>21, <1>23, <2>1, <2>2, <2>3 DEF Alone, PushesOf
  <2>5. HandFits(c, e)
    BY <1>2, <1>11, <1>13, <1>20, <1>21, <1>23, <2>1, <2>4 DEF HandFits, PushesOf
  <2>6. QED
    BY <1>14, <1>15, <1>23, <2>5, HandKept DEF MovesTo
<1>24. ASSUME NEW e \in DeviceIds \cap On(c), e \notin doubled'
       PROVE  OneRow(e)' /\ (outcome[e] \in {"off", "ended"} => Closed(e)')
  <2>1. CASE e = d
    BY <1>4, <1>18, <1>19, <1>24, <2>1
  <2>2. CASE e # d
    BY <1>4, <1>9, <1>24, <2>2, ReadyKept DEF RowsInv, Stands
  <2>3. QED
    BY <2>1, <2>2
<1>25. svcStatus' \in ServiceStatus /\ doubled \subseteq doubled'
  BY <1>4 DEF RowsInv
<1>26. QED
  BY <1>9, <1>12, <1>14, <1>15, <1>16, <1>22, <1>23, <1>24, <1>25, MoveKeeps

(* revokeDeviceSnapshot saves the row as it was read, revoked.             *)
LEMMA DeviceClosed ==
  ASSUME RowsInv, NEW h \in RowHandlers, CloseDevice(h)
  PROVE  RowsInv'
<1>1. PICK b : b = rowCall[h]
  OBVIOUS
<1>2. CallFits(b) /\ \A d \in DeviceIds : HandFits(b, d)
  BY <1>1, CallUnderWay
<1>3. b \in RowCallRecords /\ b.step = "closing" /\ b.kind = "revoke" /\ Known(b.who)
      /\ b.row \in RowIds /\ RowOfDevice(b.row, b.who.device) /\ b.news = {}
      /\ b.as.device = b.who.device
  BY <1>1, <1>2 DEF CallFits, StepsFit, CloseDevice, Call
<1>4. /\ configRow' = [configRow EXCEPT ![b.row] = [b.as EXCEPT !.status = "revoked"]]
      /\ ToPush(h, "revoked")
      /\ UNCHANGED <<svcStatus, pushed, doubled, untold>>
  BY <1>1 DEF CloseDevice, SaveRow, Call
<1>5. PICK d : d = b.who.device
  OBVIOUS
<1>6. d \in DeviceIds /\ d # NoId
  BY <1>3, <1>5, DeviceRowsAssumption DEF Known, DeviceIds
<1>7. PICK y : y = b.as
  OBVIOUS
<1>8. y \in AnyRow /\ y.device = d
  BY <1>3, <1>5, <1>7 DEF RowCallRecords
<1>9. PICK x : x = [y EXCEPT !.status = "revoked"]
  OBVIOUS
<1>10. x \in AnyRow /\ x # NoDeviceRow /\ x.device = d /\ x.status = "revoked"
  <2>1. y # NoDeviceRow
    BY <1>6, <1>8 DEF NoDeviceRow
  <2>2. y = [device |-> y.device, install |-> y.install, status |-> y.status]
        /\ (Known(y) \/ (y.device = NoId /\ y.install = NoId))
    BY <1>8, <2>1, DeviceRowFacts
  <2>3. x = [device |-> y.device, install |-> y.install, status |-> "revoked"]
    BY <1>9, <2>2
  <2>4. QED
    BY <1>8, <2>2, <2>3, RowMade DEF ConfigStatus
<1>11. /\ RowsStay /\ configRow' \in [RowIds -> AnyRow] /\ configRow'[b.row] = x
       /\ \A e \in DeviceIds \ {d} : RowsSame(e)
       /\ RowsOf(d)' = RowsOf(d) \cup {b.row}
  <2>1. configRow' = [configRow EXCEPT ![b.row] = x]
    BY <1>4, <1>7, <1>9
  <2>2. HasRow(b.row) => configRow[b.row].device = x.device
    BY <1>3, <1>5, <1>10 DEF RowOfDevice
  <2>3. QED
    BY <1>3, <1>10, <2>1, <2>2, RowWritten
<1>12. b.row \in RowsOf(d)
  BY <1>3, <1>5 DEF RowOfDevice, RowsOf
<1>13. PICK c \in RowCallRecords, n \in News : Step(h, c) /\ PushesOf(b, c, n, "revoked")
  BY <1>1, <1>3, <1>4, <1>5, <1>6, Pushes
<1>14. CallFits(c)'
  <2>1. CallFits(b)'
    BY <1>2, <1>11, CallKept
  <2>2. StepsFit(c)
    BY <1>3, <1>13 DEF StepsFit, PushesOf
  <2>3. c.news = {n} /\ n.device = c.who.device /\ c.step = "pushing"
    BY <1>3, <1>13 DEF PushesOf
  <2>4. c.kind = "revoke" /\ c.who = b.who /\ c.row = NoId /\ c.list = b.list /\ c.todo = b.todo
    BY <1>3, <1>13 DEF PushesOf
  <2>5. QED
    BY <1>3, <2>1, <2>2, <2>3, <2>4 DEF CallFits, OfDevice
<1>15. On(c) = On(b) /\ On(c) = {d}
  BY <1>3, <1>5, <1>13, OnSame, OnFacts DEF PushesOf, OfDevice
<1>16. MovesTo(h, b, c)
  BY <1>1, <1>13, <1>15, Steps DEF PushesOf
<1>17. \A e \in DeviceIds \ {d} : SameFor(e)
  BY <1>4, <1>11 DEF SameFor
<1>18. outcome[d] = "open"
  BY <1>2, <1>3, <1>6, <1>15 DEF HandFits
<1>19. d \notin doubled => OneRow(d)' /\ Closed(d)' /\ ~IsReady(d)'
  BY <1>6, <1>10, <1>11, <1>12, SavedIsReady
<1>20. HandFits(c, d)'
  <2>1. c.news = {n} /\ ~n.ready /\ c.kind = "revoke" /\ c.step = "pushing"
    BY <1>3, <1>13 DEF PushesOf
  <2>2. Alone(c, d)'
    BY <1>4, <1>19, <2>1 DEF Alone
  <2>3. QED
    BY <1>16, <1>18, <2>1, <2>2 DEF HandFits, MovesTo
<1>21. svcStatus' \in ServiceStatus /\ doubled' = doubled
  BY <1>4 DEF RowsInv
<1>22. QED
  BY <1>11, <1>14, <1>15, <1>16, <1>17, <1>18, <1>19, <1>20, <1>21, MoveKeeps

(* revokeProvisionDeviceAccesses and the list of                           *)
(* syncProvisionAndDeviceSnapshots.                                        *)
LEMMA RowsListed ==
  ASSUME RowsInv, NEW h \in RowHandlers, ListRows(h)
  PROVE  RowsInv'
<1>1. PICK b : b = rowCall[h]
  OBVIOUS
<1>2. CallFits(b) /\ \A d \in DeviceIds : HandFits(b, d)
  BY <1>1, CallUnderWay
<1>3. b \in RowCallRecords /\ b.step = "listing" /\ b.kind \in {"end", "delete", "regenerate"}
      /\ b.news = {} /\ UNCHANGED <<configRow, svcStatus, pushed, doubled, untold>>
  BY <1>1, <1>2 DEF CallFits, StepsFit, ListRows, Call
<1>4. PICK listed \in SUBSET RowIds :
        listed = {r \in RowIds : HasRow(r) /\
                    (b.kind = "regenerate" => /\ configRow[r].device # NoId
                                              /\ configRow[r].status \notin {"revoked", "deleted"})}
  OBVIOUS
<1>5. PICK list : list = [r \in RowIds |-> IF r \in listed THEN configRow[r] ELSE NoDeviceRow]
  OBVIOUS
<1>6. PICK c : c = [b EXCEPT !.step = "next", !.todo = listed, !.list = list]
  OBVIOUS
<1>7. Step(h, c)
  BY <1>1, <1>4, <1>5, <1>6 DEF ListRows, Call
<1>8. list \in [RowIds -> AnyRow]
  <2>1. configRow \in [RowIds -> AnyRow] /\ NoDeviceRow \in AnyRow
    BY DEF RowsInv, AnyRow
  <2>2. QED
    BY <1>5, <2>1
<1>9. /\ c.kind = b.kind /\ c.who = b.who /\ c.row = b.row /\ c.as = b.as /\ c.list = list
      /\ c.todo = listed /\ c.news = {} /\ c.crossed = b.crossed /\ c.step = "next"
  BY <1>3, <1>6 DEF RowCallRecords
<1>10. c \in RowCallRecords
  BY <1>3, <1>4, <1>6, <1>8 DEF RowCallRecords, RowSteps
<1>11. \A r \in listed : r \in RowIds /\ HasRow(r) /\ list[r] = configRow[r]
  BY <1>4, <1>5
<1>12. CallFits(c)
  <2>1. \A r \in c.todo : c.list[r] # NoDeviceRow /\ RowOfDevice(r, c.list[r].device)
    BY <1>9, <1>11 DEF RowOfDevice, HasRow
  <2>2. c.kind = "regenerate" => \A r \in c.todo : c.list[r].device # NoId
    BY <1>4, <1>9, <1>11
  <2>3. QED
    BY <1>3, <1>9, <1>10, <2>1, <2>2 DEF CallFits, StepsFit, OfDevice
<1>13. On(c) = On(b)
  BY <1>9, OnSame
<1>14. ASSUME NEW d \in DeviceIds, d \in On(c) PROVE HandFits(c, d)
  <2>1. ~Serving(c, d) /\ ~HasNews(c, d) /\ ~HasNews(b, d)
    BY <1>3, <1>9 DEF Serving, HasNews
  <2>2. \A r \in RowsOf(d) : HasRow(r)
    <3>1. d # NoId
      BY DeviceRowsAssumption
    <3>2. QED
      BY <3>1 DEF RowsOf, HasRow, NoDeviceRow
  <2>3. b.kind \in {"end", "delete"} => \A r \in RowsOf(d) : r \in c.todo
    BY <1>4, <1>9, <2>2 DEF RowsOf
  <2>4. d \notin doubled /\ b.kind = "regenerate" /\ Listing(c, d) => outcome[d] \notin {"off", "ended"}
    <3>1. ASSUME b.kind = "regenerate", NEW r \in c.todo, c.list[r].device = d
          PROVE  r \in RowsOf(d) /\ ~Off(r)
      BY <1>4, <1>9, <1>11, <3>1 DEF RowsOf, Off
    <3>2. Stands(d)
      BY DEF RowsInv
    <3>3. QED
      BY <3>1, <3>2 DEF Stands, Closed, Listing
  <2>5. Alone(b, d) => Alone(c, d)
    BY <1>3, <1>9, <2>1, <2>3 DEF Alone
  <2>6. QED
    BY <1>2, <1>9, <1>13, <2>1, <2>4, <2>5 DEF HandFits
<1>15. MovesTo(h, b, c)
  BY <1>1, <1>7, <1>9, <1>13, Steps
<1>16. svcStatus' \in ServiceStatus
  BY <1>3 DEF RowsInv
<1>17. QED
  BY <1>3, <1>12, <1>14, <1>15, <1>16, QuietMove

(* A row of the list is closed.                                            *)
LEMMA ListedClosed ==
  ASSUME RowsInv, NEW h \in RowHandlers, NEW r \in RowIds, CloseNext(h, r)
  PROVE  RowsInv'
<1>1. PICK b : b = rowCall[h]
  OBVIOUS
<1>2. CallFits(b) /\ \A d \in DeviceIds : HandFits(b, d)
  BY <1>1, CallUnderWay
<1>3. b \in RowCallRecords /\ b.step = "next" /\ b.kind \in {"end", "delete"} /\ r \in b.todo
      /\ b.news = {} /\ RowOfDevice(r, b.list[r].device)
      /\ UNCHANGED <<svcStatus, pushed, doubled, untold>>
  BY <1>1, <1>2 DEF CallFits, StepsFit, CloseNext, Call
<1>4. PICK y : y = b.list[r]
  OBVIOUS
<1>5. y \in AnyRow /\ RowOfDevice(r, y.device)
  BY <1>3, <1>4 DEF RowCallRecords
<1>6. PICK x : x = [y EXCEPT !.status = EndWord(b.kind)]
  OBVIOUS
<1>7. configRow' = [configRow EXCEPT ![r] = x]
  BY <1>1, <1>4, <1>6 DEF CloseNext, SaveRow, Call
<1>8. PICK c : c = [b EXCEPT !.todo = @ \ {r}, !.list[r] = NoDeviceRow]
  OBVIOUS
<1>9. Step(h, c)
  BY <1>1, <1>8 DEF CloseNext, Call
<1>10. /\ c.kind = b.kind /\ c.who = b.who /\ c.row = b.row /\ c.as = b.as /\ c.step = "next"
       /\ c.todo = b.todo \ {r} /\ c.news = {} /\ c.crossed = b.crossed
       /\ c.list = [b.list EXCEPT ![r] = NoDeviceRow]
  BY <1>3, <1>8 DEF RowCallRecords
<1>11. c \in RowCallRecords
  <2>1. NoDeviceRow \in AnyRow
    BY DEF AnyRow
  <2>2. c.list \in [RowIds -> AnyRow] /\ c.todo \subseteq RowIds
    BY <1>3, <1>10, <2>1 DEF RowCallRecords
  <2>3. PICK list \in [RowIds -> AnyRow], todo \in SUBSET RowIds : list = c.list /\ todo = c.todo
    BY <2>2
  <2>4. c = [b EXCEPT !.todo = todo, !.list = list]
    BY <1>3, <1>8, <1>10, <2>3 DEF RowCallRecords
  <2>5. QED
    BY <1>3, <2>3, <2>4 DEF RowCallRecords
<1>12. \A s \in c.todo : s # r /\ s \in b.todo /\ c.list[s] = b.list[s]
  BY <1>3, <1>10 DEF RowCallRecords
<1>13. CallFits(c)
  BY <1>2, <1>3, <1>10, <1>11, <1>12 DEF CallFits, StepsFit, OfDevice
<1>14. y # NoDeviceRow
  BY <1>2, <1>3, <1>4 DEF CallFits
<1>15. x \in AnyRow /\ x # NoDeviceRow /\ x.device = y.device /\ x.status \in {"revoked", "deleted"}
  <2>1. y = [device |-> y.device, install |-> y.install, status |-> y.status]
        /\ (Known(y) \/ (y.device = NoId /\ y.install = NoId))
    BY <1>5, <1>14, DeviceRowFacts
  <2>2. PICK status : status = EndWord(b.kind)
    OBVIOUS
  <2>3. status \in {"revoked", "deleted"} /\ status \in ConfigStatus
    BY <2>2 DEF EndWord, ConfigStatus
  <2>4. x = [device |-> y.device, install |-> y.install, status |-> status]
    BY <1>6, <2>1, <2>2
  <2>5. QED
    BY <2>1, <2>3, <2>4, RowMade
<1>16. /\ RowsStay /\ configRow' \in [RowIds -> AnyRow] /\ configRow'[r] = x
       /\ \A d \in DeviceIds \ {y.device} : RowsSame(d)
       /\ RowsOf(y.device)' = RowsOf(y.device) \cup {r}
       /\ \A s \in RowsOf(y.device) : s # r => configRow'[s] = configRow[s]
  <2>1. HasRow(r) => configRow[r].device = x.device
    BY <1>5, <1>15 DEF RowOfDevice
  <2>2. QED
    BY <1>7, <1>15, <2>1, RowWritten
<1>17. On(c) = On(b) /\ On(c) = DeviceIds
  BY <1>3, <1>10, OnSame, OnFacts
<1>18. ASSUME NEW d \in DeviceIds
       PROVE  /\ RowsOf(d)' = RowsOf(d) /\ (r \in RowsOf(d) <=> d = y.device)
              /\ \A s \in RowsOf(d) : s # r => configRow'[s] = configRow[s]
  <2>1. r \in RowsOf(d) <=> d = y.device
    BY <1>5 DEF RowOfDevice, RowsOf
  <2>2. QED
    BY <1>16, <2>1 DEF RowsSame
<1>19. ASSUME NEW d \in DeviceIds
       PROVE  outcome[d] = "open" /\ HandFits(c, d)' /\ (OneRow(d) => OneRow(d)')
  <2>1. outcome[d] = "open"
    BY <1>2, <1>3, <1>17 DEF HandFits
  <2>2. ASSUME d \notin c.crossed, NEW s \in RowsOf(d)' PROVE s \in c.todo \/ Off(s)'
    <3>1. CASE s = r
      BY <1>15, <1>16, <3>1 DEF Off
    <3>2. CASE s # r
      <4>1. s \in RowsOf(d) /\ configRow'[s] = configRow[s]
        BY <1>18, <2>2, <3>2
      <4>2. s \in b.todo \/ Off(s)
        BY <1>2, <1>3, <1>10, <1>17, <2>2, <4>1 DEF HandFits, Alone
      <4>3. QED
        BY <1>10, <3>2, <4>1, <4>2 DEF Off
    <3>3. QED
      BY <3>1, <3>2
  <2>3. d \notin c.crossed => Alone(c, d)'
    BY <1>3, <1>10, <2>2 DEF Alone
  <2>4. outcome' = outcome
    BY <1>9 DEF Step
  <2>5. QED
    BY <1>3, <1>10, <1>18, <2>1, <2>3, <2>4 DEF HandFits, OneRow
<1>20. MovesTo(h, b, c)
  BY <1>1, <1>9, <1>10, <1>17, Steps
<1>21. svcStatus' \in ServiceStatus /\ doubled' = doubled
  BY <1>3 DEF RowsInv
<1>22. \A d \in DeviceIds : d \notin doubled' => OneRow(d)'
  BY <1>19, <1>21 DEF RowsInv, Stands
<1>23. CallFits(c)'
  BY <1>13, <1>16, CallKept
<1>24. QED
  BY <1>16, <1>17, <1>19, <1>20, <1>21, <1>22, <1>23, MoveKeeps

(* A regeneration turns to a device of its list.                           *)
LEMMA NextRegenerated ==
  ASSUME RowsInv, NEW h \in RowHandlers, NEW r \in RowIds, RegenerateNext(h, r)
  PROVE  RowsInv'
<1>1. PICK b : b = rowCall[h]
  OBVIOUS
<1>2. CallFits(b) /\ \A d \in DeviceIds : HandFits(b, d)
  BY <1>1, CallUnderWay
<1>3. b \in RowCallRecords /\ b.step = "next" /\ b.kind = "regenerate" /\ r \in b.todo
      /\ UNCHANGED <<configRow, svcStatus, pushed, doubled, untold>>
  BY <1>1, <1>2 DEF CallFits, RegenerateNext, Call
<1>4. PICK y : y = b.list[r]
  OBVIOUS
<1>5. y \in AnyRow /\ y # NoDeviceRow /\ RowOfDevice(r, y.device) /\ y.device # NoId
  BY <1>2, <1>3, <1>4 DEF CallFits, RowCallRecords
<1>6. PICK who : who = [device |-> y.device, install |-> y.install]
  OBVIOUS
<1>7. Known(who) /\ who \in [device : DeviceIds \cup {NoId}, install : Installs \cup {NoId}]
      /\ who.device = y.device /\ who.device \in DeviceIds
  <2>1. Known(y) /\ y.device \in DeviceIds \cup {NoId} /\ y.install \in Installs \cup {NoId}
    BY <1>5, DeviceRowFacts
  <2>2. QED
    BY <1>5, <1>6, <2>1 DEF Known
<1>8. PICK c : c = [b EXCEPT !.todo = @ \ {r}, !.list[r] = NoDeviceRow, !.step = "reading",
                      !.who = who]
  OBVIOUS
<1>9. Step(h, c)
  BY <1>1, <1>4, <1>6, <1>8 DEF RegenerateNext, Call
<1>10. /\ c.kind = b.kind /\ c.who = who /\ c.row = b.row /\ c.as = b.as /\ c.step = "reading"
       /\ c.todo = b.todo \ {r} /\ c.news = b.news /\ c.crossed = b.crossed
       /\ c.list = [b.list EXCEPT ![r] = NoDeviceRow]
  BY <1>3, <1>8 DEF RowCallRecords
<1>11. c \in RowCallRecords
  <2>1. NoDeviceRow \in AnyRow
    BY DEF AnyRow
  <2>2. c.list \in [RowIds -> AnyRow] /\ c.todo \subseteq RowIds
    BY <1>3, <1>10, <2>1 DEF RowCallRecords
  <2>3. PICK list \in [RowIds -> AnyRow], todo \in SUBSET RowIds : list = c.list /\ todo = c.todo
    BY <2>2
  <2>4. c = [b EXCEPT !.todo = todo, !.list = list, !.step = "reading", !.who = who]
    BY <1>3, <1>8, <1>10, <2>3 DEF RowCallRecords
  <2>5. "reading" \in RowSteps
    BY DEF RowSteps
  <2>6. QED
    BY <1>3, <1>7, <2>3, <2>4, <2>5 DEF RowCallRecords
<1>12. \A s \in c.todo : s # r /\ s \in b.todo /\ c.list[s] = b.list[s]
  BY <1>3, <1>10 DEF RowCallRecords
<1>13. r \in RowsOf(who.device)
  BY <1>5, <1>7 DEF RowsOf, RowOfDevice
<1>14. CallFits(c)
  BY <1>2, <1>3, <1>7, <1>10, <1>11, <1>12, <1>13 DEF CallFits, StepsFit, OfDevice
<1>15. On(c) = On(b) /\ On(c) = DeviceIds
  BY <1>3, <1>10, OnFacts
<1>16. ASSUME NEW d \in DeviceIds PROVE HandFits(c, d)
  <2>1. Serving(c, d) => d = y.device /\ Listing(b, d)
    BY <1>3, <1>4, <1>7, <1>10 DEF Serving, Listing
  <2>2. (Listing(c, d) => Listing(b, d)) /\ (HasNews(c, d) <=> HasNews(b, d))
    BY <1>10, <1>12 DEF Listing, HasNews
  <2>3. d \notin doubled /\ Serving(c, d) => ~Listing(c, d)
    <3>1. ASSUME d \notin doubled, d = y.device, NEW s \in c.todo, c.list[s].device = d
          PROVE  FALSE
      <4>1. s \in RowsOf(d)
        BY <1>2, <1>3, <1>12, <3>1 DEF CallFits, RowOfDevice, RowsOf, RowCallRecords
      <4>2. OneRow(d)
        BY <3>1 DEF RowsInv, Stands
      <4>3. QED
        BY <1>7, <1>12, <1>13, <3>1, <4>1, <4>2 DEF OneRow
    <3>2. QED
      BY <2>1, <3>1 DEF Listing
  <2>4. Alone(b, d) => Alone(c, d)
    BY <1>3, <1>10, <2>1, <2>2, <2>3 DEF Alone
  <2>5. QED
    BY <1>2, <1>3, <1>10, <1>15, <2>1, <2>2, <2>4 DEF HandFits
<1>17. MovesTo(h, b, c)
  BY <1>1, <1>9, <1>10, <1>15, Steps
<1>18. svcStatus' \in ServiceStatus
  BY <1>3 DEF RowsInv
<1>19. QED
  BY <1>3, <1>14, <1>16, <1>17, <1>18, QuietMove

(* The call goes on, and writes at most the service's status.              *)
LEMMA GoesOn ==
  ASSUME RowsInv, NEW h \in RowHandlers, NEW b, b = rowCall[h],
         NEW step \in RowSteps, NEW row \in RowIds \cup {NoId}, NEW st \in ServiceStatus, NEW c,
         c = [b EXCEPT !.step = step, !.row = row, !.st = st], Step(h, c), CallFits(b), StepsFit(c),
         b.kind \in {"delete", "pay", "end", "regenerate"}, b.kind = "delete" => b.step # "listing",
         b.kind = "end" => b.step # "listing", b.step \notin {"reading", "finding", "serving"},
         step \in {"service", "saving service"}, b.todo = {}, b.news = {},
         step = "saving service" /\ row # NoId => RowOfDevice(row, NoId),
         UNCHANGED <<configRow, pushed, doubled, untold>>, svcStatus' \in ServiceStatus
  PROVE  RowsInv'
<1>1. \A d \in DeviceIds : HandFits(b, d)
  BY CallUnderWay
<1>2. b \in RowCallRecords
  BY DEF CallFits
<1>3. /\ c.kind = b.kind /\ c.who = b.who /\ c.row = row /\ c.as = b.as /\ c.list = b.list
      /\ c.todo = b.todo /\ c.news = b.news /\ c.crossed = b.crossed /\ c.step = step
  BY <1>2 DEF RowCallRecords
<1>4. c \in RowCallRecords
  BY <1>2 DEF RowCallRecords
<1>5. CallFits(c)
  BY <1>3, <1>4 DEF CallFits, OfDevice
<1>6. On(c) = On(b)
  BY ONLY <1>3, OnSame
<1>7. ASSUME NEW d \in DeviceIds PROVE HandFits(c, d)
  <2>1. ~Serving(c, d) /\ ~Listing(c, d) /\ ~Serving(b, d)
        /\ (HasNews(c, d) <=> HasNews(b, d))
    BY <1>3 DEF Serving, Listing, HasNews
  <2>2. Alone(b, d) => Alone(c, d)
    BY <1>3, <2>1 DEF Alone
  <2>3. QED
    BY <1>1, <1>3, <1>6, <2>1, <2>2 DEF HandFits
<1>8. MovesTo(h, b, c)
  BY <1>3, <1>6, Steps
<1>9. QED
  BY <1>5, <1>7, <1>8, QuietMove

(* deleteProvisionResources and a payment write the status.                *)
LEMMA StatusWritten ==
  ASSUME RowsInv, NEW h \in RowHandlers, MarkDeleted(h) \/ SettlePayment(h)
  PROVE  RowsInv'
<1>1. PICK b : b = rowCall[h]
  OBVIOUS
<1>2. CallFits(b)
  BY <1>1, CallUnderWay
<1>3. b \in RowCallRecords
  BY <1>2 DEF CallFits
<1>4. PICK c : c = [b EXCEPT !.step = "service"]
  OBVIOUS
<1>5. PICK row \in RowIds \cup {NoId}, st \in ServiceStatus : row = b.row /\ st = b.st
  BY <1>3 DEF RowCallRecords
<1>6. c = [b EXCEPT !.step = "service", !.row = row, !.st = st]
  BY <1>3, <1>4, <1>5 DEF RowCallRecords
<1>7. /\ UNCHANGED <<configRow, pushed, doubled, untold>> /\ svcStatus' \in ServiceStatus
      /\ Step(h, c)
  BY <1>1, <1>4 DEF MarkDeleted, SettlePayment, GoesTo, Call, ServiceStatus
<1>8. \/ b.kind = "delete" /\ b.step = "next" /\ b.todo = {}
      \/ b.step = "paying"
  BY <1>1 DEF MarkDeleted, SettlePayment, ListDone, Call
<1>9. b.step = "paying" => b.kind = "pay" /\ b.todo = {}
  BY <1>2 DEF CallFits, StepsFit
<1>10. /\ b.kind \in {"delete", "pay"} /\ b.todo = {} /\ b.news = {}
       /\ b.step \in {"next", "paying"}
  BY <1>2, <1>8, <1>9 DEF CallFits
<1>11. StepsFit(c) /\ "service" \in RowSteps
  BY <1>3, <1>4, <1>8, <1>9 DEF StepsFit, RowSteps, RowCallRecords
<1>12. PICK step \in RowSteps : step = "service"
  BY <1>11
<1>13. c = [b EXCEPT !.step = step, !.row = row, !.st = st]
  BY <1>6, <1>12
<1>14. QED
  BY <1>1, <1>2, <1>7, <1>10, <1>11, <1>12, <1>13, GoesOn

(* syncProvisionSnapshot reads the service and its row.                    *)
LEMMA ServiceRowRead ==
  ASSUME RowsInv, NEW h \in RowHandlers, ReadForService(h)
  PROVE  RowsInv'
<1>1. PICK b : b = rowCall[h]
  OBVIOUS
<1>2. CallFits(b)
  BY <1>1, CallUnderWay
<1>3. b \in RowCallRecords
  BY <1>2 DEF CallFits
<1>4. b.step = "service" \/ (b.step = "next" /\ b.todo = {} /\ b.kind = "end")
  BY <1>1 DEF ReadForService, AtService, ListDone, Call
<1>5. /\ UNCHANGED <<configRow, svcStatus, pushed, doubled, untold>>
      /\ \E r \in IF ServiceRows = {} THEN {NoId} ELSE ServiceRows :
           Step(h, [b EXCEPT !.step = "saving service", !.row = r, !.st = svcStatus])
  BY <1>1 DEF ReadForService, Call
<1>6. PICK row : /\ row \in IF ServiceRows = {} THEN {NoId} ELSE ServiceRows
                 /\ Step(h, [b EXCEPT !.step = "saving service", !.row = row, !.st = svcStatus])
  BY <1>5
<1>7. row \in RowIds \cup {NoId} /\ (row # NoId => RowOfDevice(row, NoId))
  BY <1>6 DEF ServiceRows, RowOfDevice
<1>8. PICK st \in ServiceStatus : st = svcStatus
  BY DEF RowsInv
<1>9. PICK step \in RowSteps : step = "saving service"
  BY DEF RowSteps
<1>10. PICK c : c = [b EXCEPT !.step = step, !.row = row, !.st = st]
  OBVIOUS
<1>11. Step(h, c)
  BY <1>6, <1>8, <1>9, <1>10
<1>12. /\ b.kind \in {"delete", "pay", "end", "regenerate"} /\ b.todo = {} /\ b.news = {}
       /\ b.step \in {"service", "next"}
  BY <1>2, <1>4 DEF CallFits, StepsFit
<1>13. StepsFit(c)
  <2>1. c.kind = b.kind /\ c.step = "saving service"
    BY <1>3, <1>9, <1>10 DEF RowCallRecords
  <2>2. QED
    BY <1>12, <2>1 DEF StepsFit
<1>14. svcStatus' \in ServiceStatus
  BY <1>5 DEF RowsInv
<1>15. QED
  BY <1>1, <1>2, <1>5, <1>7, <1>9, <1>10, <1>11, <1>12, <1>13, <1>14, GoesOn

(* syncProvisionSnapshot saves the service's row.                          *)
LEMMA ServiceSaved ==
  ASSUME RowsInv, NEW h \in RowHandlers, SaveService(h)
  PROVE  RowsInv'
<1>1. PICK b : b = rowCall[h]
  OBVIOUS
<1>2. CallFits(b) /\ \A d \in DeviceIds : HandFits(b, d)
  BY <1>1, CallUnderWay
<1>3. b \in RowCallRecords /\ b.step = "saving service" /\ b.todo = {} /\ b.news = {}
      /\ b.kind \in {"end", "delete", "pay", "regenerate"}
  BY <1>1, <1>2 DEF CallFits, StepsFit, SaveService, Call
<1>4. PICK r : r = IF b.row = NoId THEN NewRow ELSE b.row
  OBVIOUS
<1>5. r \in RowIds /\ (HasRow(r) => configRow[r].device = NoId)
  <2>1. CASE b.row = NoId
    BY <1>1, <1>4, <2>1 DEF SaveService, RoomForRow, NewRow, Call
  <2>2. CASE b.row # NoId
    BY <1>2, <1>3, <1>4, <2>2 DEF CallFits, RowOfDevice, RowCallRecords
  <2>3. QED
    BY <2>1, <2>2
<1>6. PICK status : status = MappedStatus(b.st)
  OBVIOUS
<1>7. status \in ConfigStatus
  BY <1>6 DEF MappedStatus, ConfigStatus
<1>8. PICK who : who = [device |-> NoId, install |-> NoId]
  OBVIOUS
<1>9. PICK x : x = [device |-> who.device, install |-> who.install, status |-> status]
  OBVIOUS
<1>10. x \in AnyRow /\ x # NoDeviceRow /\ x.device = NoId
  BY <1>7, <1>8, <1>9, RowMade
<1>11. /\ configRow' = [configRow EXCEPT ![r] = x]
       /\ UNCHANGED <<svcStatus, pushed, doubled, untold>>
       /\ AfterService(h)
  BY <1>1, <1>4, <1>6, <1>8, <1>9 DEF SaveService, SaveRow, Call
<1>12. /\ RowsStay /\ configRow' \in [RowIds -> AnyRow]
       /\ \A d \in DeviceIds : SameFor(d)
  <2>1. /\ RowsStay /\ configRow' \in [RowIds -> AnyRow]
        /\ \A d \in DeviceIds \ {NoId} : RowsSame(d)
    BY <1>5, <1>10, <1>11, RowWritten
  <2>2. QED
    BY <1>11, <2>1, DeviceRowsAssumption DEF SameFor
<1>13. svcStatus' \in ServiceStatus /\ doubled' = doubled
  BY <1>11 DEF RowsInv
<1>14. \A d \in DeviceIds : d \notin doubled => OneRow(d)'
  BY <1>12, ReadyKept DEF RowsInv, Stands, SameFor
<1>15. CASE b.kind = "regenerate"
  <2>1. PICK crossed \in SUBSET DeviceIds : crossed = b.crossed
    BY <1>3 DEF RowCallRecords
  <2>2. PICK c : c = [NoRowCall EXCEPT !.kind = "regenerate", !.step = "listing", !.crossed = crossed]
    OBVIOUS
  <2>3. Step(h, c)
    BY <1>1, <1>11, <1>15, <2>1, <2>2 DEF AfterService, Call
  <2>4. "regenerate" \in RowKinds /\ "listing" \in RowSteps
    BY DEF RowKinds, RowSteps
  <2>5. c \in RowCallRecords
    BY <2>2, <2>4, NobodysCall DEF RowCallRecords
  <2>6. c.kind = "regenerate" /\ c.step = "listing" /\ c.crossed = crossed
        /\ c.todo = {} /\ c.news = {}
    BY <2>2, NobodysCall DEF RowCallRecords
  <2>7. CallFits(c)
    BY <2>5, <2>6 DEF CallFits, StepsFit, OfDevice
  <2>8. On(c) = On(b) /\ On(c) = DeviceIds
    BY <1>15, <2>6, OnFacts
  <2>9. ASSUME NEW d \in DeviceIds PROVE HandFits(c, d)
    <3>1. /\ ~Serving(c, d) /\ ~Listing(c, d) /\ ~HasNews(c, d)
          /\ ~Serving(b, d) /\ ~Listing(b, d) /\ ~HasNews(b, d)
      BY <1>3, <2>6 DEF Serving, Listing, HasNews
    <3>2. Alone(b, d) => Alone(c, d)
      BY <1>15, <2>6, <3>1 DEF Alone
    <3>3. QED
      BY <1>2, <1>15, <2>1, <2>6, <2>8, <3>1, <3>2 DEF HandFits
  <2>10. MovesTo(h, b, c)
    BY <1>1, <2>1, <2>3, <2>6, <2>8, Steps
  <2>11. \A d \in DeviceIds : HandFits(c, d)'
    BY <1>12, <2>9, <2>10, HandKept DEF MovesTo
  <2>12. CallFits(c)'
    BY <1>12, <2>7, CallKept
  <2>13. ASSUME NEW d \in DeviceIds, d \notin doubled', outcome[d] \in {"off", "ended"}
         PROVE  Closed(d)'
    BY <1>12, <1>13, <2>13, ReadyKept DEF RowsInv, Stands, SameFor
  <2>14. QED
    BY <1>12, <1>13, <1>14, <2>8, <2>10, <2>11, <2>12, <2>13, MoveKeeps
<1>16. CASE b.kind # "regenerate"
  <2>1. EndRowCall(h, "ended")
    BY <1>1, <1>11, <1>16 DEF AfterService, Call
  <2>2. EndsAs(h, b, "ended")
    BY <1>1, <2>1, EndSays
  <2>3. ASSUME NEW d \in (DeviceIds \cap On(b)) \ doubled, d \notin b.crossed
        PROVE  Closed(d)' /\ outcome'[d] = "ended"
    <3>1. b.kind \in {"end", "delete"}
      BY <1>3, <1>16, <2>3, OnFacts
    <3>2. Alone(b, d)
      BY <1>2, <2>3 DEF HandFits
    <3>3. Closed(d)
      BY <1>3, <3>1, <3>2 DEF Alone, Closed
    <3>4. QED
      BY <1>12, <1>16, <2>2, <2>3, <3>3, ReadyKept DEF EndsAs, SameFor
  <2>4. QED
    BY <1>12, <1>13, <1>14, <2>2, <2>3, EndKeeps
<1>17. QED
  BY <1>15, <1>16

(* A call is over that leaves the rows alone, and of devices on which      *)
(* nothing else was under way leaves billing what it should know.          *)
LEMMA LeavesRows ==
  ASSUME RowsInv, NEW h \in RowHandlers, NEW b, NEW result, EndsAs(h, b, result),
         UNCHANGED <<configRow, svcStatus, doubled>>,
         \A d \in DeviceIds \ On(b) :
           (d \in pushed' <=> d \in pushed) /\ (d \in untold' <=> d \in untold),
         \A d \in (DeviceIds \cap On(b)) \ doubled : d \notin b.crossed =>
           /\ b.kind # "regenerate" /\ result \in {"off", "ended"} => Closed(d)
           /\ outcome'[d] \in {"on", "off"} => InSync(d)'
  PROVE  RowsInv'
<1>1. RowsStay /\ \A d : RowsSame(d)
  BY DEF RowsStay, HasRow, RowsSame, RowsOf
<1>2. \A d \in DeviceIds \ On(b) : SameFor(d)
  BY <1>1 DEF SameFor
<1>3. ASSUME NEW d \in (DeviceIds \cap On(b)) \ doubled
      PROVE  /\ OneRow(d)'
             /\ d \notin b.crossed /\ outcome'[d] \in {"off", "ended"} => Closed(d)'
  <2>1. OneRow(d) /\ (outcome[d] \in {"off", "ended"} => Closed(d))
    BY DEF RowsInv, Stands
  <2>2. (OneRow(d)' <=> OneRow(d)) /\ (Closed(d)' <=> Closed(d))
    BY <1>1, ReadyKept
  <2>3. QED
    BY <1>3, <2>1, <2>2 DEF EndsAs
<1>4. svcStatus' \in ServiceStatus /\ configRow' \in [RowIds -> AnyRow] /\ doubled' = doubled
  BY DEF RowsInv
<1>5. QED
  BY <1>1, <1>2, <1>3, <1>4, EndKeeps

(* updateDeviceConfig, for one snapshot.                                   *)
LEMMA NewsPushed ==
  ASSUME RowsInv, NEW h \in RowHandlers, PushNext(h)
  PROVE  RowsInv'
<1>1. PICK b : b = rowCall[h]
  OBVIOUS
<1>2. CallFits(b) /\ \A d \in DeviceIds : HandFits(b, d)
  BY <1>1, CallUnderWay
<1>3. b \in RowCallRecords
  BY <1>2 DEF CallFits
<1>4. b.step = "pushing" \/ (b.step = "next" /\ b.todo = {} /\ b.kind = "regenerate")
  BY <1>1 DEF PushNext, ListDone, Call
<1>5. PICK n \in b.news :
        /\ Tell(n.device, n.ready)
        /\ IF b.news = {n} THEN EndRowCall(h, IF b.kind = "activate" THEN "on" ELSE "off")
           ELSE Step(h, [b EXCEPT !.news = @ \ {n}])
  BY <1>1 DEF PushNext, Call
<1>6. UNCHANGED <<configRow, svcStatus, doubled>>
  BY DEF PushNext
<1>7. PICK d : d = n.device
  OBVIOUS
<1>8. n \in News /\ d \in DeviceIds
  BY <1>3, <1>5, <1>7 DEF RowCallRecords, News
<1>9. pushed' = (IF n.ready THEN pushed \cup {d} ELSE pushed \ {d}) /\ untold' = untold \ {d}
  BY <1>5, <1>7 DEF Tell
<1>10. RowsStay /\ \A e : RowsSame(e)
  BY <1>6 DEF RowsStay, HasRow, RowsSame, RowsOf
<1>11. \A e \in DeviceIds \ {d} : SameFor(e)
  BY <1>6, <1>9, <1>10 DEF SameFor
<1>12. \/ /\ b.kind \in {"activate", "revoke"}
          /\ b.step = "pushing"
       \/ /\ b.kind = "regenerate"
          /\ b.step = "next"
          /\ b.todo = {}
  BY <1>2, <1>4 DEF CallFits, StepsFit
<1>13. b.kind \in {"activate", "revoke"} => On(b) = {d}
  BY <1>2, <1>5, <1>7, OnFacts DEF CallFits, OfDevice
<1>14. d \in On(b)
  <2>1. b.kind = "regenerate" => On(b) = DeviceIds
    BY OnFacts
  <2>2. QED
    BY <1>8, <1>12, <1>13, <2>1
<1>15. ASSUME d \notin b.crossed, d \notin doubled PROVE InSync(d)'
  <2>1. n.ready <=> IsReady(d)
    BY <1>2, <1>5, <1>7, <1>8, <1>14, <1>15 DEF HandFits, Alone
  <2>2. IsReady(d)' <=> IsReady(d)
    BY <1>10, ReadyKept
  <2>3. d \in pushed' <=> n.ready
    BY <1>9
  <2>4. QED
    BY <2>1, <2>2, <2>3 DEF InSync
<1>16. CASE b.news = {n}
  <2>1. PICK result : result = IF b.kind = "activate" THEN "on" ELSE "off"
    OBVIOUS
  <2>2. EndsAs(h, b, result)
    <3>1. EndRowCall(h, result)
      BY <1>5, <1>16, <2>1
    <3>2. QED
      BY <1>1, <3>1, EndSays
  <2>3. ASSUME NEW e \in (DeviceIds \cap On(b)) \ doubled, e \notin b.crossed
        PROVE  /\ b.kind # "regenerate" /\ result \in {"off", "ended"} => Closed(e)
               /\ outcome'[e] \in {"on", "off"} => InSync(e)'
    <3>1. Alone(b, e)
      BY <1>2, <2>3 DEF HandFits
    <3>2. b.kind # "regenerate" /\ result \in {"off", "ended"} => Closed(e)
      BY <1>12, <2>1, <2>3, <3>1 DEF Alone
    <3>3. CASE e = d
      BY <1>15, <2>3, <3>2, <3>3
    <3>4. CASE e # d
      <4>1. b.kind = "regenerate" /\ ~HasNews(b, e)
        BY <1>7, <1>12, <1>13, <1>16, <2>3, <3>4 DEF HasNews
      <4>2. outcome'[e] = outcome[e]
        BY <2>2, <2>3, <4>1 DEF EndsAs
      <4>3. outcome[e] \in {"on", "off"} => InSync(e)
        BY <2>3, <3>1, <4>1 DEF Alone
      <4>4. InSync(e)' <=> InSync(e)
        BY <1>10, <1>11, <2>3, <3>4, ReadyKept DEF InSync, SameFor
      <4>5. QED
        BY <3>2, <4>2, <4>3, <4>4
    <3>5. QED
      BY <3>3, <3>4
  <2>4. QED
    BY <1>6, <1>9, <1>14, <2>2, <2>3, LeavesRows
<1>17. CASE b.news # {n}
  <2>1. PICK c : c = [b EXCEPT !.news = @ \ {n}]
    OBVIOUS
  <2>2. Step(h, c)
    BY <1>5, <1>17, <2>1
  <2>3. /\ c.kind = b.kind /\ c.who = b.who /\ c.row = b.row /\ c.as = b.as /\ c.list = b.list
        /\ c.todo = b.todo /\ c.news = b.news \ {n} /\ c.crossed = b.crossed /\ c.step = b.step
    BY <1>3, <2>1 DEF RowCallRecords
  <2>4. c \in RowCallRecords
    BY <1>3, <2>1 DEF RowCallRecords
  <2>5. CallFits(c)
    BY <1>2, <1>4, <2>3, <2>4 DEF CallFits, StepsFit
  <2>6. CallFits(c)'
    BY <1>10, <2>5, CallKept
  <2>7. On(c) = On(b)
    BY <2>3, OnSame
  <2>8. MovesTo(h, b, c)
    BY <1>1, <2>2, <2>3, <2>7, Steps
  <2>9. \A e : c.kind = "regenerate" =>
               ~Serving(c, e) /\ ~Listing(c, e) /\ ~Serving(b, e)
    BY <1>12, <2>3 DEF Serving, Listing
  <2>10. ASSUME NEW e \in DeviceIds \cap On(c), e # d PROVE HandFits(c, e)'
    <3>1. HasNews(c, e) <=> HasNews(b, e)
      BY <1>7, <2>3, <2>10 DEF HasNews
    <3>2. Alone(b, e) => Alone(c, e)
      BY <1>12, <2>3, <2>9, <3>1 DEF Alone
    <3>3. HandFits(c, e)
      BY <1>2, <2>3, <2>7, <2>9, <2>10, <3>2 DEF HandFits
    <3>4. QED
      BY <1>11, <2>8, <2>10, <3>3, HandKept DEF MovesTo
  <2>11. HandFits(c, d)'
    <3>1. ASSUME d \notin c.crossed PROVE Alone(c, d)'
      <4>1. Alone(b, d)
        BY <1>2, <1>8, <1>14, <2>3, <3>1 DEF HandFits
      <4>2. (IsReady(d)' <=> IsReady(d)) /\ (Closed(d)' <=> Closed(d)) /\ doubled' = doubled
        BY <1>6, <1>10, ReadyKept
      <4>3. d \notin doubled => InSync(d)'
        BY <1>15, <2>3, <3>1
      <4>4. c.step # "creating" /\ c.kind \notin {"end", "delete"}
        BY <1>12, <2>3
      <4>5. QED
        BY <2>3, <2>9, <4>1, <4>2, <4>3, <4>4 DEF Alone
    <3>2. c.kind # "regenerate" => outcome'[d] = "open"
      BY <1>2, <1>8, <1>14, <2>3, <2>8 DEF HandFits, MovesTo
    <3>3. QED
      BY <2>9, <3>1, <3>2 DEF HandFits
  <2>12. ASSUME NEW e \in DeviceIds, e \notin doubled'
         PROVE  OneRow(e)' /\ (outcome[e] \in {"off", "ended"} => Closed(e)')
    BY <1>6, <1>10, <2>12, ReadyKept DEF RowsInv, Stands
  <2>13. svcStatus' \in ServiceStatus /\ configRow' \in [RowIds -> AnyRow] /\ doubled' = doubled
    BY <1>6 DEF RowsInv
  <2>14. QED
    BY <1>10, <1>11, <1>14, <2>6, <2>7, <2>8, <2>10, <2>11, <2>12, <2>13, MoveKeeps
<1>18. QED
  BY <1>16, <1>17

(* A regeneration has nothing to push.                                     *)
LEMMA NoNews ==
  ASSUME RowsInv, NEW h \in RowHandlers, NothingToPush(h)
  PROVE  RowsInv'
<1>1. PICK b : b = rowCall[h]
  OBVIOUS
<1>2. CallFits(b) /\ \A d \in DeviceIds : HandFits(b, d)
  BY <1>1, CallUnderWay
<1>3. b.kind = "regenerate" /\ b.news = {} /\ EndRowCall(h, "open")
      /\ UNCHANGED <<configRow, svcStatus, pushed, doubled, untold>>
  BY <1>1 DEF NothingToPush, ListDone, Call
<1>4. EndsAs(h, b, "open")
  BY <1>1, <1>3, EndSays
<1>5. ASSUME NEW d \in (DeviceIds \cap On(b)) \ doubled, d \notin b.crossed,
             outcome'[d] \in {"on", "off"}
      PROVE  InSync(d)'
  <2>1. Alone(b, d) /\ outcome'[d] = outcome[d] /\ ~HasNews(b, d)
    BY <1>2, <1>3, <1>4, <1>5 DEF HandFits, EndsAs, HasNews
  <2>2. InSync(d)
    BY <1>3, <1>5, <2>1 DEF Alone
  <2>3. RowsSame(d)
    BY <1>3 DEF RowsSame, RowsOf
  <2>4. QED
    BY <1>3, <2>2, <2>3, ReadyKept DEF InSync
<1>6. QED
  BY <1>3, <1>4, <1>5, LeavesRows

(* A statement or a push throws, or the process stops.                     *)
LEMMA CallThrown ==
  ASSUME RowsInv, NEW h \in RowHandlers, ThrowRowCall(h)
  PROVE  RowsInv'
<1>1. PICK b : b = rowCall[h]
  OBVIOUS
<1>2. CallFits(b) /\ \A d \in DeviceIds : HandFits(b, d)
  BY <1>1, CallUnderWay
<1>3. UNCHANGED <<configRow, svcStatus, pushed, doubled>>
  BY DEF ThrowRowCall
<1>4. \/ /\ \/ b.step \in {"service", "saving service"}
            \/ b.step = "next" /\ b.todo = {} /\ b.kind = "end"
         /\ b.kind # "regenerate" /\ EndRowCall(h, "ended") /\ UNCHANGED untold
      \/ EndRowCall(h, "open") /\ untold' = untold \cup On(Call(h))
  BY <1>1 DEF ThrowRowCall, AtService, ListDone, Call
<1>5. CASE /\ \/ b.step \in {"service", "saving service"}
              \/ b.step = "next" /\ b.todo = {} /\ b.kind = "end"
           /\ b.kind # "regenerate" /\ EndRowCall(h, "ended") /\ UNCHANGED untold
  <2>1. EndsAs(h, b, "ended")
    BY <1>1, <1>5, EndSays
  <2>2. ASSUME NEW d \in (DeviceIds \cap On(b)) \ doubled, d \notin b.crossed
        PROVE  Closed(d) /\ outcome'[d] = "ended"
    <3>1. Alone(b, d) /\ outcome'[d] = "ended"
      BY <1>2, <1>5, <2>1, <2>2 DEF HandFits, EndsAs
    <3>2. b.kind \in {"end", "delete", "pay"} /\ b.todo = {} /\ b.step # "listing"
      BY <1>2, <1>5 DEF CallFits, StepsFit
    <3>3. b.kind # "pay"
      BY <2>2, OnFacts
    <3>4. QED
      BY <3>1, <3>2, <3>3 DEF Alone, Closed
  <2>3. QED
    BY <1>3, <1>5, <2>1, <2>2, LeavesRows
<1>6. CASE EndRowCall(h, "open") /\ untold' = untold \cup On(Call(h))
  <2>1. EndsAs(h, b, "open")
    BY <1>1, <1>6, EndSays
  <2>2. untold' = untold \cup On(b)
    BY <1>1, <1>6 DEF On, Call
  <2>3. \A d \in On(b) : InSync(d)'
    BY <2>2 DEF InSync
  <2>4. QED
    BY <1>3, <2>1, <2>2, <2>3, LeavesRows
<1>7. QED
  BY <1>4, <1>5, <1>6

(* No device, or one that is served.                                       *)
LEMMA RowsStart == DeviceRowsInit => RowsInv
<1> SUFFICES ASSUME DeviceRowsInit PROVE RowsInv
  OBVIOUS
<1>1. /\ \A h \in RowHandlers : rowCall[h] = NoRowCall
      /\ DOMAIN rowCall = RowHandlers /\ rowCall = [h \in RowHandlers |-> rowCall[h]]
      /\ svcStatus \in ServiceStatus
  BY DEF DeviceRowsInit, ServiceStatus
<1>2. NoDeviceRow \in AnyRow
  BY DEF AnyRow
<1>3. ASSUME NEW h \in RowHandlers, NEW c, c = rowCall[h]
      PROVE  CallFits(c) /\ On(c) = {} /\ \A d \in DeviceIds : HandFits(c, d)
  <2>1. c = NoRowCall
    BY <1>1, <1>3
  <2>2. CallFits(c) /\ On(c) = {}
    BY <2>1, NobodysCall DEF CallFits, StepsFit, OfDevice
  <2>3. QED
    BY <2>2 DEF HandFits
<1>4. Crossing
  BY <1>3 DEF Crossing
<1>5. CASE NoDeviceYet
  <2>1. \A d \in DeviceIds : RowsOf(d) = {} /\ outcome[d] = "open"
    BY <1>5, DeviceRowsAssumption DEF NoDeviceYet, RowsOf, NoDeviceRow
  <2>2. \A d \in DeviceIds : Stands(d)
    BY <2>1 DEF Stands, OneRow
  <2>3. configRow \in [RowIds -> AnyRow]
    BY <1>2, <1>5 DEF NoDeviceYet
  <2>4. QED
    BY <1>1, <1>3, <1>4, <2>2, <2>3 DEF RowsInv
<1>6. ASSUME NEW who \in Identities, Served(who) PROVE RowsInv
  <2>1. PICK r \in RowIds : r = CHOOSE s \in RowIds : TRUE
    BY DeviceRowsAssumption
  <2>2. PICK x : x = [device |-> who.device, install |-> who.install, status |-> "ready"]
    OBVIOUS
  <2>3. x \in AnyRow /\ x.device = who.device /\ x.status = "ready"
    BY <2>2, RowMade DEF Known, ConfigStatus
  <2>4. configRow = [s \in RowIds |-> IF s = r THEN x ELSE NoDeviceRow]
    BY <1>6, <2>1, <2>2 DEF Served
  <2>5. configRow \in [RowIds -> AnyRow]
    BY <1>2, <2>3, <2>4
  <2>6. \A d \in DeviceIds : RowsOf(d) = IF d = who.device THEN {r} ELSE {}
    <3>1. \A d \in DeviceIds : d # NoDeviceRow.device
      BY DeviceRowsAssumption DEF NoDeviceRow
    <3>2. QED
      BY <2>3, <2>4, <3>1 DEF RowsOf
  <2>7. ASSUME NEW d \in DeviceIds PROVE Stands(d)
    <3>1. outcome[d] = (IF d = who.device THEN "on" ELSE "open") /\ pushed = {who.device}
      BY <1>6 DEF Served
    <3>2. d = who.device => IsReady(d)
      BY <2>3, <2>4, <2>6 DEF IsReady
    <3>3. OneRow(d)
      BY <2>6 DEF OneRow
    <3>4. QED
      BY <3>1, <3>2, <3>3 DEF Stands, InSync
  <2>8. QED
    BY <1>1, <1>3, <1>4, <2>5, <2>7 DEF RowsInv
<1>7. QED
  BY <1>5, <1>6 DEF DeviceRowsInit

(* The invariant, for any devices, installations, rows and handlers.       *)
LEMMA RowsInvariance == DeviceRowsSpec => []RowsInv
<1>1. RowsInv /\ [DeviceRowsNext]_deviceRowVars => RowsInv'
  <2>1. SUFFICES ASSUME RowsInv, [DeviceRowsNext]_deviceRowVars PROVE RowsInv'
    OBVIOUS
  <2>2. CASE DeviceRowsNext
    <3>1. PICK h \in RowHandlers :
      \/ \E who \in Identities, kind \in {"activate", "revoke"} : StartDeviceCall(h, kind, who)
      \/ StartEnd(h) \/ StartDelete(h) \/ StartPayment(h) \/ StartRegenerate(h)
      \/ ReadService(h) \/ FindRow(h) \/ CreateRow(h) \/ ServeDevice(h) \/ CloseDevice(h)
      \/ ListRows(h) \/ MarkDeleted(h) \/ SettlePayment(h)
      \/ \E r \in RowIds : CloseNext(h, r) \/ RegenerateNext(h, r)
      \/ ReadForService(h) \/ SaveService(h) \/ PushNext(h) \/ NothingToPush(h)
      \/ ThrowRowCall(h)
      BY <2>2 DEF DeviceRowsNext
    <3>2. QED
      BY <2>1, <3>1, CallsStart, ServiceRead, RowFound, RowCreated, DeviceServed, DeviceClosed,
         RowsListed, ListedClosed, NextRegenerated, StatusWritten, ServiceRowRead, ServiceSaved,
         NewsPushed, NoNews, CallThrown
  <2>3. CASE UNCHANGED deviceRowVars
    <3>1. UNCHANGED <<configRow, svcStatus, rowCall, pushed, outcome, doubled, untold>>
      BY <2>3 DEF deviceRowVars
    <3>2. RowsStay /\ \A d : SameFor(d)
      BY <3>1 DEF RowsStay, HasRow, SameFor, RowsSame, RowsOf
    <3>3. \A d \in DeviceIds : Stands(d)'
      <4>1. ASSUME NEW d \in DeviceIds PROVE Untouched(d)' => Untouched(d)
        BY <3>1 DEF Untouched, Call, On
      <4>2. QED
        BY <2>1, <3>1, <3>2, <4>1, StandsKept DEF RowsInv
    <3>4. ASSUME NEW h \in RowHandlers, NEW c, c = rowCall'[h]
          PROVE  CallFits(c)' /\ \A d \in DeviceIds : HandFits(c, d)'
      <4>1. c = rowCall[h]
        BY <3>1, <3>4
      <4>2. QED
        BY <2>1, <3>1, <3>2, <4>1, CallUnderWay, CallKept, HandKept
    <3>5. Crossing'
      BY <2>1, <3>1 DEF RowsInv, Crossing
    <3>6. QED
      BY <2>1, <3>1, <3>3, <3>4, <3>5 DEF RowsInv
  <2>4. QED
    BY <2>1, <2>2, <2>3
<1>2. QED
  BY <1>1, RowsStart, PTL DEF DeviceRowsSpec

(* A device's config follows the last call that no other overlapped with,  *)
(* in one row, and billing knows it, whatever handlers, regenerations and  *)
(* ends of the service interleave and break off                            *)
(* (configurator-runtime.service.ts).                                      *)
THEOREM DevicesFollowCalls == DeviceRowsSpec => []DeviceFollowsCalls
<1>1. RowsInv => DeviceFollowsCalls
  <2>1. SUFFICES ASSUME RowsInv, NEW d \in DeviceIds \ doubled
                 PROVE  /\ Cardinality(RowsOf(d)) <= 1
                        /\ outcome[d] \in {"off", "ended"} => ~IsReady(d)
                        /\ outcome[d] \in {"on", "off"} /\ d \notin untold /\ Untouched(d) =>
                             (d \in pushed <=> IsReady(d))
    BY DEF DeviceFollowsCalls
  <2>2. /\ OneRow(d)
        /\ outcome[d] \in {"off", "ended"} => Closed(d)
        /\ outcome[d] \in {"on", "off"} /\ Untouched(d) => InSync(d)
    BY <2>1 DEF RowsInv, Stands
  <2>3. Cardinality(RowsOf(d)) <= 1
    <3>1. CASE RowsOf(d) = {}
      BY <3>1, FS_EmptySet
    <3>2. CASE RowsOf(d) # {}
      <4>1. PICK r \in RowsOf(d) : RowsOf(d) = {r}
        BY <2>2, <3>2 DEF OneRow
      <4>2. QED
        BY <4>1, FS_Singleton
    <3>3. QED
      BY <3>1, <3>2
  <2>4. Closed(d) => ~IsReady(d)
    BY DEF Closed, Off, IsReady
  <2>5. QED
    BY <2>2, <2>3, <2>4 DEF InSync
<1>2. QED
  BY <1>1, RowsInvariance, PTL

Outcomes == {"open", "on", "off", "ended"}

(* Handlers are started up to the bound; what billing was told, and what   *)
(* the calls came to, is about devices.                                    *)
RowCounts ==
  /\ rowCalls \in 0 .. MaxRowCalls
  /\ outcome \in [DeviceIds -> Outcomes]
  /\ pushed \subseteq DeviceIds /\ doubled \subseteq DeviceIds /\ untold \subseteq DeviceIds

(* The devices a call under way is on, and those it has news of, are       *)
(* devices.                                                                *)
LEMMA CallsKnown ==
  ASSUME RowsInv, NEW h \in RowHandlers
  PROVE  /\ On(Call(h)) \subseteq DeviceIds
         /\ \A n \in Call(h).news : n.device \in DeviceIds
         /\ Call(h).step = "creating" => Call(h).who.device \in DeviceIds
<1>1. PICK c : c = rowCall[h]
  OBVIOUS
<1>2. CallFits(c)
  BY <1>1, CallUnderWay
<1>3. Known(c.who) => c.who.device \in DeviceIds
  BY DEF Known, DeviceIds
<1>4. On(c) \subseteq DeviceIds
  BY <1>2, OnDevices
<1>5. \A n \in c.news : n.device \in DeviceIds
  <2>1. c.news \in SUBSET News
    BY <1>2 DEF CallFits, RowCallRecords
  <2>2. QED
    BY <2>1 DEF News
<1>6. c.step = "creating" => c.who.device \in DeviceIds
  BY <1>2, <1>3 DEF CallFits
<1>7. QED
  BY <1>1, <1>4, <1>5, <1>6 DEF Call

(* A call begins, or is over.                                              *)
LEMMA CallsCounted ==
  ASSUME RowCounts, NEW h \in RowHandlers
  PROVE  /\ \A call : StartRowCall(h, call) =>
              rowCalls' \in 0 .. MaxRowCalls /\ outcome' \in [DeviceIds -> Outcomes]
         /\ \A result \in Outcomes : EndRowCall(h, result) =>
              rowCalls' = rowCalls /\ outcome' \in [DeviceIds -> Outcomes]
<1>1. ASSUME NEW call, StartRowCall(h, call)
      PROVE  rowCalls' \in 0 .. MaxRowCalls /\ outcome' \in [DeviceIds -> Outcomes]
  <2>1. rowCalls' \in 0 .. MaxRowCalls
    BY <1>1, DeviceRowsAssumption DEF StartRowCall, RowCounts
  <2>2. outcome' = IF call.kind = "regenerate" THEN outcome
                   ELSE [d \in DeviceIds |-> IF d \in On(call) THEN "open" ELSE outcome[d]]
    BY <1>1 DEF StartRowCall
  <2>3. QED
    BY <2>1, <2>2 DEF RowCounts, Outcomes
<1>2. ASSUME NEW result \in Outcomes, EndRowCall(h, result)
      PROVE  rowCalls' = rowCalls /\ outcome' \in [DeviceIds -> Outcomes]
  <2>1. outcome' = [d \in DeviceIds |->
                      IF d \notin On(Call(h)) THEN outcome[d]
                      ELSE IF d \in Call(h).crossed THEN "open"
                      ELSE IF Call(h).kind = "regenerate" THEN outcome[d]
                      ELSE result]
    BY <1>2 DEF EndRowCall
  <2>2. QED
    BY <1>2, <2>1 DEF EndRowCall, RowCounts, Outcomes
<1>3. QED
  BY <1>1, <1>2

(* The counts and histories of the rows keep their types, whatever a       *)
(* handler does, as what it holds is of known devices                      *)
(* (configurator-runtime.service.ts).                                      *)
LEMMA RowsCounted ==
  RowsInv /\ RowCounts /\ [DeviceRowsNext]_deviceRowVars => RowCounts'
<1>. SUFFICES ASSUME RowsInv, RowCounts, [DeviceRowsNext]_deviceRowVars PROVE RowCounts'
  OBVIOUS
<1>1. ASSUME NEW h \in RowHandlers,
             \/ \E who \in Identities, kind \in {"activate", "revoke"} :
                  StartDeviceCall(h, kind, who)
             \/ StartEnd(h) \/ StartDelete(h) \/ StartPayment(h) \/ StartRegenerate(h)
      PROVE  RowCounts'
  <2>1. (\E call : StartRowCall(h, call)) /\ UNCHANGED <<pushed, doubled, untold>>
    BY <1>1 DEF StartDeviceCall, StartEnd, StartDelete, StartPayment, StartRegenerate
  <2>2. QED
    BY <2>1, CallsCounted DEF RowCounts
<1>2. ASSUME NEW h \in RowHandlers,
             \/ ReadService(h) \/ FindRow(h) \/ ServeDevice(h) \/ CloseDevice(h)
             \/ ListRows(h) \/ MarkDeleted(h) \/ SettlePayment(h)
             \/ \E r \in RowIds : CloseNext(h, r) \/ RegenerateNext(h, r)
             \/ ReadForService(h)
      PROVE  RowCounts'
  <2>1. UNCHANGED <<rowCalls, outcome, pushed, doubled, untold>>
    BY <1>2 DEF ReadService, FindRow, ServeDevice, CloseDevice, ListRows, MarkDeleted,
                SettlePayment, CloseNext, RegenerateNext, ReadForService, ToPush, GoesTo, Step
  <2>2. QED
    BY <2>1 DEF RowCounts
<1>3. ASSUME NEW h \in RowHandlers, CreateRow(h) PROVE RowCounts'
  <2>1. UNCHANGED <<rowCalls, outcome, pushed, untold>> /\ Call(h).step = "creating"
    BY <1>3 DEF CreateRow, Step
  <2>2. doubled' \subseteq doubled \cup {Call(h).who.device}
    BY <1>3 DEF CreateRow
  <2>3. QED
    BY <2>1, <2>2, CallsKnown DEF RowCounts
<1>4. ASSUME NEW h \in RowHandlers, SaveService(h) PROVE RowCounts'
  <2>1. AfterService(h) /\ UNCHANGED <<pushed, doubled, untold>>
    BY <1>4 DEF SaveService
  <2>2. \/ UNCHANGED <<rowCalls, outcome>>
        \/ EndRowCall(h, "ended")
    BY <2>1 DEF AfterService, Step
  <2>3. QED
    BY <2>1, <2>2, CallsCounted DEF RowCounts, Outcomes
<1>5. ASSUME NEW h \in RowHandlers, PushNext(h) PROVE RowCounts'
  <2>1. PICK n \in Call(h).news :
          /\ Tell(n.device, n.ready)
          /\ IF Call(h).news = {n}
             THEN EndRowCall(h, IF Call(h).kind = "activate" THEN "on" ELSE "off")
             ELSE Step(h, [Call(h) EXCEPT !.news = @ \ {n}])
    BY <1>5 DEF PushNext
  <2>2. doubled' = doubled /\ n.device \in DeviceIds
    BY <1>5, CallsKnown DEF PushNext
  <2>3. pushed' \subseteq DeviceIds /\ untold' \subseteq DeviceIds
    BY <2>1, <2>2 DEF Tell, RowCounts
  <2>4. \/ UNCHANGED <<rowCalls, outcome>>
        \/ EndRowCall(h, IF Call(h).kind = "activate" THEN "on" ELSE "off")
    BY <2>1 DEF Step
  <2>5. (IF Call(h).kind = "activate" THEN "on" ELSE "off") \in Outcomes
    BY DEF Outcomes
  <2>6. QED
    BY <2>2, <2>3, <2>4, <2>5, CallsCounted DEF RowCounts
<1>6. ASSUME NEW h \in RowHandlers, NothingToPush(h) PROVE RowCounts'
  <2>1. EndRowCall(h, "open") /\ UNCHANGED <<pushed, doubled, untold>>
    BY <1>6 DEF NothingToPush
  <2>2. QED
    BY <2>1, CallsCounted DEF RowCounts, Outcomes
<1>7. ASSUME NEW h \in RowHandlers, ThrowRowCall(h) PROVE RowCounts'
  <2>1. /\ EndRowCall(h, "ended") \/ EndRowCall(h, "open")
        /\ untold' \subseteq untold \cup On(Call(h)) /\ UNCHANGED <<pushed, doubled>>
    BY <1>7 DEF ThrowRowCall
  <2>2. QED
    BY <2>1, CallsCounted, CallsKnown DEF RowCounts, Outcomes
<1>8. CASE UNCHANGED deviceRowVars
  BY <1>8 DEF deviceRowVars, RowCounts
<1>9. QED
  BY <1>1, <1>2, <1>3, <1>4, <1>5, <1>6, <1>7, <1>8 DEF DeviceRowsNext

(* No device, or one that is served.                                       *)
LEMMA CountsStartAt == DeviceRowsInit => RowCounts
<1>1. ASSUME DeviceRowsInit, NoDeviceYet PROVE RowCounts
  BY <1>1, DeviceRowsAssumption DEF DeviceRowsInit, NoDeviceYet, RowCounts, Outcomes
<1>2. ASSUME DeviceRowsInit, NEW who \in Identities, Served(who) PROVE RowCounts
  <2>1. who.device \in DeviceIds
    BY DEF DeviceIds
  <2>2. outcome \in [DeviceIds -> Outcomes] /\ pushed \subseteq DeviceIds
    BY <1>2, <2>1 DEF Served, Outcomes
  <2>3. QED
    BY <1>2, <2>2, DeviceRowsAssumption DEF DeviceRowsInit, RowCounts
<1>3. QED
  BY <1>1, <1>2 DEF DeviceRowsInit

(* A row of device_configs names a device in use or none, a handler is     *)
(* always at one of its steps, and what is told billing is about devices   *)
(* (configurator-runtime.service.ts).                                      *)
THEOREM DeviceRowsTypeCorrect == DeviceRowsSpec => []DeviceRowsTypeOK
<1>1. RowsInv /\ RowCounts => DeviceRowsTypeOK
  <2>. SUFFICES ASSUME RowsInv, RowCounts PROVE DeviceRowsTypeOK
    OBVIOUS
  <2>1. AnyRow \subseteq ConfigRows \cup {NoDeviceRow}
    <3>1. ASSUME NEW who \in Identities \cup {NoRowCall.who}, NEW status \in ConfigStatus
          PROVE  [device |-> who.device, install |-> who.install, status |-> status] \in ConfigRows
      BY <3>1 DEF ConfigRows, DeviceIds, Installs, NoRowCall
    <3>2. QED
      BY <3>1 DEF AnyRow
  <2>2. configRow \in [RowIds -> ConfigRows \cup {NoDeviceRow}]
    BY <2>1 DEF RowsInv
  <2>3. ASSUME NEW h \in RowHandlers
        PROVE  /\ rowCall[h].step \in RowSteps
               /\ rowCall[h].todo \subseteq RowIds /\ rowCall[h].crossed \subseteq DeviceIds
    <3>1. PICK c : c = rowCall[h]
      OBVIOUS
    <3>2. c \in RowCallRecords
      BY <3>1, CallUnderWay DEF CallFits
    <3>3. c.step \in RowSteps /\ c.todo \in SUBSET RowIds /\ c.crossed \in SUBSET DeviceIds
      BY ONLY <3>2 DEF RowCallRecords
    <3>4. QED
      BY <3>1, <3>3
  <2>4. QED
    BY <2>2, <2>3 DEF RowsInv, RowCounts, Outcomes, RowSteps, DeviceRowsTypeOK
<1>2. QED
  BY <1>1, CountsStartAt, RowsCounted, RowsInvariance, PTL DEF DeviceRowsSpec
-----------------------------------------------------------------------------
(* Plans and the rows that name them.                                      *)

WorkerSteps == {"resolving", "syncing", "marking", "activating", "changing", "failing"}
Savings == [step : {"saving"}, id : PlanIds, row : PlanRows]
Deletions == [step : {"counting", "detaching", "removing"}, id : PlanIds]

PlanInv == PlanTypeOK /\ ActiveHasPlan

(* What a call is follows from its step.                                   *)
LEMMA PlanCallFacts ==
  ASSUME PlanTypeOK, NEW c \in PlanCalls
  PROVE  /\ planCall[c].step \in WorkerSteps => planCall[c] \in WorkerCalls
         /\ planCall[c].step = "saving" => planCall[c] \in Savings
         /\ planCall[c].step \in {"counting", "detaching", "removing"} =>
              planCall[c] \in Deletions
<1>1. \/ planCall[c] = NoPlanCall \/ planCall[c] \in WorkerCalls
      \/ planCall[c] \in Savings \/ planCall[c] \in Deletions
  BY DEF PlanTypeOK, OperatorCalls, Savings, Deletions
<1>2. /\ planCall[c] = NoPlanCall => planCall[c].step = "none"
      /\ planCall[c] \in WorkerCalls => planCall[c].step \in WorkerSteps
      /\ planCall[c] \in Savings => planCall[c].step = "saving"
      /\ planCall[c] \in Deletions =>
           planCall[c].step \in {"counting", "detaching", "removing"}
  BY DEF NoPlanCall, WorkerCalls, WorkerSteps, Savings, Deletions
<1>3. QED
  BY <1>1, <1>2 DEF WorkerSteps

(* A call's table stays typed when one call begins, moves on or ends.      *)
LEMMA CallTyped ==
  ASSUME PlanTypeOK, NEW c \in PlanCalls, NEW call,
         call \in {NoPlanCall} \cup WorkerCalls \cup OperatorCalls,
         planCall' = [planCall EXCEPT ![c] = call]
  PROVE  planCall' \in [PlanCalls -> {NoPlanCall} \cup WorkerCalls \cup OperatorCalls]
BY DEF PlanTypeOK

LEMMA StartFacts ==
  ASSUME PlanTypeOK, NEW c \in PlanCalls, NEW call,
         call \in {NoPlanCall} \cup WorkerCalls \cup OperatorCalls,
         OpenCall(c, call)
  PROVE  /\ planCall' \in [PlanCalls -> {NoPlanCall} \cup WorkerCalls \cup OperatorCalls]
         /\ begun' \in 0 .. MaxPlanCalls
<1>1. planCall' = [planCall EXCEPT ![c] = call]
  BY DEF OpenCall
<1>2. begun' \in 0 .. MaxPlanCalls
  BY PlanAssumption DEF OpenCall, PlanTypeOK, PlanAssumption
<1>3. QED
  BY <1>1, <1>2, CallTyped

LEMMA OverFacts ==
  ASSUME PlanTypeOK, NEW c \in PlanCalls, Over(c)
  PROVE  /\ planCall' \in [PlanCalls -> {NoPlanCall} \cup WorkerCalls \cup OperatorCalls]
         /\ begun' \in 0 .. MaxPlanCalls
BY CallTyped DEF Over, PlanTypeOK

LEMMA OnToFacts ==
  ASSUME PlanTypeOK, NEW c \in PlanCalls, NEW step, OnTo(c, step),
         \/ planCall[c] \in WorkerCalls /\ step \in WorkerSteps
         \/ planCall[c] \in Deletions /\ step \in {"counting", "detaching", "removing"}
  PROVE  /\ planCall' \in [PlanCalls -> {NoPlanCall} \cup WorkerCalls \cup OperatorCalls]
         /\ begun' \in 0 .. MaxPlanCalls
<1> DEFINE call == [planCall[c] EXCEPT !.step = step]
<1>1. planCall' = [planCall EXCEPT ![c] = call] /\ UNCHANGED begun
  BY DEF OnTo
<1>2. CASE planCall[c] \in WorkerCalls /\ step \in WorkerSteps
  <2>1. call \in WorkerCalls
    BY <1>2 DEF WorkerCalls, WorkerSteps
  <2>2. QED
    BY <2>1, <1>1, CallTyped DEF PlanTypeOK
<1>3. CASE planCall[c] \in Deletions /\ step \in {"counting", "detaching", "removing"}
  <2>1. call \in OperatorCalls
    BY <1>3 DEF Deletions, OperatorCalls
  <2>2. QED
    BY <2>1, <1>1, CallTyped DEF PlanTypeOK
<1>4. QED
  BY <1>2, <1>3

(* Where a call goes when an awaited call throws.                          *)
LEMMA ThrownFacts ==
  ASSUME PlanTypeOK, NEW c \in PlanCalls, planCall[c] \in WorkerCalls, Thrown(c)
  PROVE  /\ planCall' \in [PlanCalls -> {NoPlanCall} \cup WorkerCalls \cup OperatorCalls]
         /\ begun' \in 0 .. MaxPlanCalls
BY OverFacts, OnToFacts DEF Thrown, WorkerSteps

(* A row saved is a stored row, and no other plan changes.                 *)
LEMMA SavedFacts ==
  ASSUME PlanTypeOK, NEW p \in PlanIds, NEW row \in PlanRows,
         plan' = [plan EXCEPT ![p] = Saved(row)]
  PROVE  /\ plan' \in [PlanIds -> PlanRows]
         /\ \A q \in PlanIds : Stored(q) => Stored(q)'
BY DEF PlanTypeOK, PlanRows, PlanStates, Saved, Stored

(* The table of plans only gains stored plans, and no row of provisions    *)
(* changes.                                                                *)
LEMMA ActiveKept ==
  ASSUME PlanInv, UNCHANGED provision,
         \A q \in PlanIds : Stored(q) => Stored(q)'
  PROVE  ActiveHasPlan'
BY DEF PlanInv, PlanTypeOK, ProvisionRows, ActiveHasPlan

(* One row is written with a status and a plan that go together.           *)
LEMMA PlanRowWritten ==
  ASSUME PlanInv, NEW c \in PlanCalls, planCall[c] \in WorkerCalls, UNCHANGED plan,
         NEW status \in {"pending", "provisioning", "active", "failed", "ended",
                         "deleted", "none"},
         NEW p \in PlanIds \cup {Absent},
         ~planCall[c].purged =>
           /\ status = "active" => p # Absent
           /\ p # Absent => Stored(p),
         WriteRow(c, status, p)
  PROVE  /\ provision' \in [Subscribers -> ProvisionRows]
         /\ ActiveHasPlan'
<1>1. CASE planCall[c].purged
  BY <1>1 DEF WriteRow, PlanInv, PlanTypeOK, ActiveHasPlan, Stored
<1>2. CASE ~planCall[c].purged
  <2> DEFINE s == planCall[c].sub
  <2>1. s \in Subscribers
    BY DEF WorkerCalls
  <2>2. provision' = [provision EXCEPT ![s] = [status |-> status, plan |-> p]]
    BY <1>2 DEF WriteRow
  <2>3. [status |-> status, plan |-> p] \in ProvisionRows
    BY DEF ProvisionRows
  <2>4. provision' \in [Subscribers -> ProvisionRows]
    BY <2>1, <2>2, <2>3 DEF PlanInv, PlanTypeOK
  <2>5. /\ provision'[s] = [status |-> status, plan |-> p]
        /\ \A r \in Subscribers \ {s} : provision'[r] = provision[r]
    BY <2>1, <2>2 DEF PlanInv, PlanTypeOK
  <2>6. QED
    BY <1>2, <2>1, <2>4, <2>5 DEF PlanInv, ActiveHasPlan, Stored
<1>3. QED
  BY <1>1, <1>2

LEMMA NamedFacts ==
  ASSUME PlanInv, NEW c \in PlanCalls, planCall[c] \in WorkerCalls
  PROVE  /\ PlanNamed(c) \in PlanIds \cup {Absent}
         /\ PlanNamed(c) # Absent => Stored(PlanNamed(c))
         /\ StatusOf(c) \in {"pending", "provisioning", "active", "failed", "ended",
                             "deleted", "none"}
         /\ planCall[c].id \in PlanIds /\ planCall[c].id # Absent
         /\ planCall[c].row \in PlanRows
BY PlanAssumption
   DEF PlanAssumption, PlanInv, PlanTypeOK, ActiveHasPlan, PlanNamed, StatusOf,
       WorkerCalls, ProvisionRows
-----------------------------------------------------------------------------
(* The worker's calls.                                                     *)
LEMMA StartsKeep ==
  ASSUME PlanInv, NEW c \in PlanCalls, NEW s \in Subscribers, NEW p \in PlanIds,
         NEW n \in DeviceLimits, Pay(c, s, p, n) \/ ChangePlan(c, s, p, n)
  PROVE  PlanInv'
<1>1. \A change \in BOOLEAN :
        [step |-> "resolving", change |-> change, sub |-> s, id |-> p,
         row |-> plan[p], limit |-> n, purged |-> FALSE] \in WorkerCalls
  BY DEF WorkerCalls, PlanInv, PlanTypeOK
<1>2. /\ planCall' \in [PlanCalls -> {NoPlanCall} \cup WorkerCalls \cup OperatorCalls]
      /\ begun' \in 0 .. MaxPlanCalls /\ UNCHANGED plan
  BY <1>1, StartFacts DEF Pay, ChangePlan, PlanInv
<1>3. CASE UNCHANGED provision
  BY <1>2, <1>3, ActiveKept DEF PlanInv, PlanTypeOK, Stored
<1>4. CASE provision' = [provision EXCEPT ![s] = [status |-> "pending", plan |-> Absent]]
  <2>1. [status |-> "pending", plan |-> Absent] \in ProvisionRows
    BY DEF ProvisionRows
  <2>2. provision' \in [Subscribers -> ProvisionRows]
    BY <1>4, <2>1 DEF PlanInv, PlanTypeOK
  <2>3. ActiveHasPlan'
    BY <1>2, <1>4 DEF PlanInv, PlanTypeOK, ActiveHasPlan, Stored
  <2>4. QED
    BY <1>2, <2>2, <2>3 DEF PlanInv, PlanTypeOK
<1>5. QED
  BY <1>3, <1>4 DEF Pay, ChangePlan

LEMMA ResolveKeeps ==
  ASSUME PlanInv, NEW c \in PlanCalls, Resolve(c)
  PROVE  PlanInv'
<1> DEFINE p == planCall[c].id
<1>1. planCall[c] \in WorkerCalls
  BY PlanCallFacts DEF Resolve, WorkerSteps, PlanInv
<1>2. UNCHANGED <<plan, provision>>
  BY DEF Resolve
<1>3. CASE Stored(p)
  <2> DEFINE step == IF plan[p].limit = planCall[c].limit THEN AfterSync(c) ELSE "syncing"
             row == [plan[p] EXCEPT !.limit = planCall[c].limit]
             call == [[planCall[c] EXCEPT !.row = row] EXCEPT !.step = step]
  <2>1. row \in PlanRows /\ step \in WorkerSteps
    BY <1>1 DEF PlanInv, PlanTypeOK, WorkerCalls, PlanRows, WorkerSteps, AfterSync
  <2>2. call \in WorkerCalls
    BY <1>1, <2>1 DEF WorkerCalls, WorkerSteps
  <2>3. /\ planCall' = [planCall EXCEPT ![c].row = row, ![c].step = step]
        /\ UNCHANGED begun
    BY <1>3 DEF Resolve
  <2>4. planCall' = [planCall EXCEPT ![c] = call]
    BY <2>3 DEF PlanInv, PlanTypeOK
  <2>5. QED
    BY <1>2, <2>2, <2>3, <2>4, CallTyped, ActiveKept DEF PlanInv, PlanTypeOK, Stored
<1>4. CASE ~Stored(p)
  <2>1. Thrown(c)
    BY <1>4 DEF Resolve
  <2>2. QED
    BY <1>1, <1>2, <2>1, ThrownFacts, ActiveKept DEF PlanInv, PlanTypeOK, Stored
<1>5. QED
  BY <1>3, <1>4

LEMMA PlanSyncKeeps ==
  ASSUME PlanInv, NEW c \in PlanCalls, SyncLimit(c)
  PROVE  PlanInv'
<1>1. planCall[c] \in WorkerCalls
  BY PlanCallFacts DEF SyncLimit, WorkerSteps, PlanInv
<1>2. /\ plan' \in [PlanIds -> PlanRows]
      /\ \A q \in PlanIds : Stored(q) => Stored(q)'
  BY <1>1, NamedFacts, SavedFacts DEF SyncLimit, PlanInv
<1>3. /\ planCall' \in [PlanCalls -> {NoPlanCall} \cup WorkerCalls \cup OperatorCalls]
      /\ begun' \in 0 .. MaxPlanCalls
  BY <1>1, OnToFacts DEF SyncLimit, AfterSync, WorkerSteps, PlanInv
<1>4. QED
  BY <1>2, <1>3, ActiveKept DEF SyncLimit, PlanInv, PlanTypeOK

LEMMA WritesKeep ==
  ASSUME PlanInv, NEW c \in PlanCalls,
         MarkProvisioning(c) \/ MarkActive(c) \/ NamePlan(c) \/ MarkFailed(c)
  PROVE  PlanInv'
<1>1. planCall[c] \in WorkerCalls
  BY PlanCallFacts
     DEF MarkProvisioning, MarkActive, NamePlan, MarkFailed, WorkerSteps, PlanInv
<1>2. UNCHANGED plan
  BY DEF MarkProvisioning, MarkActive, NamePlan, MarkFailed
<1>3. /\ planCall' \in [PlanCalls -> {NoPlanCall} \cup WorkerCalls \cup OperatorCalls]
      /\ begun' \in 0 .. MaxPlanCalls
  BY <1>1, OnToFacts, OverFacts
     DEF MarkProvisioning, MarkActive, NamePlan, MarkFailed, WorkerSteps, PlanInv
<1>4. provision' \in [Subscribers -> ProvisionRows] /\ ActiveHasPlan'
  <2>1. CASE UNCHANGED provision
    BY <1>2, <2>1, ActiveKept DEF PlanInv, PlanTypeOK, Stored
  <2>2. CASE WriteRow(c, "provisioning", PlanNamed(c))
    BY <1>1, <1>2, <2>2, NamedFacts, PlanRowWritten
  <2>3. CASE WriteRow(c, "failed", PlanNamed(c))
    BY <1>1, <1>2, <2>3, NamedFacts, PlanRowWritten
  <2>4. CASE /\ planCall[c].purged \/ Stored(planCall[c].id)
             /\ WriteRow(c, "active", planCall[c].id)
    BY <1>1, <1>2, <2>4, NamedFacts, PlanRowWritten
  <2>5. CASE Stored(planCall[c].id) /\ WriteRow(c, StatusOf(c), planCall[c].id)
    BY <1>1, <1>2, <2>5, NamedFacts, PlanRowWritten
  <2>6. QED
    BY <2>1, <2>2, <2>3, <2>4, <2>5
       DEF MarkProvisioning, MarkActive, NamePlan, MarkFailed
<1>5. QED
  BY <1>2, <1>3, <1>4 DEF PlanInv, PlanTypeOK

LEMMA ThrowKeeps ==
  ASSUME PlanInv, NEW c \in PlanCalls, Throw(c)
  PROVE  PlanInv'
<1>1. planCall[c] \in WorkerCalls
  BY PlanCallFacts DEF Throw, WorkerSteps, PlanInv
<1>2. QED
  BY <1>1, ThrownFacts, ActiveKept DEF Throw, PlanInv, PlanTypeOK, Stored

(* Ends, deletions and the purge.                                          *)
LEMMA ServicesKeep ==
  ASSUME PlanInv, NEW s \in Subscribers,
         EndService(s) \/ DeleteService(s) \/ PurgeService(s)
  PROVE  PlanInv'
<1>1. provision[s] \in ProvisionRows
  BY DEF PlanInv, PlanTypeOK
<1>2. CASE EndService(s) \/ DeleteService(s)
  <2>1. PICK status \in {"ended", "deleted"} :
          /\ provision' = [provision EXCEPT ![s].status = status]
          /\ UNCHANGED <<plan, planCall, begun>>
    BY <1>2 DEF EndService, DeleteService
  <2>2. [provision[s] EXCEPT !.status = status] \in ProvisionRows
    BY <1>1 DEF ProvisionRows
  <2>3. /\ provision' \in [Subscribers -> ProvisionRows]
        /\ provision'[s].status = status /\ provision'[s].plan = provision[s].plan
        /\ \A r \in Subscribers \ {s} : provision'[r] = provision[r]
    BY <1>1, <2>1, <2>2 DEF PlanInv, PlanTypeOK, ProvisionRows
  <2>4. ActiveHasPlan'
    BY <2>1, <2>3 DEF PlanInv, ActiveHasPlan, Stored
  <2>5. QED
    BY <2>1, <2>3, <2>4 DEF PlanInv, PlanTypeOK
<1>3. CASE PurgeService(s)
  <2>1. /\ provision' = [provision EXCEPT ![s] = NoProvision]
        /\ UNCHANGED <<plan, begun>>
        /\ planCall' = [c \in PlanCalls |->
             IF planCall[c] \in WorkerCalls /\ planCall[c].sub = s
             THEN [planCall[c] EXCEPT !.purged = TRUE] ELSE planCall[c]]
    BY <1>3 DEF PurgeService
  <2>2. \A c \in PlanCalls :
          planCall[c] \in WorkerCalls =>
            [planCall[c] EXCEPT !.purged = TRUE] \in WorkerCalls
    BY DEF WorkerCalls
  <2>3. planCall' \in [PlanCalls -> {NoPlanCall} \cup WorkerCalls \cup OperatorCalls]
    BY <2>1, <2>2 DEF PlanInv, PlanTypeOK
  <2>4. NoProvision \in ProvisionRows
    BY DEF NoProvision, ProvisionRows
  <2>5. provision' \in [Subscribers -> ProvisionRows]
    BY <2>1, <2>4 DEF PlanInv, PlanTypeOK
  <2>6. ActiveHasPlan'
    BY <2>1 DEF PlanInv, PlanTypeOK, ActiveHasPlan, NoProvision, Stored
  <2>7. QED
    BY <2>1, <2>3, <2>5, <2>6 DEF PlanInv, PlanTypeOK
<1>4. QED
  BY <1>2, <1>3
-----------------------------------------------------------------------------
(* The operators' calls.                                                   *)
LEMMA EditsKeep ==
  ASSUME PlanInv
  PROVE  /\ \A p \in PlanIds : CreatePlan(p) => PlanInv'
         /\ \A c \in PlanCalls, p \in PlanIds : EditPlan(c, p) => PlanInv'
         /\ \A c \in PlanCalls : SavePlan(c) => PlanInv'
<1>1. ASSUME NEW p \in PlanIds, CreatePlan(p) PROVE PlanInv'
  <2>1. PICK row \in StoredRows : plan' = [plan EXCEPT ![p] = row]
    BY <1>1 DEF CreatePlan
  <2>2. row \in PlanRows /\ row.state = "stored"
    BY DEF StoredRows, PlanRows, PlanStates
  <2>3. /\ plan' \in [PlanIds -> PlanRows]
        /\ \A q \in PlanIds : Stored(q) => Stored(q)'
    BY <2>1, <2>2 DEF PlanInv, PlanTypeOK, Stored
  <2>4. QED
    BY <1>1, <2>3, ActiveKept DEF CreatePlan, PlanInv, PlanTypeOK
<1>2. ASSUME NEW c \in PlanCalls, NEW p \in PlanIds, EditPlan(c, p) PROVE PlanInv'
  <2>1. PICK row \in StoredRows : OpenCall(c, [step |-> "saving", id |-> p, row |-> row])
    BY <1>2 DEF EditPlan
  <2>2. [step |-> "saving", id |-> p, row |-> row] \in OperatorCalls
    BY DEF OperatorCalls, StoredRows, PlanRows, PlanStates
  <2>3. QED
    BY <1>2, <2>1, <2>2, StartFacts, ActiveKept
       DEF EditPlan, PlanInv, PlanTypeOK, Stored
<1>3. ASSUME NEW c \in PlanCalls, SavePlan(c) PROVE PlanInv'
  <2>1. planCall[c].id \in PlanIds /\ planCall[c].row \in PlanRows
    BY <1>3, PlanCallFacts DEF SavePlan, Savings, PlanInv
  <2>2. /\ plan' \in [PlanIds -> PlanRows]
        /\ \A q \in PlanIds : Stored(q) => Stored(q)'
    BY <1>3, <2>1, SavedFacts DEF SavePlan, PlanInv
  <2>3. QED
    BY <1>3, <2>2, OverFacts, ActiveKept DEF SavePlan, PlanInv, PlanTypeOK
<1>4. QED
  BY <1>1, <1>2, <1>3

LEMMA DeletionsKeep ==
  ASSUME PlanInv, NEW c \in PlanCalls
  PROVE  /\ \A p \in PlanIds : DeletePlan(c, p) => PlanInv'
         /\ CountRows(c) => PlanInv'
         /\ DetachRows(c) => PlanInv'
         /\ RemovePlan(c) => PlanInv'
<1>1. ASSUME NEW p \in PlanIds, DeletePlan(c, p) PROVE PlanInv'
  <2>1. [step |-> "counting", id |-> p] \in OperatorCalls
    BY DEF OperatorCalls
  <2>2. QED
    BY <1>1, <2>1, StartFacts, ActiveKept DEF DeletePlan, PlanInv, PlanTypeOK, Stored
<1>2. ASSUME CountRows(c) PROVE PlanInv'
  <2>1. planCall[c] \in Deletions
    BY <1>2, PlanCallFacts DEF CountRows, PlanInv
  <2>2. QED
    BY <1>2, <2>1, OverFacts, OnToFacts, ActiveKept
       DEF CountRows, PlanInv, PlanTypeOK, Stored
<1>3. ASSUME DetachRows(c) PROVE PlanInv'
  <2> DEFINE p == planCall[c].id
  <2>1. planCall[c] \in Deletions
    BY <1>3, PlanCallFacts DEF DetachRows, PlanInv
  <2>2. /\ planCall' \in [PlanCalls -> {NoPlanCall} \cup WorkerCalls \cup OperatorCalls]
        /\ begun' \in 0 .. MaxPlanCalls /\ UNCHANGED plan
    BY <1>3, <2>1, OnToFacts DEF DetachRows, PlanInv
  <2>3. provision' = Detached(p)
    BY <1>3 DEF DetachRows
  <2>4. ASSUME NEW s \in Subscribers
        PROVE  /\ provision'[s] \in ProvisionRows
               /\ \/ provision'[s] = provision[s]
                  \/ provision'[s].plan = Absent /\ provision'[s].status = "deleted"
    BY <2>3 DEF Detached, PlanInv, PlanTypeOK, ProvisionRows
  <2>5. provision' \in [Subscribers -> ProvisionRows]
    BY <2>3, <2>4 DEF Detached
  <2>6. ActiveHasPlan'
    BY <2>2, <2>4 DEF PlanInv, ActiveHasPlan, Stored
  <2>7. QED
    BY <2>2, <2>5, <2>6 DEF PlanInv, PlanTypeOK
<1>4. ASSUME RemovePlan(c) PROVE PlanInv'
  <2> DEFINE p == planCall[c].id
  <2>1. p \in PlanIds
    BY <1>4, PlanCallFacts DEF RemovePlan, Deletions, PlanInv
  <2>2. /\ planCall' \in [PlanCalls -> {NoPlanCall} \cup WorkerCalls \cup OperatorCalls]
        /\ begun' \in 0 .. MaxPlanCalls /\ UNCHANGED provision
    BY <1>4, OverFacts DEF RemovePlan, PlanInv
  <2>3. CASE Removable(p)
    <3>1. plan' = [plan EXCEPT ![p].state = "removed"]
      BY <1>4, <2>3 DEF RemovePlan
    <3>2. [plan[p] EXCEPT !.state = "removed"] \in PlanRows
      BY <2>1 DEF PlanInv, PlanTypeOK, PlanRows, PlanStates
    <3>3. /\ plan' \in [PlanIds -> PlanRows]
          /\ \A q \in PlanIds \ {p} : plan'[q] = plan[q]
      BY <2>1, <3>1, <3>2 DEF PlanInv, PlanTypeOK
    <3>4. ActiveHasPlan'
      BY <2>2, <2>3, <3>3
         DEF PlanInv, PlanTypeOK, ProvisionRows, ActiveHasPlan, Removable, Stored
    <3>5. QED
      BY <2>2, <3>3, <3>4 DEF PlanInv, PlanTypeOK
  <2>4. CASE ~Removable(p)
    <3>1. UNCHANGED plan
      BY <1>4, <2>4 DEF RemovePlan
    <3>2. QED
      BY <2>2, <3>1, ActiveKept DEF PlanInv, PlanTypeOK, Stored
  <2>5. QED
    BY <2>3, <2>4
<1>5. QED
  BY <1>1, <1>2, <1>3, <1>4
-----------------------------------------------------------------------------
LEMMA InitEstablishes ==
  ASSUME PlanInit
  PROVE  PlanInv
<1>1. UnusedRow \in PlanRows /\ NoProvision \in ProvisionRows /\ 0 \in 0 .. MaxPlanCalls
  BY PlanAssumption
     DEF PlanAssumption, UnusedRow, PlanRows, PlanStates, NoProvision, ProvisionRows
<1>2. PlanTypeOK
  BY <1>1 DEF PlanInit, PlanTypeOK
<1>3. ActiveHasPlan
  BY DEF PlanInit, ActiveHasPlan, NoProvision
<1>4. QED
  BY <1>2, <1>3 DEF PlanInv

LEMMA NextKeeps ==
  ASSUME PlanInv, [PlanNext]_planVars
  PROVE  PlanInv'
<1>1. CASE UNCHANGED planVars
  BY <1>1 DEF planVars, PlanInv, PlanTypeOK, ActiveHasPlan, Stored
<1>2. ASSUME NEW c \in PlanCalls, NEW s \in Subscribers, NEW p \in PlanIds,
             NEW n \in DeviceLimits, Pay(c, s, p, n) \/ ChangePlan(c, s, p, n)
      PROVE  PlanInv'
  BY <1>2, StartsKeep
<1>3. ASSUME NEW c \in PlanCalls,
             \/ Resolve(c) \/ SyncLimit(c) \/ MarkProvisioning(c) \/ MarkActive(c)
             \/ NamePlan(c) \/ Throw(c) \/ MarkFailed(c)
      PROVE  PlanInv'
  BY <1>3, ResolveKeeps, PlanSyncKeeps, WritesKeep, ThrowKeeps
<1>4. ASSUME NEW c \in PlanCalls,
             \/ \E p \in PlanIds : EditPlan(c, p) \/ DeletePlan(c, p)
             \/ SavePlan(c) \/ CountRows(c) \/ DetachRows(c) \/ RemovePlan(c)
      PROVE  PlanInv'
  BY <1>4, EditsKeep, DeletionsKeep
<1>5. ASSUME NEW s \in Subscribers, EndService(s) \/ DeleteService(s) \/ PurgeService(s)
      PROVE  PlanInv'
  BY <1>5, ServicesKeep
<1>6. ASSUME NEW p \in PlanIds, CreatePlan(p) PROVE PlanInv'
  BY <1>6, EditsKeep
<1>7. QED
  BY <1>1, <1>2, <1>3, <1>4, <1>5, <1>6 DEF PlanNext

LEMMA PlanInductive == PlanSpec => []PlanInv
<1>1. PlanInit => PlanInv
  BY InitEstablishes
<1>2. PlanInv /\ [PlanNext]_planVars => PlanInv'
  BY NextKeeps
<1>3. QED
  BY <1>1, <1>2, PTL DEF PlanSpec

(* Plans, rows of provisions and the calls under way stay in their types.  *)
THEOREM PlanTypeCorrect == PlanSpec => []PlanTypeOK
<1>1. PlanInv => PlanTypeOK
  BY DEF PlanInv
<1>2. QED
  BY <1>1, PlanInductive, PTL

(* Whatever operators delete while payments and plan changes are under     *)
(* way, an active subscription names a plan, and every plan a row names is *)
(* stored (PlansService.delete against markActive and updatePlan).         *)
THEOREM PlanIsNeverTaken == PlanSpec => []ActiveHasPlan
<1>1. PlanInv => ActiveHasPlan
  BY DEF PlanInv
<1>2. QED
  BY <1>1, PlanInductive, PTL
=============================================================================
