-------------------------- MODULE TransportProfiles --------------------------
(***************************************************************************)
(* The transport profiles of one VPN node and the inbounds of its 3x-ui    *)
(* panel, under transport-profiles.service.ts: the operator's edits and    *)
(* removals, checks, syncs from the panel and applies to it.  Each reads   *)
(* rows or inbounds, awaits the panel, and saves whole entities, which     *)
(* puts back a row removed meanwhile.  Of a profile's fields only status   *)
(* and inbound are kept here; InboundMapping has the others.  The panel's  *)
(* own behaviour, and the clients device handlers put in its inbounds, are *)
(* what the code takes them to be.                                         *)
(***************************************************************************)
EXTENDS Integers, FiniteSets

CONSTANTS
  ProfileIds,    \* naturals; a new profile takes the next
  InboundIds,    \* naturals; a new inbound takes the next
  PanelClients,
  Admins,        \* requests that may be handled at once
  EditStatuses,  \* the statuses an operator types
  NoInbound,
  MaxTpCalls     \* bound: requests and changes made by hand on the panel

ASSUME ProfilesAssumption ==
  /\ ProfileIds \subseteq Nat /\ InboundIds \subseteq Nat
  /\ NoInbound \notin InboundIds
  /\ {"none", "gone"} \cap PanelClients = {}   \* they mark what is no inbound
  /\ EditStatuses \subseteq {"draft", "active", "degraded", "blocked", "disabled"}
  /\ MaxTpCalls \in Nat

VARIABLES
  profile,   \* transport_profiles
  inbound,   \* the panel: its inbounds and their clients
  tpCall,    \* what each request is doing
  tpCalls,   \* requests and changes made by hand so far
  made,      \* history: clients made in each inbound and not deleted
  stale,     \* history: requests whose rows, or clients, are out of date
  settled,   \* history: profiles applied or synced last, and left alone since
  owned,     \* history: inbounds given to one profile
  intact     \* history: inbounds no apply wrote with clients out of date

tpVars == <<profile, inbound, tpCall, tpCalls, made, stale, settled, owned, intact>>

ProfileStatus == {"draft", "active", "degraded", "blocked", "disabled"}
ProfileRow == [status : ProfileStatus, inbound : InboundIds \cup {NoInbound}]
NoProfile == [status |-> "none", inbound |-> NoInbound]
GoneProfile == [status |-> "gone", inbound |-> NoInbound]
InboundRow == [enable : BOOLEAN, clients : SUBSET PanelClients]
NoRowYet == [enable |-> FALSE, clients |-> {"none"}]
GoneRow == [enable |-> FALSE, clients |-> {"gone"}]

TpCall == [pc : {"editing", "checking", "sending", "saving", "failing",
                 "reading", "syncing"},
           prof : ProfileIds \cup {0},
           copy : ProfileRow \cup {NoProfile},
           inb : InboundIds \cup {NoInbound}, \* the inbound an apply is about
           seen : SUBSET PanelClients,        \* its clients, as listed
           new : BOOLEAN,                     \* an apply that creates
           list : [InboundIds -> InboundRow \cup {NoRowYet, GoneRow}],
           rows : [ProfileIds -> ProfileRow \cup {NoProfile, GoneProfile}],
           todo : SUBSET InboundIds]
Unlisted == [i \in InboundIds |-> NoRowYet]
UnreadRows == [p \in ProfileIds |-> NoProfile]
NoTpCall == [pc |-> "idle", prof |-> 0, copy |-> NoProfile, inb |-> NoInbound,
             seen |-> {}, new |-> FALSE, list |-> Unlisted,
             rows |-> UnreadRows, todo |-> {}]

TpTypeOK ==
  /\ profile \in [ProfileIds -> ProfileRow \cup {NoProfile, GoneProfile}]
  /\ inbound \in [InboundIds -> InboundRow \cup {NoRowYet, GoneRow}]
  /\ tpCall \in [Admins -> TpCall \cup {NoTpCall}]
  /\ tpCalls \in 0 .. MaxTpCalls
  /\ made \in [InboundIds -> SUBSET PanelClients]
  /\ stale \subseteq Admins \X {"rows", "clients"}
  /\ settled \subseteq ProfileIds
  /\ owned \subseteq InboundIds /\ intact \subseteq InboundIds

TpInit ==
  /\ profile = UnreadRows
  /\ inbound = Unlisted
  /\ tpCall = [c \in Admins |-> NoTpCall]
  /\ tpCalls = 0
  /\ made = [i \in InboundIds |-> {}]
  /\ stale = {} /\ settled = {} /\ owned = {}
  /\ intact = InboundIds
-----------------------------------------------------------------------------
(* Faulty variants of definitions below, for mutation of the runs.         *)
SyncIgnoresEnable(status, enable) ==
  IF status \in {"blocked", "degraded"} THEN status ELSE "active"

SyncFindsNone(rows, i) == {}

ApplyDropsClients(call) == {}
-----------------------------------------------------------------------------
HasProfile(p) == profile[p] \in ProfileRow
OnPanel(i) == i # NoInbound /\ inbound[i] \notin {NoRowYet, GoneRow}
NextProfile(p) ==
  profile[p] = NoProfile /\ \A q \in ProfileIds : profile[q] = NoProfile => p <= q
NextInbound(i) ==
  inbound[i] = NoRowYet /\ \A j \in InboundIds : inbound[j] = NoRowYet => i <= j

AfterSuccessfulCheck(status) == IF status = "disabled" THEN status ELSE "active"
AfterFailedCheck(status) ==
  IF status \in {"disabled", "blocked"} THEN status ELSE "degraded"
AfterProviderSync(status, enable) ==
  IF ~enable THEN "disabled"
  ELSE IF status \in {"blocked", "degraded"} THEN status ELSE "active"

(* providerSettings sends an inbound's clients back as they were listed.   *)
ClientsSent(call) == call.seen

(* The profiles a sync takes for those of inbound i: the Map keeps one.    *)
ExistingFor(rows, i) == {p \in ProfileIds : rows[p].inbound = i}

(* selectRuntimeProfile: an active profile of an inbound, else a degraded  *)
(* one; the order among them is left open.                                 *)
RuntimeProfiles ==
  LET With(status) == {p \in ProfileIds : /\ profile[p].status = status
                                          /\ profile[p].inbound # NoInbound} IN
  IF With("active") # {} THEN With("active") ELSE With("degraded")

HoldsRow(p) ==
  {c \in Admins : tpCall[c].prof = p \/ tpCall[c].pc = "syncing"}
HoldsInbound(i) ==
  {c \in Admins : i # NoInbound /\
     \/ tpCall[c].inb = i
     \/ tpCall[c].pc \in {"reading", "syncing"}}
IsStale(c) == <<c, "rows">> \in stale

(* c is done, or goes on, after a write that puts others out of date.      *)
Outdate(c, others, done) ==
  stale' = (stale \cup ((others \ {c}) \X {"rows"}))
             \ (IF done THEN {c} \X {"rows", "clients"} ELSE {})
Finish(c) == tpCall' = [tpCall EXCEPT ![c] = NoTpCall]
Begin(c) == tpCall[c] = NoTpCall /\ tpCalls < MaxTpCalls /\ tpCalls' = tpCalls + 1

(* A whole row saved by c; one out of date may undo what others wrote.     *)
Save(c, p, row) ==
  /\ profile' = [profile EXCEPT ![p] = row]
  /\ owned' = IF IsStale(c) THEN owned \ {row.inbound, profile[p].inbound} ELSE owned
-----------------------------------------------------------------------------
CreateProfile(p, status) ==
  /\ tpCalls < MaxTpCalls /\ tpCalls' = tpCalls + 1
  /\ NextProfile(p)
  /\ profile' = [profile EXCEPT ![p] = [status |-> status, inbound |-> NoInbound]]
  /\ UNCHANGED <<inbound, tpCall, made, stale, settled, owned, intact>>

(* PATCH: update reads the entity, changes it and saves it.                *)
StartEdit(c, p, status) ==
  /\ Begin(c) /\ HasProfile(p)
  /\ tpCall' = [tpCall EXCEPT ![c] =
       [NoTpCall EXCEPT !.pc = "editing", !.prof = p,
                        !.copy = [profile[p] EXCEPT !.status = status]]]
  /\ UNCHANGED <<profile, inbound, made, stale, settled, owned, intact>>

FinishEdit(c) ==
  LET p == tpCall[c].prof IN
  /\ tpCall[c].pc = "editing"
  /\ Save(c, p, tpCall[c].copy)
  /\ settled' = settled \ {p}
  /\ Outdate(c, HoldsRow(p), TRUE)
  /\ Finish(c)
  /\ UNCHANGED <<inbound, tpCalls, made, intact>>

RemoveProfile(p) ==
  /\ HasProfile(p)
  /\ profile' = [profile EXCEPT ![p] = GoneProfile]
  /\ settled' = settled \ {p}
  /\ owned' = owned \ {profile[p].inbound}
  /\ stale' = stale \cup (HoldsRow(p) \X {"rows"})
  /\ UNCHANGED <<inbound, tpCall, tpCalls, made, intact>>

(* check: the panel must know the profile's inbound, enabled or not.       *)
StartCheck(c, p) ==
  /\ Begin(c) /\ HasProfile(p)
  /\ tpCall' = [tpCall EXCEPT ![c] =
       [NoTpCall EXCEPT !.pc = "checking", !.prof = p, !.copy = profile[p]]]
  /\ UNCHANGED <<profile, inbound, made, stale, settled, owned, intact>>

FinishCheck(c, ok) ==
  LET p == tpCall[c].prof copy == tpCall[c].copy IN
  /\ tpCall[c].pc = "checking"
  /\ ok => OnPanel(copy.inbound)
  /\ Save(c, p, [copy EXCEPT !.status = IF ok THEN AfterSuccessfulCheck(copy.status)
                                        ELSE AfterFailedCheck(copy.status)])
  /\ settled' = IF IsStale(c) THEN settled \ {p} ELSE settled
  /\ Outdate(c, HoldsRow(p), TRUE)
  /\ Finish(c)
  /\ UNCHANGED <<inbound, tpCalls, made, intact>>
-----------------------------------------------------------------------------
(* applyToProvider reads the row and, if it names an inbound, lists it;    *)
(* one the panel does not know ends the request.                           *)
StartApply(c, p) ==
  LET i == profile[p].inbound IN
  /\ Begin(c) /\ HasProfile(p)
  /\ i = NoInbound \/ OnPanel(i)
  /\ tpCall' = [tpCall EXCEPT ![c] =
       [NoTpCall EXCEPT !.pc = "sending", !.prof = p, !.copy = profile[p],
                        !.inb = i, !.new = i = NoInbound,
                        !.seen = IF i = NoInbound THEN {} ELSE inbound[i].clients]]
  /\ UNCHANGED <<profile, inbound, made, stale, settled, owned, intact>>

(* createInbound or updateInbound: done and answered, done with the answer *)
(* lost, or refused.                                                       *)
SendApply(c, i, answer) ==
  LET call == tpCall[c] IN
  /\ call.pc = "sending"
  /\ IF call.new THEN NextInbound(i) ELSE i = call.inb
  /\ answer # "refused" => call.new \/ OnPanel(i)
  /\ tpCall' = [tpCall EXCEPT ![c] =
       [call EXCEPT !.pc = IF answer = "answered" THEN "saving" ELSE "failing",
                    !.inb = IF answer = "answered" THEN i ELSE @]]
  /\ IF answer = "refused" THEN UNCHANGED <<inbound, stale, settled, intact>>
     ELSE /\ inbound' = [inbound EXCEPT ![i] =
               [enable |-> call.copy.status # "disabled",
                clients |-> ClientsSent(call)]]
          /\ settled' = settled \ ({call.prof} \cup ExistingFor(profile, i))
          /\ intact' = IF <<c, "clients">> \in stale THEN intact \ {i} ELSE intact
          /\ Outdate(c, HoldsInbound(i), FALSE)
  /\ UNCHANGED <<profile, tpCalls, made, owned>>

FinishApply(c) ==
  LET call == tpCall[c] p == call.prof IN
  /\ call.pc \in {"saving", "failing"}
  /\ IF call.pc = "saving"
     THEN /\ profile' = [profile EXCEPT ![p] =
               [status |-> IF call.copy.status = "disabled" THEN "disabled" ELSE "active",
                inbound |-> call.inb]]
          /\ settled' = IF IsStale(c) THEN settled \ {p} ELSE settled \cup {p}
          /\ owned' = IF IsStale(c) THEN owned \ {call.inb, profile[p].inbound}
                      ELSE IF call.new THEN owned \cup {call.inb} ELSE owned
     ELSE /\ Save(c, p, [call.copy EXCEPT !.status = AfterFailedCheck(@)])
          /\ settled' = IF IsStale(c) THEN settled \ {p} ELSE settled
  /\ Outdate(c, HoldsRow(p) \cup HoldsInbound(call.inb), TRUE)
  /\ Finish(c)
  /\ UNCHANGED <<inbound, tpCalls, made, intact>>
-----------------------------------------------------------------------------
(* syncFromProvider lists the inbounds, then reads the profiles, then      *)
(* saves one profile for each inbound listed.                              *)
StartSync(c) ==
  /\ Begin(c)
  /\ tpCall' = [tpCall EXCEPT ![c] =
       [NoTpCall EXCEPT !.pc = "reading", !.list = inbound,
                        !.todo = {i \in InboundIds : OnPanel(i)}]]
  /\ UNCHANGED <<profile, inbound, made, stale, settled, owned, intact>>

ReadProfiles(c) ==
  /\ tpCall[c].pc = "reading"
  /\ tpCall' = [tpCall EXCEPT ![c] =
       [tpCall[c] EXCEPT !.pc = "syncing", !.rows = profile]]
  /\ UNCHANGED <<profile, inbound, tpCalls, made, stale, settled, owned, intact>>

SyncInbound(c, i, p) ==
  LET call == tpCall[c]
      found == ExistingFor(call.rows, i)
      old == IF found = {} THEN "active" ELSE call.rows[p].status IN
  /\ call.pc = "syncing"
  /\ i \in call.todo /\ \A j \in call.todo : i <= j
  /\ IF found = {} THEN NextProfile(p) ELSE p \in found
  /\ profile' = [profile EXCEPT ![p] =
       [status |-> AfterProviderSync(old, call.list[i].enable), inbound |-> i]]
  /\ settled' = IF IsStale(c) THEN settled \ {p} ELSE settled \cup {p}
  /\ owned' = IF IsStale(c) THEN owned \ {i, profile[p].inbound}
              ELSE IF found = {} THEN owned \cup {i} ELSE owned
  /\ tpCall' = [tpCall EXCEPT ![c] = [call EXCEPT !.todo = @ \ {i}]]
  /\ Outdate(c, HoldsRow(p) \cup HoldsInbound(i), FALSE)
  /\ UNCHANGED <<inbound, tpCalls, made, intact>>

FinishSync(c) ==
  /\ tpCall[c].pc = "syncing" /\ tpCall[c].todo = {}
  /\ Finish(c)
  /\ Outdate(c, {}, TRUE)
  /\ UNCHANGED <<profile, inbound, tpCalls, made, settled, owned, intact>>

(* The process restarts: the requests under way are gone.                  *)
Restart ==
  /\ \E c \in Admins : tpCall[c] # NoTpCall
  /\ tpCall' = [c \in Admins |-> NoTpCall]
  /\ stale' = {}
  /\ UNCHANGED <<profile, inbound, tpCalls, made, settled, owned, intact>>
-----------------------------------------------------------------------------
(* Made by hand on the panel: a new inbound, an inbound switched on or off *)
(* or removed.                                                             *)
ByHand(i, row) ==
  /\ tpCalls < MaxTpCalls /\ tpCalls' = tpCalls + 1
  /\ inbound' = [inbound EXCEPT ![i] = row]
  /\ made' = [made EXCEPT ![i] = IF row = GoneRow THEN {} ELSE @]
  /\ settled' = settled \ ExistingFor(profile, i)
  /\ stale' = stale \cup (HoldsInbound(i) \X {"rows"})
  /\ UNCHANGED <<profile, tpCall, owned, intact>>

PanelByHand(i) ==
  \/ NextInbound(i) /\ ByHand(i, [enable |-> TRUE, clients |-> {}])
  \/ OnPanel(i) /\ ByHand(i, [inbound[i] EXCEPT !.enable = ~@])
  \/ OnPanel(i) /\ ByHand(i, GoneRow)

(* addClient and delClient of the device handlers.                         *)
ChangeClients(i, k) ==
  /\ OnPanel(i)
  /\ \/ /\ k \notin made[i]
        /\ inbound' = [inbound EXCEPT ![i].clients = @ \cup {k}]
        /\ made' = [made EXCEPT ![i] = @ \cup {k}]
     \/ /\ k \in made[i]
        /\ inbound' = [inbound EXCEPT ![i].clients = @ \ {k}]
        /\ made' = [made EXCEPT ![i] = @ \ {k}]
  /\ stale' = stale \cup ({c \in Admins : tpCall[c].pc = "sending" /\ tpCall[c].inb = i}
                            \X {"clients"})
  /\ UNCHANGED <<profile, tpCall, tpCalls, settled, owned, intact>>

TpNext ==
  \/ \E p \in ProfileIds :
       \/ \E status \in {"draft", "active"} : CreateProfile(p, status)
       \/ RemoveProfile(p)
       \/ \E c \in Admins :
            \/ \E status \in EditStatuses : StartEdit(c, p, status)
            \/ StartCheck(c, p)
            \/ StartApply(c, p)
            \/ \E i \in InboundIds : SyncInbound(c, i, p)
  \/ \E c \in Admins :
       \/ FinishEdit(c)
       \/ \E ok \in BOOLEAN : FinishCheck(c, ok)
       \/ \E i \in InboundIds, answer \in {"answered", "lost", "refused"} :
            SendApply(c, i, answer)
       \/ FinishApply(c)
       \/ StartSync(c) \/ ReadProfiles(c) \/ FinishSync(c)
  \/ Restart
  \/ \E i \in InboundIds :
       PanelByHand(i) \/ \E k \in PanelClients : ChangeClients(i, k)

TpSpec == TpInit /\ [][TpNext]_tpVars
-----------------------------------------------------------------------------
(* From the apply or the sync of a profile to the next edit or change by   *)
(* hand, whatever checks, syncs and applies come between and fail, the row *)
(* and the panel agree: a disabled profile's inbound is off, and devices   *)
(* are given a profile only if its inbound is on.  Overlapping requests    *)
(* are the exception (check, applyToProvider, syncFromProvider).           *)
RowAgreesWithPanel ==
  \A p \in settled :
    /\ OnPanel(profile[p].inbound)
    /\ profile[p].status = "disabled" => ~inbound[profile[p].inbound].enable
    /\ p \in RuntimeProfiles => inbound[profile[p].inbound].enable

(* An inbound that an apply created or a sync adopted keeps exactly one    *)
(* profile, until the operator removes that one or a request out of date   *)
(* saves; lost answers and restarts alone leave no inbound with two.       *)
OwnedOnce ==
  \A i \in owned : \E p \in ProfileIds :
    /\ profile[p].inbound = i
    /\ \A q \in ProfileIds \ {p} : profile[q].inbound # i

(* An apply rewrites the inbound with its clients and loses none of them,  *)
(* nor brings a deleted one back, unless one was made or deleted between   *)
(* its list and its update (providerSettings).                             *)
ClientsSurviveApply ==
  \A i \in intact : OnPanel(i) => inbound[i].clients = made[i]
=============================================================================
