----------------------------- MODULE MCServices -----------------------------
(***************************************************************************)
(* The smaller components, for one run of the model checker.  They share   *)
(* no state in the code that these models keep, so a behaviour of the      *)
(* program projects to one behaviour of each: which is the component that  *)
(* runs, every other rests in one of its initial states.  A property of a  *)
(* component holds here exactly when it holds of the component alone,      *)
(* provided it holds of that resting state.                                *)
(***************************************************************************)
EXTENDS NodeFleet, TransportProfiles, PanelSession, RuntimeConfig,
        TelemetryHourly, RouteDecisions, RateLimit, WebhookGate, Catalogue,
        PaymentCallback, AdminConsole, PlanMapping, DeviceRows

VARIABLE which

CatalogueTypes == {"routing", "automation"}
ListsOfItems == {<<"i1", "i2">>, <<"i2">>}
(* One device, before and after its app was installed again.               *)
InstalledTwice ==
  {[device |-> "d1", install |-> "i1"], [device |-> "d1", install |-> "i2"]}

Services == {"fleet", "profiles", "session", "mapping", "telemetry", "decisions",
             "limit", "gate", "catalogue", "payment", "console", "plans", "rows"}

rest1 == <<fleetVars, tpVars, sessionVars>>
rest2 == <<mappingVars, telemetryVars, decisionVars, limitVars>>
rest3 == <<gateVars, catalogueVars, paymentVars, consoleVars>>
rest4 == <<planVars, deviceRowVars>>
servicesVars == <<which, rest1, rest2, rest3, rest4>>

MappingRests ==
  /\ row = BlankRow /\ wire = NoWire /\ applies = 0 /\ sent = 0
  /\ typed = [row |-> row, wire |-> wire]
DecisionRests ==
  /\ routeStatus = "active"
  /\ tally = [c \in Classes |-> [r \in Results |-> 0]]
GateRests ==
  /\ request = [route |-> "preflight", body |-> CompleteBody("payment_paid"),
                headers |-> GoodHeaders, isRecord |-> TRUE]
  /\ settings = GoodSettings /\ process = "starting" /\ reply = "none" /\ work = "none"

ServicesInit ==
  /\ which \in Services
  /\ FleetInit /\ TpInit /\ SessionInit /\ TelemetryInit /\ LimitInit
  /\ CatalogueInit /\ PaymentInit /\ ConsoleInit /\ PlanInit
  /\ DeviceRowsInit /\ (which = "rows" \/ NoDeviceYet)
  /\ IF which = "mapping" THEN MappingInit ELSE MappingRests
  /\ IF which = "decisions" THEN DecisionInit ELSE DecisionRests
  /\ IF which = "gate" THEN GateInit ELSE GateRests

Runs(service) == which = service /\ UNCHANGED which

ServicesNext ==
  \/ /\ Runs("fleet") /\ FleetNext
     /\ UNCHANGED <<tpVars, sessionVars, rest2, rest3, rest4>>
  \/ /\ Runs("profiles") /\ TpNext
     /\ UNCHANGED <<fleetVars, sessionVars, rest2, rest3, rest4>>
  \/ /\ Runs("session") /\ SessionNext
     /\ UNCHANGED <<fleetVars, tpVars, rest2, rest3, rest4>>
  \/ /\ Runs("mapping") /\ MappingNext
     /\ UNCHANGED <<rest1, telemetryVars, decisionVars, limitVars, rest3, rest4>>
  \/ /\ Runs("telemetry") /\ TelemetryNext
     /\ UNCHANGED <<rest1, mappingVars, decisionVars, limitVars, rest3, rest4>>
  \/ /\ Runs("decisions") /\ DecisionNext
     /\ UNCHANGED <<rest1, mappingVars, telemetryVars, limitVars, rest3, rest4>>
  \/ /\ Runs("limit") /\ LimitNext
     /\ UNCHANGED <<rest1, mappingVars, telemetryVars, decisionVars, rest3, rest4>>
  \/ /\ Runs("gate") /\ GateNext
     /\ UNCHANGED <<rest1, rest2, catalogueVars, paymentVars, consoleVars, rest4>>
  \/ /\ Runs("catalogue") /\ CatalogueNext
     /\ UNCHANGED <<rest1, rest2, gateVars, paymentVars, consoleVars, rest4>>
  \/ /\ Runs("payment") /\ PaymentNext
     /\ UNCHANGED <<rest1, rest2, gateVars, catalogueVars, consoleVars, rest4>>
  \/ /\ Runs("console") /\ ConsoleNext
     /\ UNCHANGED <<rest1, rest2, gateVars, catalogueVars, paymentVars, rest4>>
  \/ /\ Runs("plans") /\ PlanNext
     /\ UNCHANGED <<rest1, rest2, rest3, deviceRowVars>>
  \/ /\ Runs("rows") /\ DeviceRowsNext
     /\ UNCHANGED <<rest1, rest2, rest3, planVars>>

ServicesSpec == ServicesInit /\ [][ServicesNext]_servicesVars
-----------------------------------------------------------------------------
(* Each component's variables stay in their types and every bound and      *)
(* counter in its range.                                                   *)
ServicesTypeOK ==
  /\ which \in Services
  /\ FleetTypeOK /\ TpTypeOK /\ SessionTypeOK /\ MappingTypeOK
  /\ TelemetryTypeOK /\ DecisionTypeOK /\ LimitTypeOK /\ GateTypeOK
  /\ CatalogueTypeOK /\ PaymentTypeOK /\ ConsoleTypeOK /\ PlanTypeOK
  /\ DeviceRowsTypeOK
=============================================================================
