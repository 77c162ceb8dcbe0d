-------------------------- MODULE MCServicesProofs --------------------------
(***************************************************************************)
(* What the run of MCServices shows on a small instance, for every value   *)
(* of the constants.  A behaviour of the composition is a behaviour of     *)
(* each of the components, so the theorem about a component carries over;  *)
(* only an inbound mapping at rest starts where the component never does,  *)
(* and is covered by the component's inductive invariant.                  *)
(***************************************************************************)
EXTENDS MCServices, NodeFleetProofs, PanelProofs, ClientProofs, ServicesProofs, TLAPS

(* One step of every component, most of them at rest.                      *)
ComponentSteps ==
  /\ [FleetNext]_fleetVars
  /\ [TpNext]_tpVars
  /\ [SessionNext]_sessionVars
  /\ [MappingNext]_mappingVars
  /\ [TelemetryNext]_telemetryVars
  /\ [DecisionNext]_decisionVars
  /\ [LimitNext]_limitVars
  /\ [GateNext]_gateVars
  /\ [CatalogueNext]_catalogueVars
  /\ [PaymentNext]_paymentVars
  /\ [ConsoleNext]_consoleVars
  /\ [PlanNext]_planVars
  /\ [DeviceRowsNext]_deviceRowVars

(* The step of the component that runs; a stuttering step, of none.        *)
LEMMA EachStepsAlone == [ServicesNext]_servicesVars => ComponentSteps /\ UNCHANGED which
<1>. SUFFICES ASSUME [ServicesNext]_servicesVars
              PROVE  ComponentSteps /\ UNCHANGED which
  OBVIOUS
<1>. USE DEF Runs, rest1, rest2, rest3, rest4
<1>1. CASE /\ Runs("fleet") /\ FleetNext
             /\ UNCHANGED <<tpVars, sessionVars, rest2, rest3, rest4>>
  BY <1>1 DEF ComponentSteps
<1>2. CASE /\ Runs("profiles") /\ TpNext
             /\ UNCHANGED <<fleetVars, sessionVars, rest2, rest3, rest4>>
  BY <1>2 DEF ComponentSteps
<1>3. CASE /\ Runs("session") /\ SessionNext
             /\ UNCHANGED <<fleetVars, tpVars, rest2, rest3, rest4>>
  BY <1>3 DEF ComponentSteps
<1>4. CASE /\ Runs("mapping") /\ MappingNext
             /\ UNCHANGED <<rest1, telemetryVars, decisionVars, limitVars, rest3, rest4>>
  BY <1>4 DEF ComponentSteps
<1>5. CASE /\ Runs("telemetry") /\ TelemetryNext
             /\ UNCHANGED <<rest1, mappingVars, decisionVars, limitVars, rest3, rest4>>
  BY <1>5 DEF ComponentSteps
<1>6. CASE /\ Runs("decisions") /\ DecisionNext
             /\ UNCHANGED <<rest1, mappingVars, telemetryVars, limitVars, rest3, rest4>>
  BY <1>6 DEF ComponentSteps
<1>7. CASE /\ Runs("limit") /\ LimitNext
             /\ UNCHANGED <<rest1, mappingVars, telemetryVars, decisionVars, rest3, rest4>>
  BY <1>7 DEF ComponentSteps
<1>8. CASE /\ Runs("gate") /\ GateNext
             /\ UNCHANGED <<rest1, rest2, catalogueVars, paymentVars, consoleVars, rest4>>
  BY <1>8 DEF ComponentSteps
<1>9. CASE /\ Runs("catalogue") /\ CatalogueNext
             /\ UNCHANGED <<rest1, rest2, gateVars, paymentVars, consoleVars, rest4>>
  BY <1>9 DEF ComponentSteps
<1>10. CASE /\ Runs("payment") /\ PaymentNext
             /\ UNCHANGED <<rest1, rest2, gateVars, catalogueVars, consoleVars, rest4>>
  BY <1>10 DEF ComponentSteps
<1>11. CASE /\ Runs("console") /\ ConsoleNext
             /\ UNCHANGED <<rest1, rest2, gateVars, catalogueVars, paymentVars, rest4>>
  BY <1>11 DEF ComponentSteps
<1>12. CASE /\ Runs("plans") /\ PlanNext
             /\ UNCHANGED <<rest1, rest2, rest3, deviceRowVars>>
  BY <1>12 DEF ComponentSteps
<1>13. CASE /\ Runs("rows") /\ DeviceRowsNext
             /\ UNCHANGED <<rest1, rest2, rest3, planVars>>
  BY <1>13 DEF ComponentSteps
<1>14. CASE UNCHANGED servicesVars
  BY <1>14 DEF ComponentSteps, servicesVars
<1>15. QED
  BY <1>1, <1>2, <1>3, <1>4, <1>5, <1>6, <1>7,
     <1>8, <1>9, <1>10, <1>11, <1>12, <1>13, <1>14 DEF ServicesNext

(* A gate that rests is at the start of a request.                         *)
LEMMA RestingGateStarts == GateRests => GateInit
<1>1. PICK b : b = CompleteBody("payment_paid")
  OBVIOUS
<1>2. "event" \in Fields /\ "payment_paid" \in BillingEvents
  BY DEF Fields, BillingEvents
<1>3. "payment_paid" \in KindsOf("event")
  BY DEF KindsOf, BillingEvents, RequiredText, OptionalText, NumberFields, EnumFields
<1>4. [CompleteBody("payment_paid") EXCEPT !["event"] = "payment_paid"] \in Bodies
  <2>1. PICK S : S = {[CompleteBody("payment_paid") EXCEPT !["event"] = kind] :
                        kind \in KindsOf("event")}
    OBVIOUS
  <2>2. [CompleteBody("payment_paid") EXCEPT !["event"] = "payment_paid"] \in S
    BY <1>3, <2>1
  <2>3. S \in {{[CompleteBody(e) EXCEPT ![f] = kind] : kind \in KindsOf(f)} :
                e \in BillingEvents, f \in Fields}
    BY <1>2, <2>1
  <2>4. QED
    BY <2>2, <2>3 DEF Bodies
<1>5. [CompleteBody("payment_paid") EXCEPT !["event"] = "payment_paid"] = b
  <2>1. b["event"] = "payment_paid"
    BY <1>1, <1>2 DEF CompleteBody, NumberFields, EnumFields
  <2>2. b = [f \in Fields |-> b[f]]
    BY <1>1 DEF CompleteBody
  <2>3. QED
    BY <1>1, <2>1, <2>2
<1>6. GoodHeaders \in Headers
  BY DEF Headers, GoodHeaders
<1>7. QED
  BY <1>1, <1>3, <1>4, <1>5, <1>6 DEF GateRests, GateInit, Routes

(* Whichever component runs, all of them start as they may.                *)
LEMMA ComponentsStart ==
  ASSUME ServicesInit
  PROVE  /\ FleetInit /\ TpInit /\ SessionInit /\ TelemetryInit /\ DecisionInit
         /\ LimitInit /\ GateInit /\ CatalogueInit /\ PaymentInit /\ ConsoleInit
         /\ PlanInit /\ DeviceRowsInit /\ MappingInv /\ which \in Services
<1>1. FleetInit /\ TpInit /\ SessionInit /\ TelemetryInit /\ LimitInit /\ CatalogueInit
  BY DEF ServicesInit
<1>2. /\ PaymentInit /\ ConsoleInit /\ PlanInit /\ DeviceRowsInit /\ which \in Services
  BY DEF ServicesInit
<1>3. DecisionInit
  BY DEF ServicesInit, DecisionRests, DecisionInit, Statuses
<1>4. GateInit
  BY RestingGateStarts DEF ServicesInit
<1>5. MappingInv
  <2>1. ASSUME MappingRests PROVE MappingInv
    <3>1. RowFits(BlankRow) /\ BlankRow.known = "no" /\ BlankRow.protocol = Null
      BY DEF RowFits, IsRow, BlankRow, Null, Transports, Securities
    <3>2. QED
      BY <2>1, <3>1, MappingAssumption DEF MappingRests, MappingInv
  <2>2. QED
    BY <2>1, MappingStarts DEF ServicesInit
<1>6. QED
  BY <1>1, <1>2, <1>3, <1>4, <1>5

(* The small components share no state: a behaviour of them together is a  *)
(* behaviour of each, which one run of the model checker over all of them  *)
(* relies on.  The mapping's steps are its own, and its invariant holds    *)
(* also where it only rests.                                               *)
THEOREM ComponentsApart ==
  ServicesSpec => /\ FleetSpec /\ TpSpec /\ SessionSpec /\ TelemetrySpec
                  /\ DecisionSpec /\ LimitSpec /\ GateSpec /\ CatalogueSpec
                  /\ PaymentSpec /\ ConsoleSpec /\ PlanSpec /\ DeviceRowsSpec
                  /\ [][MappingNext]_mappingVars /\ []MappingInv
<1>1. [ServicesNext]_servicesVars => [FleetNext]_fleetVars
  BY EachStepsAlone DEF ComponentSteps
<1>2. [ServicesNext]_servicesVars => [TpNext]_tpVars
  BY EachStepsAlone DEF ComponentSteps
<1>3. [ServicesNext]_servicesVars => [SessionNext]_sessionVars
  BY EachStepsAlone DEF ComponentSteps
<1>4. [ServicesNext]_servicesVars => [MappingNext]_mappingVars
  BY EachStepsAlone DEF ComponentSteps
<1>5. [ServicesNext]_servicesVars => [TelemetryNext]_telemetryVars
  BY EachStepsAlone DEF ComponentSteps
<1>6. [ServicesNext]_servicesVars => [DecisionNext]_decisionVars
  BY EachStepsAlone DEF ComponentSteps
<1>7. [ServicesNext]_servicesVars => [LimitNext]_limitVars
  BY EachStepsAlone DEF ComponentSteps
<1>8. [ServicesNext]_servicesVars => [GateNext]_gateVars
  BY EachStepsAlone DEF ComponentSteps
<1>9. [ServicesNext]_servicesVars => [CatalogueNext]_catalogueVars
  BY EachStepsAlone DEF ComponentSteps
<1>10. [ServicesNext]_servicesVars => [PaymentNext]_paymentVars
  BY EachStepsAlone DEF ComponentSteps
<1>11. [ServicesNext]_servicesVars => [ConsoleNext]_consoleVars
  BY EachStepsAlone DEF ComponentSteps
<1>12. [ServicesNext]_servicesVars => [PlanNext]_planVars
  BY EachStepsAlone DEF ComponentSteps
<1>13. [ServicesNext]_servicesVars => [DeviceRowsNext]_deviceRowVars
  BY EachStepsAlone DEF ComponentSteps
<1>14. /\ ServicesInit => FleetInit /\ TpInit /\ SessionInit /\ TelemetryInit
       /\ ServicesInit => DecisionInit /\ LimitInit /\ GateInit /\ CatalogueInit
       /\ ServicesInit => PaymentInit /\ ConsoleInit /\ PlanInit /\ DeviceRowsInit
       /\ ServicesInit => MappingInv
  BY ComponentsStart
<1>15. ServicesSpec => FleetSpec /\ TpSpec /\ SessionSpec /\ TelemetrySpec
  BY <1>14, <1>1, <1>2, <1>3, <1>5, PTL
     DEF ServicesSpec, FleetSpec, TpSpec, SessionSpec, TelemetrySpec
<1>16. ServicesSpec => DecisionSpec /\ LimitSpec /\ GateSpec /\ CatalogueSpec
  BY <1>14, <1>6, <1>7, <1>8, <1>9, PTL
     DEF ServicesSpec, DecisionSpec, LimitSpec, GateSpec, CatalogueSpec
<1>17. ServicesSpec => PaymentSpec /\ ConsoleSpec /\ PlanSpec /\ DeviceRowsSpec
  BY <1>14, <1>10, <1>11, <1>12, <1>13, PTL
     DEF ServicesSpec, PaymentSpec, ConsoleSpec, PlanSpec, DeviceRowsSpec
<1>18. ServicesSpec => [][MappingNext]_mappingVars /\ []MappingInv
  BY <1>14, <1>4, MappingStep, PTL DEF ServicesSpec
<1>19. QED
  BY <1>15, <1>16, <1>17, <1>18

(* Every variable of the small components stays in its type, and every     *)
(* bound and counter in its range, whichever of them runs.                 *)
THEOREM ServicesTypeCorrect == ServicesSpec => []ServicesTypeOK
<1>1. ServicesInit => which \in Services
  BY ComponentsStart
<1>2. which \in Services /\ [ServicesNext]_servicesVars => (which \in Services)'
  BY EachStepsAlone
<1>3. ServicesSpec => [](which \in Services)
  BY <1>1, <1>2, PTL DEF ServicesSpec
<1>4. ServicesSpec => [](FleetTypeOK /\ TpTypeOK /\ SessionTypeOK /\ MappingTypeOK)
  BY ComponentsApart, FleetTypeCorrect, ProfilesTypeCorrect, SessionTypeCorrect,
     MappingTypes, PTL
<1>5. ServicesSpec => [](TelemetryTypeOK /\ DecisionTypeOK /\ LimitTypeOK /\ GateTypeOK)
  BY ComponentsApart, TelemetryTypeCorrect, DecisionTypeCorrect, LimitTypeCorrect,
     GateTypeCorrect, PTL
<1>6. ServicesSpec => [](CatalogueTypeOK /\ PaymentTypeOK /\ ConsoleTypeOK)
  BY ComponentsApart, CatalogueTypeCorrect, PaymentTypeCorrect, ConsoleTypeCorrect, PTL
<1>7. ServicesSpec => [](PlanTypeOK /\ DeviceRowsTypeOK)
  BY ComponentsApart, PlanTypeCorrect, DeviceRowsTypeCorrect, PTL
<1>8. /\ which \in Services
      /\ FleetTypeOK /\ TpTypeOK /\ SessionTypeOK /\ MappingTypeOK
      /\ TelemetryTypeOK /\ DecisionTypeOK /\ LimitTypeOK /\ GateTypeOK
      /\ CatalogueTypeOK /\ PaymentTypeOK /\ ConsoleTypeOK
      /\ PlanTypeOK /\ DeviceRowsTypeOK
      => ServicesTypeOK
  BY DEF ServicesTypeOK
<1>9. QED
  BY <1>3, <1>4, <1>5, <1>6, <1>7, <1>8, PTL

(* Everything else the run of the small components checks holds of them    *)
(* together: nodes obey the operator and count right, rows agree with the  *)
(* panel, counts and decisions are right, the edge, the catalogue, the     *)
(* payment, the panel of the console, plans and device rows do what the    *)
(* theorems about each say, and nothing drifts between a row and its       *)
(* inbound.                                                                *)
THEOREM ServicesHold ==
  ServicesSpec =>
    /\ [](NodeObeysOperator /\ LoadIsBacked /\ SweepCountsAll)
    /\ [](RowAgreesWithPanel /\ OwnedOnce /\ ClientsSurviveApply)
    /\ [](RefusedOnlyIfDropped /\ ConfigReachesInbound)
    /\ [](HourlyCountsOnce /\ DecisionsAgree /\ LimitHolds /\ LetInIsServable)
    /\ [](ConfigsCarryChoice /\ CreditedOnce /\ PanelSettles)
    /\ [](ActiveHasPlan /\ DeviceFollowsCalls)
    /\ NothingDrifts
<1>1. ServicesSpec => [](NodeObeysOperator /\ LoadIsBacked /\ SweepCountsAll)
  BY ComponentsApart, OperatorIsObeyed, LoadIsBackedByClients, SweepIsComplete, PTL
<1>2. ServicesSpec => [](RowAgreesWithPanel /\ OwnedOnce /\ ClientsSurviveApply)
  BY ComponentsApart, RowsAgreeWithPanel, InboundsOwnedOnce, ClientsSurvive, PTL
<1>3. ServicesSpec => [](RefusedOnlyIfDropped /\ ConfigReachesInbound)
  BY ComponentsApart, OneRetrySuffices, CompleteIsReached, PTL
<1>4. ServicesSpec => [](HourlyCountsOnce /\ DecisionsAgree /\ LimitHolds /\ LetInIsServable)
  BY ComponentsApart, EventsCountedOnce, DecisionsNeverConflict, LimiterHolds,
     EdgeLetsServableIn, PTL
<1>5. ServicesSpec => [](ConfigsCarryChoice /\ CreditedOnce /\ PanelSettles)
  BY ComponentsApart, ConfigsFollowTheCatalogue, PaymentIsCreditedOnce, PanelsSettle, PTL
<1>6. ServicesSpec => [](ActiveHasPlan /\ DeviceFollowsCalls)
  BY ComponentsApart, PlanIsNeverTaken, DevicesFollowCalls, PTL
<1>7. ServicesSpec => NothingDrifts
  <2>1. MappingInv /\ [MappingNext]_mappingVars
          => [SecretsStay /\ RowStays /\ ClientsServedAsBefore]_mappingVars
    BY MappingStep DEF Drift
  <2>2. QED
    BY <2>1, ComponentsApart, PTL DEF NothingDrifts
<1>8. QED
  BY <1>1, <1>2, <1>3, <1>4, <1>5, <1>6, <1>7
=============================================================================
