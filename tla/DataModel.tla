----------------------------- MODULE DataModel -----------------------------
(***************************************************************************)
(* What the lists of the SPINE data model (model) say to the update of     *)
(* function data by their tags: which fields identify an item, which       *)
(* one guards it against remote writes, which ones a selector compares.    *)
(* The other fields of an item are treated alike and stand for one, Rest.  *)
(* Selectors of structured fields (addresses, lists) are left out: they    *)
(* match nothing, or Go cannot compare them.                               *)
(*                                                                         *)
(* A list without a schema is taken as it comes.  The feature types with   *)
(* their functions are those of CreateFunctionData.                        *)
(***************************************************************************)
EXTENDS TLC, FiniteSets

Rest == "rest"

(* The tags of one list:                                                   *)
(*   keys       the fields tagged "key", in the order of the struct        *)
(*   unsorted   those of them the order of the list does not look at,      *)
(*              texts and addresses                                        *)
(*   check      the field tagged "writecheck", if there is one             *)
(*   selectors  fields of the selectors that the items have as well        *)
(*   ignored    fields of the selectors that the items do not have         *)
Listed(keys, selectors) ==
    [keys |-> keys, unsorted |-> {}, check |-> {}, selectors |-> selectors,
     ignored |-> {}]
Keyed(key, others) == Listed(<<key>>, {key} \cup others)
Numbered(key) == Keyed(key, {})

Alarm == [
    alarmListData |-> Keyed("alarmId", {"scopeType"})]

Bill == [
    billListData |-> Keyed("billId", {"scopeType"}),
    billConstraintsListData |-> Numbered("billId"),
    billDescriptionListData |-> Numbered("billId")]

BindingManagement == [
    bindingManagementEntryListData |-> Numbered("bindingId")]

DeviceConfiguration == [
    deviceConfigurationKeyValueListData |->
        [Numbered("keyId") EXCEPT !.check = {"isValueChangeable"}],
    deviceConfigurationKeyValueDescriptionListData |->
        Keyed("keyId", {"keyName"}),
    deviceConfigurationKeyValueConstraintsListData |-> Numbered("keyId")]

DirectControl == [
    directControlActivityListData |->
        [Listed(<<>>, {}) EXCEPT !.ignored = {"timestampInterval"}]]

ElectricalConnectionParameters == [
    electricalConnectionParameterDescriptionListData |->
        Listed(<<"electricalConnectionId", "parameterId">>,
            {"electricalConnectionId", "parameterId", "measurementId",
            "scopeType"}),
    electricalConnectionPermittedValueSetListData |->
        Listed(<<"electricalConnectionId", "parameterId">>,
            {"electricalConnectionId", "parameterId"}),
    electricalConnectionStateListData |-> Numbered("electricalConnectionId"),
    electricalConnectionDescriptionListData |->
        Keyed("electricalConnectionId", {"scopeType"})]

ElectricalConnections == [
    electricalConnectionCharacteristicListData |->
        Listed(<<"electricalConnectionId", "parameterId",
            "characteristicId">>, {"electricalConnectionId", "parameterId",
            "characteristicId", "characteristicContext",
            "characteristicType"})]

HvacSystemFunctions == [
    hvacSystemFunctionListData |-> Numbered("systemFunctionId"),
    hvacSystemFunctionOperationModeRelationListData |->
        Numbered("systemFunctionId"),
    hvacSystemFunctionSetpointRelationListData |->
        Keyed("systemFunctionId", {"operationModeId"}),
    hvacSystemFunctionPowerSequenceRelationListData |->
        Numbered("systemFunctionId"),
    hvacSystemFunctionDescriptionListData |-> Numbered("systemFunctionId"),
    hvacOperationModeDescriptionListData |-> Numbered("operationModeId"),
    hvacOverrunListData |-> Numbered("overrunId")]

HvacOverruns == [
    hvacOverrunDescriptionListData |-> Numbered("overrunId")]

Identification == [
    identificationListData |->
        Keyed("identificationId", {"identificationType"}),
    sessionIdentificationListData |->
        Keyed("sessionId", {"identificationId", "isLatestSession"}),
    sessionMeasurementRelationListData |-> Numbered("sessionId")]

LoadControl == [
    loadControlEventListData |->
        [Numbered("eventId") EXCEPT !.ignored = {"timestampInterval"}],
    loadControlStateListData |->
        [Numbered("eventId") EXCEPT !.ignored = {"timestampInterval"}],
    loadControlLimitListData |->
        [Numbered("limitId") EXCEPT !.check = {"isLimitChangeable"}],
    loadControlLimitConstraintsListData |-> Numbered("limitId"),
    loadControlLimitDescriptionListData |->
        Keyed("limitId", {"limitType", "limitDirection", "measurementId",
            "scopeType"})]

Measurement == [
    measurementListData |->
        [Listed(<<"measurementId", "valueType">>, {"measurementId",
            "valueType"}) EXCEPT !.unsorted = {"valueType"}, !.ignored =
            {"timestampInterval"}],
    measurementSeriesListData |->
        [Listed(<<"measurementId", "valueType">>, {"measurementId",
            "valueType"}) EXCEPT !.unsorted = {"valueType"}, !.ignored =
            {"timestampInterval"}],
    measurementConstraintsListData |-> Numbered("measurementId"),
    measurementDescriptionListData |->
        Keyed("measurementId", {"measurementType", "commodityType",
            "scopeType"}),
    measurementThresholdRelationListData |-> Numbered("measurementId")]

Messaging == [
    messagingListData |->
        [Numbered("messagingNumber") EXCEPT !.ignored =
            {"timestampInterval"}]]

NetworkManagement == [
    networkManagementDeviceDescriptionListData |->
        [Listed(<<"deviceAddress">>, {"deviceType"}) EXCEPT !.unsorted =
            {"deviceAddress"}],
    networkManagementEntityDescriptionListData |->
        [Listed(<<"entityAddress">>, {"entityType"}) EXCEPT !.unsorted =
            {"entityAddress"}],
    networkManagementFeatureDescriptionListData |->
        [Listed(<<"featureAddress">>, {"featureType"}) EXCEPT !.unsorted =
            {"featureAddress"}]]

NodeManagement == [
    nodeManagementDestinationListData |-> Listed(<<>>, {})]

OperatingConstraints == [
    operatingConstraintsInterruptListData |-> Numbered("sequenceId"),
    operatingConstraintsDurationListData |-> Numbered("sequenceId"),
    operatingConstraintsPowerDescriptionListData |-> Numbered("sequenceId"),
    operatingConstraintsPowerRangeListData |-> Numbered("sequenceId"),
    operatingConstraintsPowerLevelListData |-> Numbered("sequenceId"),
    operatingConstraintsResumeImplicationListData |-> Numbered("sequenceId")]

PowerTimeSlots == [
    powerTimeSlotScheduleListData |-> Keyed("sequenceId", {"slotNumber"}),
    powerTimeSlotValueListData |->
        Keyed("sequenceId", {"slotNumber", "valueType"}),
    powerTimeSlotScheduleConstraintsListData |->
        Keyed("sequenceId", {"slotNumber"}),
    powerSequenceAlternativesRelationListData |-> Numbered("alternativesId"),
    powerSequenceDescriptionListData |-> Listed(<<"sequenceId">>, {})]

PowerSequences == [
    powerSequenceStateListData |-> Numbered("sequenceId"),
    powerSequenceScheduleListData |-> Numbered("sequenceId"),
    powerSequenceScheduleConstraintsListData |-> Numbered("sequenceId"),
    powerSequencePriceListData |->
        [Numbered("sequenceId") EXCEPT !.ignored =
            {"potentialStartTimeInterval"}],
    powerSequenceSchedulePreferenceListData |-> Numbered("sequenceId")]

Sensing == [
    sensingListData |->
        [Listed(<<>>, {}) EXCEPT !.ignored = {"timestampInterval"}]]

Setpoint == [
    setpointListData |->
        [Numbered("setpointId") EXCEPT !.check = {"isSetpointChangeable"}],
    setpointConstraintsListData |-> Numbered("setpointId"),
    setpointDescriptionListData |->
        Keyed("setpointId", {"measurementId", "timeTableId", "setpointType",
            "scopeType"})]

StateInformation == [
    stateInformationListData |->
        Keyed("stateInformationId", {"stateInformation", "isActive",
            "category"})]

SubscriptionManagement == [
    subscriptionManagementEntryListData |-> Numbered("subscriptionId")]

SupplyConditions == [
    supplyConditionListData |->
        [Keyed("conditionId", {"eventType", "originator"}) EXCEPT !.ignored =
            {"timestampInterval"}],
    supplyConditionDescriptionListData |-> Numbered("conditionId"),
    supplyConditionThresholdRelationListData |-> Numbered("conditionId")]

Tariffs == [
    tariffListData |-> Numbered("tariffId"),
    tariffTierRelationListData |-> Numbered("tariffId"),
    tariffBoundaryRelationListData |-> Numbered("tariffId"),
    tariffDescriptionListData |->
        Keyed("tariffId", {"commodityId", "measurementId", "scopeType"}),
    tierBoundaryListData |-> Numbered("boundaryId"),
    tierBoundaryDescriptionListData |-> Keyed("boundaryId", {"boundaryType"})]

Tiers == [
    commodityListData |-> Keyed("commodityId", {"commodityType"}),
    tierListData |-> Numbered("tierId"),
    tierIncentiveRelationListData |-> Numbered("tierId"),
    tierDescriptionListData |-> Keyed("tierId", {"tierType"}),
    incentiveListData |->
        [Keyed("incentiveId", {"valueType"}) EXCEPT !.ignored =
            {"timestampInterval"}],
    incentiveDescriptionListData |-> Keyed("incentiveId", {"incentiveType"})]

TaskManagement == [
    taskManagementJobListData |-> Keyed("jobId", {"jobState"}),
    taskManagementJobRelationListData |-> Numbered("jobId"),
    taskManagementJobDescriptionListData |-> Keyed("jobId", {"jobSource"})]

Threshold == [
    thresholdListData |-> Numbered("thresholdId"),
    thresholdConstraintsListData |-> Numbered("thresholdId"),
    thresholdDescriptionListData |-> Keyed("thresholdId", {"scopeType"})]

TimeSeries == [
    timeSeriesListData |->
        [Numbered("timeSeriesId") EXCEPT !.ignored = {"timeSeriesSlotId"}],
    timeSeriesDescriptionListData |->
        Keyed("timeSeriesId", {"timeSeriesType", "measurementId",
            "scopeType"}),
    timeSeriesConstraintsListData |-> Numbered("timeSeriesId")]

TimeTable == [
    timeTableListData |-> Keyed("timeTableId", {"timeSlotId"}),
    timeTableConstraintsListData |-> Numbered("timeTableId"),
    timeTableDescriptionListData |-> Numbered("timeTableId")]

UseCaseInformation == [
    useCaseInformationListData |-> Listed(<<>>, {"actor"})]

Version == [
    specificationVersionListData |-> Listed(<<>>, {})]

(* The tags of every list, by its function.                                *)
Schemas == Alarm @@ Bill @@ BindingManagement @@ DeviceConfiguration @@
    DirectControl @@ ElectricalConnectionParameters @@ ElectricalConnections
    @@ HvacSystemFunctions @@ HvacOverruns @@ Identification @@ LoadControl
    @@ Measurement @@ Messaging @@ NetworkManagement @@ NodeManagement @@
    OperatingConstraints @@ PowerTimeSlots @@ PowerSequences @@ Sensing @@
    Setpoint @@ StateInformation @@ SubscriptionManagement @@
    SupplyConditions @@ Tariffs @@ Tiers @@ TaskManagement @@ Threshold @@
    TimeSeries @@ TimeTable @@ UseCaseInformation @@ Version

-----------------------------------------------------------------------------
(* The lists whose type implements Updater.  All of these methods hand     *)
(* their own list to UpdateList, and keep the result of a success if it is *)
(* to be persisted.                                                        *)
AlarmUpdaters == DOMAIN Alarm
BillUpdaters == DOMAIN Bill
BindingManagementUpdaters == DOMAIN BindingManagement
DeviceConfigurationUpdaters == DOMAIN DeviceConfiguration
ElectricalConnectionUpdaters ==
    DOMAIN ElectricalConnectionParameters \cup DOMAIN ElectricalConnections
HvacUpdaters == DOMAIN HvacSystemFunctions \cup DOMAIN HvacOverruns
IdentificationUpdaters == DOMAIN Identification
LoadControlUpdaters == DOMAIN LoadControl
MeasurementUpdaters == DOMAIN Measurement
MessagingUpdaters == DOMAIN Messaging
NetworkManagementUpdaters == DOMAIN NetworkManagement
NodeManagementUpdaters == DOMAIN NodeManagement
OperatingConstraintsUpdaters == DOMAIN OperatingConstraints
PowerSequencesUpdaters == DOMAIN PowerTimeSlots \cup DOMAIN PowerSequences
SetpointUpdaters == DOMAIN Setpoint \ {"setpointConstraintsListData"}
StateInformationUpdaters == DOMAIN StateInformation
SubscriptionManagementUpdaters == DOMAIN SubscriptionManagement
SupplyConditionsUpdaters == DOMAIN SupplyConditions
TariffInformationUpdaters == DOMAIN Tariffs \cup DOMAIN Tiers
TaskManagementUpdaters == DOMAIN TaskManagement
ThresholdUpdaters == DOMAIN Threshold
TimeSeriesUpdaters == DOMAIN TimeSeries
TimeTableUpdaters == DOMAIN TimeTable
VersionUpdaters == DOMAIN Version

Updaters == UNION {AlarmUpdaters, BillUpdaters, BindingManagementUpdaters,
    DeviceConfigurationUpdaters, ElectricalConnectionUpdaters, HvacUpdaters,
    IdentificationUpdaters, LoadControlUpdaters, MeasurementUpdaters,
    MessagingUpdaters, NetworkManagementUpdaters, NodeManagementUpdaters,
    OperatingConstraintsUpdaters, PowerSequencesUpdaters, SetpointUpdaters,
    StateInformationUpdaters, SubscriptionManagementUpdaters,
    SupplyConditionsUpdaters, TariffInformationUpdaters,
    TaskManagementUpdaters, ThresholdUpdaters, TimeSeriesUpdaters,
    TimeTableUpdaters, VersionUpdaters}
SupportsPartialWrite(function) == function \in Updaters

-----------------------------------------------------------------------------
(* The tags of the filter's fields by which Data finds what a filter       *)
(* carries: the selectors of one list and the elements of another are not  *)
(* found, and SetDataForFunction does not find the selectors of two.       *)
UnreadSelectors == {"measurementSeriesListData"}
UnreadElements == {"setpointDescriptionListData"}
UnsentSelectors ==
    UnreadSelectors \cup {"networkManagementFeatureDescriptionListData"}

-----------------------------------------------------------------------------
(* The functions of each feature type.                                     *)
NodeManagementFunctions ==
    DOMAIN NodeManagement \cup
        {"nodeManagementDetailedDiscoveryData", "nodeManagementUseCaseData"}

FunctionsAToM == [
    ActuatorLevel |-> {"actuatorLevelData", "actuatorLevelDescriptionData"},
    ActuatorSwitch |->
        {"actuatorSwitchData", "actuatorSwitchDescriptionData"},
    Alarm |-> DOMAIN Alarm,
    Bill |-> DOMAIN Bill,
    DataTunneling |-> {"dataTunnelingCall"},
    DeviceClassification |->
        {"deviceClassificationManufacturerData",
            "deviceClassificationUserData"},
    DeviceConfiguration |-> DOMAIN DeviceConfiguration,
    DeviceDiagnosis |->
        {"deviceDiagnosisStateData", "deviceDiagnosisHeartbeatData",
            "deviceDiagnosisServiceData"},
    DirectControl |->
        DOMAIN DirectControl \cup {"directControlDescriptionData"},
    ElectricalConnection |->
        DOMAIN ElectricalConnectionParameters \cup DOMAIN
            ElectricalConnections \cup
            {"electricalConnectionCharacteristicData"},
    HVAC |-> DOMAIN HvacSystemFunctions \cup DOMAIN HvacOverruns,
    Identification |-> DOMAIN Identification,
    IncentiveTable |->
        {"incentiveTableDescriptionData", "incentiveTableConstraintsData",
            "incentiveTableData"},
    LoadControl |-> DOMAIN LoadControl \cup {"loadControlNodeData"},
    Measurement |-> DOMAIN Measurement,
    Messaging |-> DOMAIN Messaging]

FunctionsMToZ == [
    NetworkManagement |->
        DOMAIN NetworkManagement \cup {"networkManagementAbortCall",
            "networkManagementAddNodeCall", "networkManagementDiscoverCall",
            "networkManagementJoiningModeData",
            "networkManagementModifyNodeCall",
            "networkManagementProcessStateData",
            "networkManagementRemoveNodeCall",
            "networkManagementReportCandidateData",
            "networkManagementScanNetworkCall"},
    OperatingConstraints |-> DOMAIN OperatingConstraints,
    PowerSequences |->
        DOMAIN PowerTimeSlots \cup DOMAIN PowerSequences \cup
            {"powerSequenceNodeScheduleInformationData",
            "powerSequencePriceCalculationRequestCall",
            "powerSequenceScheduleConfigurationRequestCall"},
    Sensing |-> DOMAIN Sensing \cup {"sensingDescriptionData"},
    Setpoint |-> DOMAIN Setpoint,
    SmartEnergyManagementPs |->
        {"smartEnergyManagementPsConfigurationRequestCall",
            "smartEnergyManagementPsData",
            "smartEnergyManagementPsPriceCalculationRequestCall",
            "smartEnergyManagementPsPriceData"},
    StateInformation |-> DOMAIN StateInformation,
    SupplyCondition |-> DOMAIN SupplyConditions,
    TariffInformation |->
        DOMAIN Tariffs \cup {"incentiveDescriptionListData",
            "incentiveListData", "tariffOverallConstraintsData",
            "tierDescriptionListData", "tierIncentiveRelationListData",
            "tierListData"},
    TaskManagement |->
        DOMAIN TaskManagement \cup {"taskManagementOverviewData"},
    Threshold |-> DOMAIN Threshold,
    TimeInformation |->
        {"timeDistributorData", "timeDistributorEnquiryCall",
            "timeInformationData", "timePrecisionData"},
    TimeSeries |-> DOMAIN TimeSeries,
    TimeTable |-> DOMAIN TimeTable]

FunctionsByType == FunctionsAToM @@ FunctionsMToZ

(* A generic feature has the functions of all but the node management.     *)
CreateFunctionData(featureType) ==
    CASE featureType = "NodeManagement" -> NodeManagementFunctions
      [] featureType = "Generic" ->
            UNION {FunctionsByType[f] : f \in DOMAIN FunctionsByType}
      [] OTHER -> FunctionsByType[featureType]
=============================================================================
