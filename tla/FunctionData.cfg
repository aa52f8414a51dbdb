SPECIFICATION Spec
CONSTANTS
    Functions = {"loadControlLimitListData", "electricalConnectionPermittedValueSetListData", "timeSeriesListData", "setpointConstraintsListData", "measurementSeriesListData"}
    KeyValues = {1, 2}
    Initially = "a"
    RestValues = {"b"}
    MaxCalls = 2
    MaxRequests = 1

    
    
PROPERTIES
    RepeatedWriteSettles
    
CHECK_DEADLOCK FALSE
