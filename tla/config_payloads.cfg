SPECIFICATION Spec
CONSTANTS
    Absent = Absent
    Device = Device
    Gone = Gone
    BrandRefused <- MCBrandRefused
    RawItems <- MCRawItems
    Values <- MCValues
    Refused <- MCRefused
    Numerals = {"1", "1.5"}
    MaxItems = 2
INVARIANTS ZigbeeEcho MqttEcho DefaultsAccepted ConditionsMeetable ActionMeets
CHECK_DEADLOCK FALSE
