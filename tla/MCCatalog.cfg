\* Devices and entities over unloads and restarts.
SPECIFICATION Spec
CONSTANTS
    u1 = u1  u2 = u2  counter = counter  climate = climate  unknown = unknown
    Uid = {u1, u2}
    Profile = {counter, climate, unknown}
    Tables <- MCTables
    Key = {"radio", "count", "converted_total", "value", "alarm"}
    Keys <- MCKeys
    MaxLoads = 3
INVARIANTS
    TypeOK
    DeletedNodesLeaveNothing
    ActiveNodesAreComplete
    FieldsFollowWhileLoaded
PROPERTIES
    DormantNodesStay
CHECK_DEADLOCK FALSE
