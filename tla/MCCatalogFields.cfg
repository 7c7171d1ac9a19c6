\* A profile that changes while the entry is not loaded.
SPECIFICATION Spec
CONSTANTS
    u1 = u1  u2 = u2  counter = counter  climate = climate  unknown = unknown
    Uid = {u1, u2}
    Profile = {counter, climate, unknown}
    Tables <- MCTables
    Key = {"radio", "count", "converted_total", "value", "alarm"}
    Keys <- MCKeys
    MaxLoads = 2
INVARIANTS
    FieldsFollowProfile
CHECK_DEADLOCK FALSE
