\* Two keys changed twice, one call that fails, and room for every item that may be made.
SPECIFICATION LiveSpec
CONSTANTS
    Key = {k1, k2}
    Unkeyed = none
    Loop = loop
    Api = {api}
    MaxItems = 5
    MaxChanges = 2
    MaxRequests = 1
    MaxFaults = 1
INVARIANTS OneItemPerKey
PROPERTIES PanelCatchesUp
CHECK_DEADLOCK FALSE
