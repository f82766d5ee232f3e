CONSTANTS
    Actions = {a1, a2}
    Targets = {t1, t2}
    Supported = {t1}
    Users = {u1, u2}
    Admins = {u2}
    Categories = {"EXECUTABLE", "DESTRUCTIVE"}
    Payloads <- MCPayloads
    NoPayload = NoPayload
    NoUser = NoUser
    MaxEdits = 1
SYMMETRY MCSymmetry
SPECIFICATION Spec
CHECK_DEADLOCK FALSE
INVARIANTS
    OneCleared
    WriteAtMostOnce
    AnnouncedAfterWrite
PROPERTIES
    ApprovedPayloadWritten
    LargeNeedsApproval
