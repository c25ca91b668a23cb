SPECIFICATION Spec
CONSTANTS
    Clients = {c1, c2}
    Human = human
    MaxEdits = 0
    MaxFaults = 1
    Absent = Absent
    Torn = Torn
    NoClient = NoClient
SYMMETRY ClientPerms
INVARIANT PreparedJournalResolves
CHECK_DEADLOCK FALSE
