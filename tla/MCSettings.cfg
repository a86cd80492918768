SPECIFICATION Spec
CONSTANTS
    a = a
    b = b
    Procs = {a, b}
    None = None
    Absent = Absent
    Empty = Empty
    Torn = Torn
    MaxEdits = 3
    MaxFaults = 2
SYMMETRY Symmetry
CONSTRAINT Small
INVARIANTS NeverLost NoLostUpdate NoLostChange
