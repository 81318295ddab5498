SPECIFICATION Spec
CONSTANTS
    Employees = {e1}
    Shifts = {s1, s2}
    Calls = {k1}
    MaxRows = 3
SYMMETRY DeskSymmetry
INVARIANTS OneBookingPerShift
