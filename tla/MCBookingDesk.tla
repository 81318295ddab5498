--------------------------- MODULE MCBookingDesk ---------------------------
\* Instances of BookingDesk for TLC: the bound is MaxRows, the rows inserted.
EXTENDS BookingDesk, TLC

DeskSymmetry ==
    Permutations(Employees) \union Permutations(Shifts) \union Permutations(Calls)
=============================================================================
