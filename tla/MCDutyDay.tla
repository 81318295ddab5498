----------------------------- MODULE MCDutyDay -----------------------------
\* The instance of DutyDay for TLC, with the fleet of MCFleetTrips.
EXTENDS MCFleetTrips, DutyDay
=============================================================================
