----------------------------- MODULE BoundedWork -----------------------------
(***************************************************************************)
(* What the backend takes on besides its terminals, side by side: scans    *)
(* and diagnostics with their registries (NetworkManager), and refreshes   *)
(* of the list of serial devices with their worker slots.  The two share   *)
(* nothing, and either proceeds whatever the other does.                   *)
(***************************************************************************)
EXTENDS NetworkJobs, SerialDevices

WorkSpec == NetworkSpec /\ ListSpec

\* Scans are exact, registries and slots keep to their numbers.
NetworkIsExact == ScansAreExact /\ NetworkIsBounded /\ SlotsAccounted
=============================================================================
