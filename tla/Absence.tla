------------------------------- MODULE Absence -------------------------------
(* What a declaration leaves out, or a device does not have: undefined in  *)
(* the source, for a property, an object and a class alike.                *)
CONSTANT Unsaid
=============================================================================
