-------------------------------- MODULE Absence --------------------------------
(***************************************************************************)
(* What is absent, undefined or null, where the code tells it from a value. *)
(***************************************************************************)
CONSTANT None

OrElse(value, other) == IF value = None THEN other ELSE value
=============================================================================
