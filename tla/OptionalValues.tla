--------------------------- MODULE OptionalValues ---------------------------
(***************************************************************************)
(* What all modules of this project have in common: a field, a reference   *)
(* or a request may be left out.                                           *)
(***************************************************************************)

CONSTANT NoValue    \* Python's None

=============================================================================
