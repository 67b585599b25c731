--------------------------- MODULE MCServingProcess ---------------------------
(***************************************************************************)
(* One call with a cap of one row, so that it is truncated, complete or    *)
(* failed, and optionally a held-open stream beside it.                    *)
(***************************************************************************)
EXTENDS ServingProcess

MCAskedRows == {1}
MCPageSizes == 0 .. 2

=============================================================================
