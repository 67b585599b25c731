------------------------- MODULE MCStatementClient -------------------------
(***************************************************************************)
(* Small instance of StatementClient: caps of one to three rows asked for, *)
(* defaulted and clamped, pages of none, one or two rows, so that the cap  *)
(* is missed, met exactly, passed by one and passed by a whole page.       *)
(***************************************************************************)
EXTENDS StatementClient

MCAskedRows == {-1, 0, 1, 2, 3, 4}
MCPageSizes == 0 .. 2

=============================================================================
