---------------------------- MODULE MCCallDeadline ----------------------------
(***************************************************************************)
(* Scaled timeouts in the order of the real ones: cancel 1 s < request 3 s *)
(* < default 4 s < max 7 s, two ticks a second.  A duration wraps at 64    *)
(* ticks, so up to 31 seconds are in range and more are not.               *)
(***************************************************************************)
EXTENDS CallDeadline

MCAskedSeconds == {-1, 0, 1, 2, 3, 4, 6, 7, 8, 20, 31, 32, 33, 64, 65, 67, 80}

=============================================================================
