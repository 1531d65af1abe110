---------------------------- MODULE MCConnection ----------------------------
(***************************************************************************)
(* Connection for TLC: a 4-bit long (LONG_MIN = -8, LONG_MAX = 7), so that *)
(* a few pulls overflow; pulls of 1, of 3 and of LONG_MAX (the usual       *)
(* "unbounded" request); six protocol calls.                               *)
(***************************************************************************)
EXTENDS Connection

MC_W == 4
MC_PullSizes == {1, 3, 2^(MC_W - 1) - 1}
MC_MaxCalls == 6

=============================================================================
