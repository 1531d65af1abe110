--------------------------- MODULE MCTimeoutHeap ---------------------------
(***************************************************************************)
(* Four sessions with deadlines among three values: enough for equal       *)
(* deadlines, and for a heap of four whose second pop sifts a root down    *)
(* past two children.                                                      *)
(***************************************************************************)
EXTENDS TimeoutHeap

CONSTANTS s1, s2, s3, s4

MC_Sessions == {s1, s2, s3, s4}
MC_Deadlines == 1..3
MC_MaxHeap == 4

=============================================================================
