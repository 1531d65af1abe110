------------------------------- MODULE Demand -------------------------------
(***************************************************************************)
(* The abstract promise of one rxc connection (spec sections 3 and 4.1),    *)
(* with the sentinel encoding of src/rxc/src/logic.c taken away: a         *)
(* connection is open with an outstanding demand, which is a natural number *)
(* or Unbounded, or it is closed for good.                                 *)
(*                                                                         *)
(*  - Grant(n): the consumer pulls n > 0; the demand grows by n, and a     *)
(*    demand that reaches Cap, the largest representable count, becomes    *)
(*    Unbounded for ever.                                                  *)
(*  - Deliver: the producer hands over one element; only with demand, and  *)
(*    an Unbounded demand is never used up.                                *)
(*  - Close: the first terminal signal, from either side; nothing happens  *)
(*    on a closed connection again.                                        *)
(***************************************************************************)
EXTENDS Naturals

CONSTANTS
    Cap,        \* the largest representable demand (LONG_MAX in the code)
    Unbounded,  \* a model value: demand that is never used up
    Sizes       \* the pull amounts the refining specification may use

ASSUME Cap \in Nat \ {0} /\ Sizes \subseteq Nat \ {0}

VARIABLES
    demand,     \* outstanding demand of the open connection
    open        \* FALSE once a terminal signal has been given

vars == <<demand, open>>

TypeOK ==
    /\ demand \in 0..(Cap - 1) \cup {Unbounded}
    /\ open \in BOOLEAN

Init ==
    /\ demand = 0
    /\ open = TRUE

Grant(n) ==
    /\ open
    /\ demand' = IF demand = Unbounded \/ demand + n >= Cap
                    THEN Unbounded
                    ELSE demand + n
    /\ UNCHANGED open

Deliver ==
    /\ open
    /\ demand # 0
    /\ demand' = IF demand = Unbounded THEN Unbounded ELSE demand - 1
    /\ UNCHANGED open

Close ==
    /\ open
    /\ open' = FALSE
    /\ demand' = 0

Next ==
    \/ \E n \in Sizes : Grant(n)
    \/ Deliver
    \/ Close

Spec == Init /\ [][Next]_vars

=============================================================================
