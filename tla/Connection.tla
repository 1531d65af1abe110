----------------------------- MODULE Connection -----------------------------
(***************************************************************************)
(* The connection protocol of src/rxc/src/logic.c: one rxc_connection      *)
(* between a source logic and a sink logic, seen as an open system.  The   *)
(* sink side may call pull and cancel on the inlet, the source side emit,  *)
(* fail and complete on the outlet, in any order and as often as it likes, *)
(* which is what the public API (logic.h) allows.  Each call runs to its   *)
(* end in one step: the connection updates `requested` before it calls    *)
(* back, and nothing it does after the callback reads the connection, so a *)
(* re-entrant call made from the callback sees the state of that step.     *)
(* What each callback then does is the business of the logic called back  *)
(* (see Stream.tla); here it is recorded in `delivered`.                   *)
(*                                                                         *)
(* `requested` is a C long of W bits.  LONG_MIN marks the connection       *)
(* closed, LONG_MAX is unbounded demand.  The sum in the pull is a signed  *)
(* overflow, undefined in C; the build wraps it (two's complement), and    *)
(* the code then clamps any negative result to LONG_MAX.                   *)
(***************************************************************************)
EXTENDS Integers, Sequences, SequencesExt

CONSTANTS
    W,          \* width of a C long in bits
    PullSizes,  \* the amounts a sink may pull (n > 0)
    MaxCalls,   \* bound on the number of protocol calls made
    Unbounded   \* model value for the abstract unbounded demand

ASSUME W \in 2..16 /\ PullSizes \subseteq 1..(2^(W-1) - 1)
ASSUME MaxCalls \in Nat

VARIABLES
    requested,  \* rxc_connection.requested
    delivered,  \* the callbacks the connection made, in order
    calls       \* number of protocol calls made so far (bounds the model)

vars == <<requested, delivered, calls>>

LongMin == -(2^(W-1))
LongMax == 2^(W-1) - 1

\* logic.h:101-121 struct rxc_connection: of its fields only the long
\* `requested` is state; the inlet, source and sink logic are fixed.
Requested == LongMin..LongMax

\* Two's complement wrap of a W-bit signed result.
Wrap(x) == ((x - LongMin) % (2^W)) + LongMin

\* Variant: the overflowed sum kept as it wrapped, without the clamp.
AddSaturatingUnclamped(r, n) == Wrap(r + n)

\* logic.c:28-33: add n, clamp an overflowed (negative) sum to LONG_MAX.
AddSaturating(r, n) ==
    LET s == Wrap(r + n) IN IF s < 0 THEN LongMax ELSE s

\* Variant: LONG_MAX decremented like any other demand.
DecrementAlways(r) == r - 1

\* logic.c:82-85: LONG_MAX means unbounded and is not decremented.
Decrement(r) == IF r # LongMax THEN r - 1 ELSE r

\* Variant: zero demand counted as available.
AvailableNonNegative(r) == r >= 0

\* logic.c:68-71 rxc_outlet_available and the guard of emit (logic.c:78).
Available(r) == r > 0

Closed(r) == r = LongMin

Signal(s, v) == [sig |-> s, val |-> v]

Call == calls < MaxCalls /\ calls' = calls + 1

(***************************************************************************)
(* The inlet: calls of the sink logic.                                     *)
(***************************************************************************)
InletPull(n) ==
    /\ Call
    /\ \/ /\ Closed(requested)
          /\ UNCHANGED <<requested, delivered>>
       \/ /\ ~Closed(requested)
          /\ requested' = AddSaturating(requested, n)
          /\ delivered' = Append(delivered, Signal("on_pull", n))

InletCancel ==
    /\ Call
    /\ \/ /\ Closed(requested)
          /\ UNCHANGED <<requested, delivered>>
       \/ /\ ~Closed(requested)
          /\ requested' = LongMin
          /\ delivered' = Append(delivered, Signal("on_downstream_finish", 0))

(***************************************************************************)
(* The outlet: calls of the source logic.                                  *)
(***************************************************************************)
OutletEmit ==
    /\ Call
    /\ \/ /\ ~Available(requested)
          /\ UNCHANGED <<requested, delivered>>
       \/ /\ Available(requested)
          /\ requested' = Decrement(requested)
          /\ delivered' = Append(delivered, Signal("on_push", 0))

OutletFail ==
    /\ Call
    /\ \/ /\ Closed(requested)
          /\ UNCHANGED <<requested, delivered>>
       \/ /\ ~Closed(requested)
          /\ requested' = LongMin
          /\ delivered' = Append(delivered, Signal("on_upstream_failure", 0))

\* Variant: complete without the LONG_MIN check.
OutletCompleteUnchecked ==
    /\ Call
    /\ requested' = LongMin
    /\ delivered' = Append(delivered, Signal("on_upstream_finish", 0))

OutletComplete ==
    /\ Call
    /\ \/ /\ Closed(requested)
          /\ UNCHANGED <<requested, delivered>>
       \/ /\ ~Closed(requested)
          /\ requested' = LongMin
          /\ delivered' = Append(delivered, Signal("on_upstream_finish", 0))

\* logic.c:60 rxc_connection_create: no demand, nothing delivered yet.
Init ==
    /\ requested = 0
    /\ delivered = <<>>
    /\ calls = 0

Next ==
    \/ \E n \in PullSizes : InletPull(n)
    \/ InletCancel
    \/ OutletEmit
    \/ OutletFail
    \/ OutletComplete

Spec == Init /\ [][Next]_vars

-----------------------------------------------------------------------------
(***************************************************************************)
(* Properties.                                                             *)
(***************************************************************************)
TerminalSignals ==
    {"on_downstream_finish", "on_upstream_finish", "on_upstream_failure"}

IsPush(s) == s.sig = "on_push"
IsPull(s) == s.sig = "on_pull"

PushesIn(h) == Len(SelectSeq(h, IsPush))
GrantedIn(h) == FoldLeft(LAMBDA acc, s : acc + s.val, 0, SelectSeq(h, IsPull))
Pushes == PushesIn(delivered)
Granted == GrantedIn(delivered)

\* The demand pulled and not yet pushed after the first k callbacks.
Outstanding(k) ==
    LET h == SubSeq(delivered, 1, k) IN GrantedIn(h) - PushesIn(h)

TypeOK ==
    /\ requested \in Requested
    /\ delivered \in Seq([sig : TerminalSignals \cup {"on_pull", "on_push"},
                          val : 0..LongMax])
    /\ calls \in 0..MaxCalls

\* Spec 4.1 and invariant 2: whichever of cancel, complete and fail comes
\* first is the last callback the connection ever makes, in either
\* direction: at most one terminal signal, and no on_pull or on_push after it
\* (the LONG_MIN checks of logic.c:24, 43, 78, 96 and 109).
QuietAfterTerminal ==
    \A i \in 1..Len(delivered) :
        delivered[i].sig \in TerminalSignals => i = Len(delivered)

\* The long `requested` of an open connection is exactly the demand pulled
\* and not yet pushed, until that demand first reaches LONG_MAX; from then
\* on it is LONG_MAX for good.  It is the overflow of `requested += n` and
\* its clamp (logic.c:28-33) together with the decrement of emit
\* (logic.c:82-85), over every sequence of pulls and pushes.
DemandAccounted ==
    ~Closed(requested) =>
        requested = IF \E k \in 1..Len(delivered) : Outstanding(k) >= LongMax
                    THEN LongMax
                    ELSE Outstanding(Len(delivered))

\* Spec 8, first property: the elements pushed never outnumber the sum of
\* the pulls (the rxc_outlet_emit guard, logic.c:78-85), unless that sum has
\* reached LONG_MAX, where the saturating add of logic.c:28-33 makes the
\* demand unbounded.
Backpressure ==
    Pushes <= Granted \/ Granted >= LongMax

\* The refinement mapping: LONG_MIN is a closed connection, LONG_MAX is
\* unbounded demand, any other value is the exact outstanding demand.
Abstract == INSTANCE Demand WITH
    Cap <- LongMax,
    Sizes <- PullSizes,
    open <- ~Closed(requested),
    demand <- CASE Closed(requested)      -> 0
                [] requested = LongMax    -> Unbounded
                [] OTHER                  -> requested

\* The sentinel-encoded counter of logic.c implements the abstract demand
\* protocol of Demand.tla: overflow, saturation and the terminal sentinel
\* never make a step the abstract connection could not make.
DemandRefinement == Abstract!Spec

=============================================================================
