---------------------------- MODULE TimeoutHeap ----------------------------
(***************************************************************************)
(* The server's timeout heap (src/sas-server/src/timeout.c): a binary      *)
(* min-heap of session pointers in an array, ordered by each session's     *)
(* `timeout`.  The operators follow the C code with 0-based indices over a *)
(* sequence (element k of the array is h[k + 1]); the deadline of a        *)
(* session is looked up in the function `t` at the time of comparison, as  *)
(* the code dereferences session->timeout.                                 *)
(*                                                                         *)
(* The module's state machine adds and pops sessions with fixed deadlines, *)
(* so the operators can be held against the reference: the order of a     *)
(* min-heap and the minimum of what it holds.                              *)
(***************************************************************************)
EXTENDS Integers, Sequences, FiniteSets

CONSTANTS
    Sessions,   \* session pointers
    Deadlines,  \* values session->timeout may take
    MaxHeap,    \* bound on the number of entries
    Null        \* model value: NULL returned by pop on an empty heap

VARIABLES
    timeout,    \* session -> its deadline (fixed here)
    heap,       \* server->timeouts.heap[0 .. count-1]
    popped,     \* the result of the last sas_server_timeout_pop
    held        \* ghost: session -> adds minus pops

vars == <<timeout, heap, popped, held>>

At(h, k) == h[k + 1]

Swap(h, i, j) == [h EXCEPT ![i + 1] = h[j + 1], ![j + 1] = h[i + 1]]

\* Variant: the comparison of a max-heap.
RECURSIVE UpHeapReversed(_, _, _)
UpHeapReversed(h, index, t) ==
    IF index = 0 THEN h
    ELSE LET parent == (index - 1) \div 2
         IN  IF t[At(h, parent)] > t[At(h, index)]
                THEN h
                ELSE UpHeapReversed(Swap(h, index, parent), parent, t)

\* timeout.c:39-53: bubble the new entry up while its parent is not
\* strictly smaller.
RECURSIVE UpHeap(_, _, _)
UpHeap(h, index, t) ==
    IF index = 0 THEN h
    ELSE LET parent == (index - 1) \div 2
         IN  IF t[At(h, parent)] < t[At(h, index)]
                THEN h
                ELSE UpHeap(Swap(h, index, parent), parent, t)

\* timeout.c:23-54; the realloc doubling the capacity only moves memory.
TimeoutAdd(h, s, t) == UpHeap(Append(h, s), Len(h), t)

\* timeout.c:56-80.  The second test compares the right child but records
\* the left one as the lowest (line 69).
RECURSIVE Heapify(_, _, _)
Heapify(h, index, t) ==
    LET left   == 2 * index + 1
        right  == left + 1
        byLeft == IF Len(h) > left /\ t[At(h, left)] < t[At(h, index)]
                     THEN left ELSE index
        lowest == IF Len(h) > right /\ t[At(h, right)] < t[At(h, byLeft)]
                     THEN left ELSE byLeft
    IN  IF lowest # index
           THEN Heapify(Swap(h, lowest, index), lowest, t)
           ELSE h

\* Variant: pop drops the last entry and leaves the minimum at the root.
TimeoutPopKeepRoot(h, t) == SubSeq(h, 1, Len(h) - 1)

\* Variant: the count not decremented, the last entry left in place.
TimeoutPopNoShrink(h, t) == Heapify([h EXCEPT ![1] = h[Len(h)]], 0, t)

\* timeout.c:89-91: the last entry replaces the root, the count shrinks, and
\* the root sifts down.
TimeoutPop(h, t) ==
    Heapify(SubSeq([h EXCEPT ![1] = h[Len(h)]], 1, Len(h) - 1), 0, t)

Init ==
    /\ timeout \in [Sessions -> Deadlines]
    /\ heap = <<>>
    /\ popped = Null
    /\ held = [s \in Sessions |-> 0]

\* sas_server_timeout_add, for any session, as often as the server calls it.
Add(s) ==
    /\ Len(heap) < MaxHeap
    /\ heap' = TimeoutAdd(heap, s, timeout)
    /\ held' = [held EXCEPT ![s] = @ + 1]
    /\ UNCHANGED <<timeout, popped>>

\* sas_server_timeout_pop (timeout.c:82-93); on an empty heap it returns
\* NULL and changes nothing, which the server loop handles (Server.tla).
Pop ==
    /\ heap # <<>>
    /\ popped' = heap[1]
    /\ heap' = TimeoutPop(heap, timeout)
    /\ held' = [held EXCEPT ![heap[1]] = @ - 1]
    /\ UNCHANGED timeout

Next ==
    \/ \E s \in Sessions : Add(s)
    \/ Pop

Spec == Init /\ [][Next]_vars

-----------------------------------------------------------------------------
(***************************************************************************)
(* Properties, against the reference definitions of a min-heap.            *)
(***************************************************************************)
IsMinHeap(h, t) ==
    \A k \in 1..(Len(h) - 1) : t[At(h, (k - 1) \div 2)] <= t[At(h, k)]

Occurrences(h, s) == Cardinality({i \in 1..Len(h) : h[i] = s})

TypeOK ==
    /\ timeout \in [Sessions -> Deadlines]
    /\ heap \in Seq(Sessions)
    /\ Len(heap) <= MaxHeap
    /\ popped \in Sessions \cup {Null}
    /\ held \in [Sessions -> 0..MaxHeap]

\* The swaps of add and pop only move entries: the heap holds every session
\* exactly as often as it was added and not yet popped (the last entry
\* moved to the root in timeout.c:90 is not lost or duplicated).
HeapConserves == \A s \in Sessions : Occurrences(heap, s) = held[s]

\* sas_server_timeout_add keeps a min-heap a min-heap, including for equal
\* deadlines, where the code swaps (timeout.c:42).
AddKeepsOrder ==
    [][\A s \in Sessions :
          Add(s) /\ IsMinHeap(heap, timeout) => IsMinHeap(heap', timeout)]_vars

\* The server expires the earliest deadline first (server.c pops the heap
\* and tests its result): pop returns an entry whose deadline is the least
\* in the heap.
PopReturnsMinimum ==
    [][Pop =>
         \A i \in 1..Len(heap) : timeout[popped'] <= timeout[heap[i]]]_vars

=============================================================================
