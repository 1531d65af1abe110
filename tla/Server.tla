------------------------------- MODULE Server -------------------------------
(***************************************************************************)
(* The session bookkeeping of the sas server: the run loop of              *)
(* src/sas-server/src/server.c, the session table and state machine of     *)
(* session.c, and the timeout heap of timeout.c (through TimeoutHeap.tla). *)
(*                                                                         *)
(* The server is one thread.  Its only contact with the world is select:   *)
(* either a datagram arrives from some address before the earliest         *)
(* deadline, or the deadline passes.  Everything between two selects runs  *)
(* without interruption; the loop is split at the calls whose effects the  *)
(* properties tell apart (pop, the expiry loop, select with recvfrom and   *)
(* get, the state machine, the re-arm of the deadline), `pc` naming the    *)
(* next one.                                                               *)
(*                                                                         *)
(* Sessions are heap blocks: `Ids` are the pointers malloc may return,     *)
(* `mem` their contents and `alive` those currently allocated.  free only  *)
(* removes a pointer from `alive`; the block keeps its old contents until  *)
(* malloc hands it out again, which is what a read after free returns in   *)
(* the common build (the other outcomes of that undefined behaviour are    *)
(* not modelled; the read is flagged in `uaf`).  The table is one chain    *)
(* per bucket; an address's bucket is its djb2 hash modulo 32, computed   *)
(* from the address's bytes (AddrBytes).  The stream a session runs (Stream.tla) and   *)
(* the datagrams the server sends are left out: they do not change the     *)
(* table, the heap or the lifetime of a session.                           *)
(***************************************************************************)
EXTENDS Integers, Sequences, FiniteSets, SequencesExt, FiniteSetsExt

CONSTANTS
    Addrs,      \* client addresses: records [ip, port]
    AddrBytes,  \* address -> its 16 address and 2 port bytes, as sent
    Ids,        \* session pointers malloc may return (bounds live sessions)
    Flags,      \* flags a datagram may carry: subset of {"SYN","ACK","RST"}
    SynResults, \* outcome of opening the file and the WAV source on a SYN
    Timeout,    \* SAS_SERVER_SESSION_TIMEOUT, in ticks of time(NULL)
    MaxTime,    \* last tick at which a datagram may arrive
    MaxPackets, \* bound on the datagrams received
    Null        \* model value: NULL

VARIABLES
    mem,        \* pointer -> [addr, state, acked, timeout] (session contents)
    alive,      \* pointers currently allocated
    table,      \* bucket -> chain of pointers (server->sessions.table)
    count,      \* server->sessions.count
    heap,       \* server->timeouts.heap
    clock,      \* time(NULL)
    pc,         \* next step of sas_server_run
    ts,         \* local timeout_session
    now,        \* local now (server.c:105)
    session,    \* local session (server.c:151)
    pkt,        \* the datagram being handled: [from, flag, stale]
    packets,    \* datagrams received so far
    uaf         \* a freed session has been read, written or freed again

vars == <<mem, alive, table, count, heap, clock, pc, ts, now, session, pkt,
          packets, uaf>>

\* server.c:28, 38: the table's capacity, which nothing ever grows.
Capacity == 32

\* addr_hash copies the bytes into a char array: on the usual builds char
\* is signed, and a byte above 127 adds a negative value.
Char(b) == IF b > 127 THEN b - 256 ELSE b

\* session.c:41-54 addr_hash, djb2 (hash * 33 + c from 5381), modulo m.
\* The unsigned long wraps modulo 2^64, which m divides, so reducing at
\* every step gives hash % m without 64-bit values.
AddrHash(bytes, m) ==
    FoldLeft(LAMBDA h, c : (33 * h + Char(c)) % m, 5381 % m, bytes)

\* session.c:101 and 145: the bucket get and delete walk for an address.
\* (The pairs are a set so that they are computed once, not on each use.)
BucketPairs == {<<a, AddrHash(AddrBytes[a], Capacity)>> : a \in Addrs}
Bucket == [a \in Addrs |-> (CHOOSE p \in BucketPairs : p[1] = a)[2]]

Buckets == {Bucket[a] : a \in Addrs}

\* session.h:19-94 struct sas_server_session, with the fields the loop and
\* the table use: the client's address, the transport state, whether a
\* datagram has been acked (ack > 0, so header->seq < ack can hold), and the
\* deadline.  `next` is the position in the chain (SessionTable); seq, the
\* windows, the pipeline, the WAV format and fd belong to Transport.tla and
\* Stream.tla.
States == {"INITIAL", "SACK_SENT", "ESTABLSH"}

Session == [addr : Addrs \cup {Null}, state : States, acked : BOOLEAN,
            timeout : 0..(MaxTime + Timeout)]

\* session.h:99-114 struct sas_server_session_table: one chain per bucket.
SessionTable == [Buckets -> Seq(Ids)]

TH == INSTANCE TimeoutHeap WITH
    Sessions <- Ids, Deadlines <- Nat, MaxHeap <- 0,
    timeout <- [i \in Ids |-> 0], popped <- ts, held <- [i \in Ids |-> 0]

\* The deadlines the heap compares, read through the pointers.
Deadline(m) == [i \in Ids |-> m[i].timeout]

\* A step that dereferences the pointers in S.
Deref(S) == uaf' = (uaf \/ ~(S \subseteq alive))

\* Variant: the port comparison without the address comparison.
AddrEqIpOnly(a, b) == a.ip = b.ip

\* session.c:65-78 addr_eq, for two distinct pointers: a nonzero memcmp of
\* the addresses is returned as is, and callers read nonzero as equal.
AddrEq(a, b) == a.ip # b.ip \/ a.port = b.port

\* session.c:98-112: the first session of the chain whose address addr_eq
\* calls equal, and the prefix of the chain the walk reads.
Match(chain, a) == {i \in 1..Len(chain) : AddrEq(mem[chain[i]].addr, a)}

Walked(chain, hits) ==
    ToSet(SubSeq(chain, 1, IF hits = {} THEN Len(chain) ELSE Min(hits)))

\* Variant: the count decremented whether or not a session was unlinked.
DeleteCountAlways(s) ==
    LET b     == Bucket[mem[s].addr]
        chain == table[b]
        hits  == {i \in 1..Len(chain) :
                    chain[i] = s \/ AddrEq(mem[chain[i]].addr, mem[s].addr)}
    IN  /\ count' = count - 1
        /\ IF hits = {} THEN UNCHANGED <<table, alive>>
           ELSE /\ table' = [table EXCEPT ![b] = RemoveAt(chain, Min(hits))]
                /\ alive' = alive \ {s}

\* session.c:142-173 sas_server_session_delete: unlink the first session of
\* the chain that addr_eq calls equal to `s` (pointer equality counts, line
\* 68), but free `s` itself; if none matches, nothing happens.
DeleteSession(s) ==
    LET b     == Bucket[mem[s].addr]
        chain == table[b]
        hits  == {i \in 1..Len(chain) :
                    chain[i] = s \/ AddrEq(mem[chain[i]].addr, mem[s].addr)}
    IN  IF hits = {} THEN UNCHANGED <<table, alive, count>>
        ELSE /\ table' = [table EXCEPT ![b] = RemoveAt(chain, Min(hits))]
             /\ alive' = alive \ {s}
             /\ count' = count - 1

\* What delete reads: the session and the chain up to the match.
DeleteReads(s) ==
    LET chain == table[Bucket[mem[s].addr]]
    IN  {s} \cup Walked(chain, {i \in 1..Len(chain) :
                  chain[i] = s \/ AddrEq(mem[chain[i]].addr, mem[s].addr)})

\* Variant: a session expires only after its deadline, not at it.
ServerTimeoutStrict(s, t) ==
    IF t > mem[s].timeout THEN DeleteSession(s)
    ELSE UNCHANGED <<table, alive, count>>

\* timeout.c:16-21 sas_server_timeout: delete once the deadline has passed.
ServerTimeout(s, t) ==
    IF t >= mem[s].timeout THEN DeleteSession(s)
    ELSE UNCHANGED <<table, alive, count>>

\* timeout.c:82-93 sas_server_timeout_pop, NULL on an empty heap.
PopResult(h) == IF h = <<>> THEN Null ELSE h[1]
PopHeap(h) == IF h = <<>> THEN h ELSE TH!TimeoutPop(h, Deadline(mem))

(***************************************************************************)
(* The loop of sas_server_run (server.c:102-158).                          *)
(***************************************************************************)
\* server.c:104-105: take the earliest deadline, read the clock.
Pop ==
    /\ pc = "pop"
    /\ ts' = PopResult(heap)
    /\ heap' = PopHeap(heap)
    /\ now' = clock
    /\ pc' = "expire"
    /\ UNCHANGED <<mem, alive, table, count, clock, session, pkt, packets, uaf>>

\* server.c:108-111: delete sessions already expired, pop the next.
Expire ==
    /\ pc = "expire"
    /\ ts # Null
    /\ now >= mem[ts].timeout
    /\ ServerTimeout(ts, clock)
    /\ Deref(DeleteReads(ts))
    /\ ts' = PopResult(heap)
    /\ heap' = PopHeap(heap)
    /\ UNCHANGED <<mem, clock, pc, now, session, pkt, packets>>

\* server.c:108 false: no session, or one whose deadline is ahead.
ExpireDone ==
    /\ pc = "expire"
    /\ IF ts = Null THEN TRUE ELSE now < mem[ts].timeout
    /\ Deref(IF ts = Null THEN {} ELSE {ts})
    /\ pc' = "select"
    /\ UNCHANGED <<mem, alive, table, count, heap, clock, ts, now, session,
                   pkt, packets>>

\* server.c:114-131: select sleeps timeout - now and returns 0; then
\* sas_server_timeout on the session that was waited for.
SelectTimeout ==
    /\ pc = "select"
    /\ ts # Null
    /\ clock' = clock + (mem[ts].timeout - now)
    /\ ServerTimeout(ts, clock')
    /\ Deref(DeleteReads(ts))
    /\ pc' = "pop"
    /\ UNCHANGED <<mem, heap, ts, now, session, pkt, packets>>

\* The tick at which a datagram can arrive: before the deadline waited for.
ArrivalTimes ==
    clock..(IF ts = Null THEN MaxTime
            ELSE Min({MaxTime, clock + (mem[ts].timeout - now) - 1}))

\* Variant: the session waited for is not re-added.
ReAddNone == heap

\* server.c:133-136: the session waited for goes back into the heap.
ReAdd == IF ts = Null THEN heap ELSE TH!TimeoutAdd(heap, ts, Deadline(mem))

\* server.c:132-148 with recvfrom failing: re-add and continue.
RecvFailed ==
    /\ pc = "select"
    /\ packets < MaxPackets
    /\ clock' \in ArrivalTimes
    /\ heap' = ReAdd
    /\ packets' = packets + 1
    /\ pc' = "pop"
    /\ UNCHANGED <<mem, alive, table, count, ts, now, session, pkt, uaf>>
\* server.c:132-151: a datagram from `a` arrives; the session waited for is
\* re-added, and sas_server_session_get (session.c:98-140) returns the
\* first session of the chain addr_eq calls equal, or mallocs one, links it
\* at the tail and counts it.  A stale datagram (header->seq below the
\* session's ack, line 280) is a duplicate or late copy of an earlier one.
Receive ==
    /\ pc = "select"
    /\ packets < MaxPackets
    /\ clock' \in ArrivalTimes
    /\ heap' = ReAdd
    /\ packets' = packets + 1
    /\ pc' = "sm"
    /\ \E a \in Addrs, f \in Flags, stale \in BOOLEAN :
         LET b     == Bucket[a]
             chain == table[b]
             hits  == Match(chain, a)
         IN  /\ pkt' = [from |-> a, flag |-> f, stale |-> stale]
             /\ Deref(Walked(chain, hits))
             /\ \/ /\ hits # {}
                   /\ session' = chain[Min(hits)]
                   /\ UNCHANGED <<mem, alive, table, count>>
                \/ /\ hits = {}
                   /\ \E id \in Ids \ alive :
                        /\ session' = id
                        /\ mem' = [mem EXCEPT ![id] = [@ EXCEPT
                                     !.addr = a, !.state = "INITIAL",
                                     !.acked = FALSE]]
                        /\ alive' = alive \cup {id}
                        /\ table' = [table EXCEPT ![b] = Append(chain, id)]
                        /\ count' = count + 1
    /\ UNCHANGED <<ts, now>>

\* session.c:272-366 sas_server_session_state_machine.  A stale datagram is
\* dropped (280-284); otherwise the ack moves (295), an RST deletes the
\* session (298-301), and by state: INITIAL resets a datagram without SYN
\* (306-309) and on a SYN either fails to open the file or the WAV source
\* and deletes the session (315-337), or starts the stream and moves to
\* SACK_SENT (338-354; rxc_pipeline_start returns 0); SACK_SENT moves to
\* ESTABLSH and, like ESTABLSH, pulls one chunk (356-362).
StateMachine ==
    /\ pc = "sm"
    /\ pc' = "arm"
    /\ LET st    == mem[session].state
           acked == [mem EXCEPT ![session].acked = TRUE]
       IN  \/ /\ pkt.stale /\ mem[session].acked
              /\ Deref({session})
              /\ UNCHANGED <<mem, alive, table, count>>
           \/ /\ ~(pkt.stale /\ mem[session].acked)
              /\ \/ /\ pkt.flag = "RST"
                    /\ mem' = acked
                    /\ DeleteSession(session)
                    /\ Deref(DeleteReads(session))
                 \/ /\ pkt.flag # "RST"
                    /\ st = "INITIAL"
                    /\ pkt.flag # "SYN"
                    /\ mem' = acked
                    /\ Deref({session})
                    /\ UNCHANGED <<alive, table, count>>
                 \/ /\ pkt.flag = "SYN"
                    /\ st = "INITIAL"
                    /\ "error" \in SynResults
                    /\ mem' = acked
                    /\ DeleteSession(session)
                    /\ Deref(DeleteReads(session))
                 \/ /\ pkt.flag = "SYN"
                    /\ st = "INITIAL"
                    /\ "ok" \in SynResults
                    /\ mem' = [acked EXCEPT ![session].state = "SACK_SENT"]
                    /\ Deref({session})
                    /\ UNCHANGED <<alive, table, count>>
                 \/ /\ pkt.flag # "RST"
                    /\ st \in {"SACK_SENT", "ESTABLSH"}
                    /\ mem' = [acked EXCEPT ![session].state = "ESTABLSH"]
                    /\ Deref({session})
                    /\ UNCHANGED <<alive, table, count>>
    /\ UNCHANGED <<heap, clock, ts, now, session, pkt, packets>>

NoPacket == [from |-> Null, flag |-> "none", stale |-> FALSE]

\* server.c:155-156: the new deadline is written through the pointer the
\* state machine may have freed, and the session is added to the heap.
Arm ==
    /\ pc = "arm"
    /\ mem' = [mem EXCEPT ![session].timeout = clock + Timeout]
    /\ heap' = TH!TimeoutAdd(heap, session, Deadline(mem'))
    /\ Deref({session})
    /\ pc' = "pop"
    /\ session' = Null
    /\ pkt' = NoPacket
    /\ UNCHANGED <<alive, table, count, clock, ts, now, packets>>

\* server.c:32-46 sas_server_alloc: an empty table and heap.  Blocks never
\* handed out hold no session (their contents are not read).
Init ==
    /\ mem = [i \in Ids |-> [addr |-> Null, state |-> "INITIAL",
                              acked |-> FALSE, timeout |-> 0]]
    /\ alive = {}
    /\ table = [b \in Buckets |-> <<>>]
    /\ count = 0
    /\ heap = <<>>
    /\ clock = 0
    /\ pc = "pop"
    /\ ts = Null
    /\ now = 0
    /\ session = Null
    /\ pkt = NoPacket
    /\ packets = 0
    /\ uaf = FALSE

Next ==
    \/ Pop
    \/ Expire
    \/ ExpireDone
    \/ SelectTimeout
    \/ RecvFailed
    \/ Receive
    \/ StateMachine
    \/ Arm

\* The loop never stops on its own: select returns once a datagram is there
\* or the deadline has passed, so a step that is enabled is eventually taken.
Spec == Init /\ [][Next]_vars /\ WF_vars(Next)

-----------------------------------------------------------------------------
(***************************************************************************)
(* Properties.                                                             *)
(***************************************************************************)
Linked == UNION {ToSet(table[b]) : b \in Buckets}

TypeOK ==
    /\ mem \in [Ids -> Session]
    /\ alive \subseteq Ids
    /\ table \in SessionTable
    /\ count \in 0..Cardinality(Ids)
    /\ heap \in Seq(Ids)
    /\ pc \in {"pop", "expire", "select", "sm", "arm"}
    /\ ts \in Ids \cup {Null}
    /\ session \in Ids \cup {Null}
    /\ packets \in 0..MaxPackets
    /\ uaf \in BOOLEAN

\* The table holds exactly the live sessions, each address at most once:
\* delete unlinks the session it frees and get never links a second
\* session for an address (session.c:104-106, 150-165).
TableHoldsLive ==
    /\ Linked = alive
    /\ \A b \in Buckets : \A i, j \in 1..Len(table[b]) :
          i # j => mem[table[b][i]].addr # mem[table[b][j]].addr

\* No session the server can still find is forgotten by the timeouts: a
\* live session linked in the table is in the heap, or it is the one the
\* loop popped (re-added at server.c:135 when a datagram comes first), or
\* the one being handled (added at line 156).
NoForgottenSession ==
    \A s \in Linked \cap alive :
        \/ s \in ToSet(heap)
        \/ s = ts
        \/ pc \in {"sm", "arm"} /\ s = session

\* Once clients stop sending, the table empties: every session the server
\* can find is eventually deleted by the expiry loop or select's timeout
\* (server.c:108-111, 129-131), so its stream and file are released.
SessionsExpire == <>[](Linked = {})

\* A session is never read, written or freed after it was freed: not by
\* the expiry loop (server.c:108-109), select's timeout (115, 131), the
\* table walks of get and delete, the state machine, or the re-arm at
\* server.c:155 after the state machine deleted the session.
NoUseAfterFree == ~uaf

\* The state machine runs on the session of the datagram's sender
\* (server.c:151-154): get returns the session whose address is the sender's.
OwnSession == pc = "sm" => mem[session].addr = pkt.from
====
