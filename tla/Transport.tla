----------------------------- MODULE Transport -----------------------------
(***************************************************************************)
(* One stream between the sas client and the server over UDP: the client  *)
(* of src/sas-client/src/client.c (sas_client_receive and its state        *)
(* machine), the server's session for that client (the state machine of   *)
(* src/sas-server/src/session.c, the session sink of sink.c and the WAV    *)
(* source's on_pull of formats/wav.c), and a network that loses,           *)
(* duplicates and reorders datagrams.                                      *)
(*                                                                         *)
(* Every datagram either side sends has a length > 0 except the ACKs and   *)
(* a plain RST, and both sides advance seq by the length (or by 1): only   *)
(* the order of sequence numbers is compared, so each datagram advances    *)
(* seq by one here.  A chunk carries its index in the file; the            *)
(* configuration the SYN|ACK carries is chunk 0.                           *)
(*                                                                         *)
(* Time is abstracted to silence: a select of 30 seconds times out, and a  *)
(* session's deadline passes, only when no datagram is in flight to that   *)
(* side (a datagram in flight arrives within the 30 seconds).  The run     *)
(* loop's session table and heap are Server.tla's; here the session is     *)
(* deleted when its deadline passes, which is what they achieve when they  *)
(* work.                                                                   *)
(***************************************************************************)
EXTENDS Integers, Sequences, SequencesExt

CONSTANTS
    Chunks,     \* data chunks the WAV file holds before end of file
    OpenResults,\* outcome of the SYN's setup: "ok", "error" (open fails,
                \*   errno set), "badwav" (not a WAV file: sas_formats_wav
                \*   returns NULL with errno untouched, wav.c:141-153)
    ReadResults,\* outcomes of a read(): "data" (or end of file), "error"
    MaxDup,     \* bound on datagrams the network duplicates
    MaxLoss,    \* bound on datagrams the network loses
    MaxAllocFail\* bound on the server's failed allocations in a pull

VARIABLES
    cstate,     \* client->session.state
    cseq,       \* client->session.seq
    cack,       \* client->session.ack
    crecv,      \* history: chunks the client pushed to its sink
    cresult,    \* "running", or what sas_client_receive returned
    sstate,     \* the server session's state; "none" when there is none
    sseq,       \* session->seq
    sack,       \* session->ack
    next,       \* the WAV source: index of the next chunk read()
    sclosed,    \* the session's pipeline connection is closed
    net,        \* datagrams in flight
    dups,       \* datagrams duplicated so far
    losses,     \* datagrams lost so far
    allocFails, \* allocations in a pull that failed so far
    sdown       \* the server process died

vars == <<cstate, cseq, cack, crecv, cresult, sstate, sseq, sack, next,
          sclosed, net, dups, losses, allocFails, sdown>>

faultVars == <<allocFails, sdown>>

clientVars == <<cstate, cseq, cack, crecv, cresult>>
serverVars == <<sstate, sseq, sack, next, sclosed>>

Datagram(to, flags, seq, data) ==
    [to |-> to, flags |-> flags, seq |-> seq, data |-> data]

\* The file's chunks in order, after the configuration.
File == [i \in 1..(Chunks + 1) |-> i - 1]

-----------------------------------------------------------------------------
(***************************************************************************)
(* The server session.                                                     *)
(***************************************************************************)
\* Datagram m leaves the network, or stays there as a duplicate, and the
\* datagrams in `out` are sent.
Consume(m, out) ==
    \/ /\ net' = (net \ {m}) \cup out
       /\ UNCHANGED dups
    \/ /\ dups < MaxDup
       /\ net' = net \cup out
       /\ dups' = dups + 1

\* session.c:175-197 sas_server_session_send from a session whose seq is
\* `seq`: the datagram carries seq, and seq advances.
ToClient(flags, seq, data) == Datagram("client", flags, seq, data)

\* session.c:199-215 sas_server_session_send_chunk: a datagram with no
\* flags carrying the chunk.
SendChunk(seq, data) == ToClient({}, seq, data)

\* session.c:217-230 sas_server_session_reset: RST, and FIN when `fin`.
Reset(seq, fin) == ToClient({"RST"} \cup (IF fin THEN {"FIN"} ELSE {}), seq, 0)

\* session.c:232-248 sas_server_session_error: RST|ERR with the error
\* code, which is errno at the call: 0 or some error (ErrCodes).
Error(seq, code) == ToClient({"RST", "ERR"}, seq, code)
ErrCodes == {0, 1}

\* session.c:250-270 sas_server_session_syn_ack: SYN|ACK with the WAV
\* configuration, which is the file's chunk 0 here.
SynAck(seq) == ToClient({"SYN", "ACK"}, seq, 0)

\* Variant: end of file seen one read late.
AtEndLate == next > Chunks + 1

\* wav.c:64, 74: read() returns 0 once the file's chunks are read.
AtEnd == next > Chunks

\* trampoline.c:37-41: worker_enqueue's malloc fails; the pull is dropped.
LostPull(m) ==
    /\ allocFails < MaxAllocFail
    /\ allocFails' = allocFails + 1
    /\ Consume(m, {})
    /\ UNCHANGED <<sseq, next, sclosed, sdown>>

\* pipeline.c:99-105 pipeline_inlet_pull: malloc of the request fails and
\* `req->in = parent` writes through NULL; the process gets SIGSEGV.  The
\* sessions, the socket and whatever was in flight to the server are gone
\* with it.
CrashedPull(m) ==
    /\ allocFails < MaxAllocFail
    /\ allocFails' = allocFails + 1
    /\ sdown' = TRUE
    /\ Consume(m, {})
    /\ UNCHANGED <<sseq, next, sclosed>>

\* pipeline.c:13-26 rxc_source_to: its malloc fails and returns NULL, which
\* session.c:340 stores unchecked; the SYN|ACK still goes out (line 345)
\* and rxc_pipeline_start (line 348) reads pipeline->source through NULL
\* (pipeline.c:218): the server dies after the client was told to go on.
CrashedStart(m, seq) ==
    /\ allocFails < MaxAllocFail
    /\ allocFails' = allocFails + 1
    /\ sdown' = TRUE
    /\ Consume(m, {SynAck(seq)})
    /\ sstate' = "SACK_SENT" /\ sseq' = seq + 1
    /\ UNCHANGED <<next, sclosed>>

\* session.c:361 rxc_inlet_pull(1) on the session's pipeline, with datagram
\* m consumed: nothing on a closed connection; otherwise wav.c:50-92 reads
\* one chunk and the session sink (sink.c:20-27) sends it, or at end of
\* file (line 74) the source completes and the sink sends RST|FIN
\* (sink.c:29-34), or on a read error (line 80) it fails and the sink
\* sends ERR|RST (sink.c:36-41).  The pull reaches the source through the
\* pipeline's scheduler inlet (pipeline.c:91-106), whose worker_enqueue
\* (trampoline.c:33-54) returns without queueing it when malloc fails: the
\* pull is lost and nothing is sent (LostPull).  Before that, the inlet
\* mallocs the request and writes through the result untested
\* (pipeline.c:101-103): when that malloc fails the server dies
\* (CrashedPull).
PullOne(m) ==
    \/ LostPull(m)
    \/ CrashedPull(m)
    \/ /\ sclosed
       /\ Consume(m, {})
       /\ UNCHANGED <<sseq, next, sclosed, faultVars>>
    \/ /\ ~sclosed
       /\ ~AtEnd
       /\ "data" \in ReadResults
       /\ Consume(m, {SendChunk(sseq, next)})
       /\ sseq' = sseq + 1
       /\ next' = next + 1
       /\ UNCHANGED <<sclosed, faultVars>>
    \/ /\ ~sclosed
       /\ AtEnd
       /\ Consume(m, {Reset(sseq, TRUE)})
       /\ sseq' = sseq + 1
       /\ sclosed' = TRUE
       /\ UNCHANGED <<next, faultVars>>
    \/ /\ ~sclosed
       /\ "error" \in ReadResults
       /\ Consume(m, {Error(sseq, 1)})
       /\ sseq' = sseq + 1
       /\ sclosed' = TRUE
       /\ UNCHANGED <<next, faultVars>>

\* A datagram reaches the server: sas_server_session_get (session.c:98-140)
\* finds the session or creates one in INITIAL with seq = ack = 0, and the
\* state machine (session.c:272-366) runs on it.  A failed setup sends
\* sas_server_session_error(errno) and deletes the session (316-335): a
\* failed open leaves an error in errno, a rejected WAV header leaves
\* whatever errno held, possibly 0.  The client never sends
\* RST, so the RST branch (298-301) is Server.tla's alone.
ServerReceive(m) ==
    LET new  == sstate = "none"
        st   == IF new THEN "INITIAL" ELSE sstate
        seq  == IF new THEN 0 ELSE sseq
        ack  == IF new THEN 0 ELSE sack
    IN
    /\ m.to = "server"
    /\ ~sdown
    /\ \/ /\ m.seq < ack
          /\ Consume(m, {})
          /\ sstate' = st /\ sseq' = seq /\ sack' = ack
          /\ UNCHANGED <<next, sclosed, faultVars>>
       \/ /\ m.seq >= ack
          /\ sack' = m.seq + 1
          /\ \/ /\ st = "INITIAL"
                /\ "SYN" \notin m.flags
                /\ Consume(m, {Reset(seq, FALSE)})
                /\ sstate' = st /\ sseq' = seq + 1
                /\ UNCHANGED <<next, sclosed, faultVars>>
             \/ /\ st = "INITIAL"
                /\ "SYN" \in m.flags
                /\ \/ /\ "error" \in OpenResults
                      /\ Consume(m, {Error(seq, 1)})
                   \/ /\ "badwav" \in OpenResults
                      /\ \E code \in ErrCodes : Consume(m, {Error(seq, code)})
                /\ sstate' = "none" /\ sseq' = seq + 1
                /\ UNCHANGED <<next, sclosed, faultVars>>
             \/ /\ st = "INITIAL"
                /\ "SYN" \in m.flags
                /\ "ok" \in OpenResults
                /\ Consume(m, {SynAck(seq)})
                /\ sstate' = "SACK_SENT" /\ sseq' = seq + 1
                /\ next' = 1 /\ sclosed' = FALSE
                /\ UNCHANGED faultVars
             \/ /\ st = "INITIAL"
                /\ "SYN" \in m.flags
                /\ "ok" \in OpenResults
                /\ CrashedStart(m, seq)
             \/ /\ st \in {"SACK_SENT", "ESTABLSH"}
                /\ sstate' = "ESTABLSH"
                /\ PullOne(m)
    /\ UNCHANGED <<clientVars, losses>>

\* A datagram from an address with no session: sas_server_session_get's
\* malloc fails and it returns NULL (session.c:114-118), which the run
\* loop hands to the state machine unchecked (server.c:151-154); reading
\* session->ack through NULL kills the server.
CrashedGet(m) ==
    /\ m.to = "server"
    /\ ~sdown
    /\ sstate = "none"
    /\ allocFails < MaxAllocFail
    /\ allocFails' = allocFails + 1
    /\ sdown' = TRUE
    /\ Consume(m, {})
    /\ UNCHANGED <<clientVars, serverVars, losses>>

\* The session's deadline passes with nothing in flight to the server: the
\* run loop deletes it (server.c:108-111, 129-131), which releases the
\* pipeline (session.c:158-160).
ServerExpire ==
    /\ ~sdown
    /\ sstate # "none"
    /\ \A m \in net : m.to # "server"
    /\ sstate' = "none"
    /\ UNCHANGED <<sseq, sack, next, sclosed, clientVars, net, dups, losses,
                   faultVars>>
-----------------------------------------------------------------------------
(***************************************************************************)
(* The client and the network.                                             *)
(***************************************************************************)
\* client.c:114-132 sas_client_session_send of k ACKs in a row
\* (client.c:162-170): each carries the client's seq and advances it.
Acks(k) == {Datagram("server", {"ACK"}, cseq + i, 0) : i \in 0..(k - 1)}

SendAcks(m, k) ==
    /\ Consume(m, Acks(k))
    /\ cseq' = cseq + k

\* The ACKs one datagram makes the client send.  main.c:80 gives the client
\* the ignore sink, whose on_connect and on_push pull 1 (ignore.c:16-26);
\* behind the pipeline adapter the pull runs at once (the trampoline is
\* idle) and reaches the client source's on_pull, which acks once per pull
\* whatever its size (source.c:13-19).
SinkPulls == 1
AckPerPull == 1

\* The configuration starts the pipeline: connect_sink creates the sink
\* logic and calls its on_connect (source.c:45-55), a pull; the state
\* machine acks (client.c:243) and pushes the configuration (line 247), a
\* pull.  A chunk is pushed (line 254), a pull, and acked (line 258).
Configuration == SinkPulls * AckPerPull + 1 + SinkPulls * AckPerPull
ChunkAcks == SinkPulls * AckPerPull + 1

\* client.c:205-209: the state machine returns the code the RST|ERR
\* carries, and the receive loop (client.c:308-311) only ends on a code
\* other than 0; with 0 it goes on waiting, in its old state.
ErrResult(m) == IF m.data # 0 THEN "error" ELSE "running"

\* Variant: the state machine without the test for old datagrams.
ClientReceiveNoDrop(m) ==
    /\ m.to = "client"
    /\ cresult = "running"
    /\ cack' = m.seq + 1
    /\ \/ /\ "RST" \in m.flags
          /\ Consume(m, {})
          /\ cresult' = CASE "ERR" \in m.flags -> ErrResult(m)
                          [] "FIN" \in m.flags -> "ok"
                          [] OTHER             -> "reset"
          /\ cstate' = IF "ERR" \notin m.flags /\ "FIN" \in m.flags
                          THEN "FINISHED" ELSE cstate
          /\ UNCHANGED <<cseq, crecv>>
       \/ /\ "RST" \notin m.flags
          /\ SendAcks(m, IF cstate = "SYN_SENT" THEN Configuration
                                               ELSE ChunkAcks)
          /\ cstate' = "ESTABLSH"
          /\ crecv' = Append(crecv, m.data)
          /\ UNCHANGED cresult
    /\ UNCHANGED <<serverVars, losses, faultVars>>

\* A datagram reaches the client in sas_client_receive (client.c:297-312)
\* and its state machine (client.c:178-265): an old datagram is dropped
\* (184-188), one ahead of the ack is processed (189-192); the ack moves
\* (199); an RST ends the receive loop with the error it carries, with 0
\* after FIN (FINISHED), or with ECONNRESET (202-217); in SYN_SENT the
\* datagram is the configuration: the pipeline starts (rxc_pipeline_start
\* returns 0), and the client moves to ESTABLSH and pushes it to the sink
\* (220-248); in ESTABLSH the chunk is pushed to the sink (250-258).
ClientReceive(m) ==
    /\ m.to = "client"
    /\ cresult = "running"
    /\ \/ /\ m.seq < cack
          /\ Consume(m, {})
          /\ UNCHANGED <<cstate, cseq, cack, crecv, cresult>>
       \/ /\ m.seq >= cack
          /\ cack' = m.seq + 1
          /\ \/ /\ "RST" \in m.flags
                /\ Consume(m, {})
                /\ cresult' = CASE "ERR" \in m.flags -> ErrResult(m)
                                [] "FIN" \in m.flags -> "ok"
                                [] OTHER             -> "reset"
                /\ cstate' = IF "ERR" \notin m.flags /\ "FIN" \in m.flags
                                THEN "FINISHED" ELSE cstate
                /\ UNCHANGED <<cseq, crecv>>
             \/ /\ "RST" \notin m.flags
                /\ SendAcks(m, IF cstate = "SYN_SENT" THEN Configuration
                                                     ELSE ChunkAcks)
                /\ cstate' = "ESTABLSH"
                /\ crecv' = Append(crecv, m.data)
                /\ UNCHANGED cresult
    /\ UNCHANGED <<serverVars, losses, faultVars>>

\* Variant: select without a timeout (a NULL timeval) never returns 0.
ClientTimeoutBlocking == FALSE

\* client.c:283-296: select waits 30 seconds, nothing arrives, and the
\* receive loop returns ETIMEDOUT.
ClientTimeout ==
    /\ cresult = "running"
    /\ \A m \in net : m.to # "client"
    /\ cresult' = "timeout"
    /\ UNCHANGED <<cstate, cseq, cack, crecv, serverVars, net, dups, losses,
                   faultVars>>

\* The network drops a datagram.
Lose(m) ==
    /\ losses < MaxLoss
    /\ net' = net \ {m}
    /\ losses' = losses + 1
    /\ UNCHANGED <<clientVars, serverVars, dups, faultVars>>

\* client.c:134-160 sas_client_session_syn: the first datagram, a SYN with
\* seq 0 carrying the configuration (its codec and file name abstracted);
\* the client enters SYN_SENT.
ClientSyn == Datagram("server", {"SYN"}, 0, 0)

\* transport.h:12-17, the states a client session takes.
ClientStates == {"SYN_SENT", "ESTABLSH", "FINISHED"}

\* client.h:25-66 struct sas_client_session, less the windows (never read)
\* and the pipeline, sink logic and chunk (the buffers crecv abstracts).
ClientSession == [state : ClientStates, seq : Nat, ack : Nat]

\* client.c:45-59 sas_client_init, then sas_client_receive sends the SYN
\* (client.c:134-160, 277): SYN_SENT, seq advanced past the SYN.  The
\* server has no session for the client yet.
Init ==
    /\ cstate = "SYN_SENT"
    /\ cseq = 1
    /\ cack = 0
    /\ crecv = <<>>
    /\ cresult = "running"
    /\ sstate = "none"
    /\ sseq = 0
    /\ sack = 0
    /\ next = 1
    /\ sclosed = FALSE
    /\ net = {ClientSyn}
    /\ dups = 0
    /\ losses = 0
    /\ allocFails = 0
    /\ sdown = FALSE

Deliver == \E m \in net : ServerReceive(m) \/ ClientReceive(m)

Next ==
    \/ \E m \in net : ServerReceive(m)
    \/ \E m \in net : CrashedGet(m)
    \/ \E m \in net : ClientReceive(m)
    \/ ServerExpire
    \/ ClientTimeout
    \/ \E m \in net : Lose(m)

\* A datagram in flight that nobody loses is eventually delivered; the
\* client's select and the server's deadline fire once there is silence.
\* Loss has no fairness: the network may lose what it likes, up to MaxLoss.
Spec ==
    /\ Init /\ [][Next]_vars
    /\ WF_vars(Deliver)
    /\ WF_vars(ServerExpire)
    /\ WF_vars(ClientTimeout)

-----------------------------------------------------------------------------
(***************************************************************************)
(* Properties.                                                             *)
(***************************************************************************)
\* main.c:72-104 (client): allocate, initialise with the ignore sink,
\* connect, receive; the program exits with EXIT_SUCCESS exactly when
\* sas_client_receive returned 0, and with EXIT_FAILURE on any error.
ExitSuccess == cresult = "ok"

Flags == {"SYN", "ACK", "RST", "FIN", "ERR"}

TypeOK ==
    /\ [state |-> cstate, seq |-> cseq, ack |-> cack] \in ClientSession
    /\ crecv \in Seq(0..Chunks)
    /\ cresult \in {"running", "ok", "error", "reset", "timeout"}
    /\ sstate \in {"none", "INITIAL", "SACK_SENT", "ESTABLSH"}
    /\ sseq \in Nat /\ sack \in Nat
    /\ next \in 1..(Chunks + 1)
    /\ sclosed \in BOOLEAN
    /\ net \subseteq [to : {"client", "server"}, flags : SUBSET Flags,
                      seq : Nat, data : 0..Chunks]
    /\ dups \in 0..MaxDup /\ losses \in 0..MaxLoss
    /\ allocFails \in 0..MaxAllocFail
    /\ sdown \in BOOLEAN

\* Whatever the network loses, duplicates or reorders, the client's sink is
\* given chunks of the file in the file's order, none twice: the client
\* accepts only datagrams at or past its ack (client.c:184) and the server
\* sends the chunks in the order of its seq (session.c:181-185).
ClientInOrder ==
    \A i, j \in 1..Len(crecv) : i < j => crecv[i] < crecv[j]

\* A client that exits with EXIT_SUCCESS (main.c:97-104: the receive
\* returned 0 after FIN, client.c:209-212, 315) has given its sink the whole
\* file: the configuration and every chunk.  The client processes a
\* datagram past its ack (client.c:189-192, "we just process it"), so a
\* chunk overtaken by the next one, or lost, is skipped.
ClientGetsFile == ExitSuccess => crecv = File

\* sas_client_receive always returns: with the stream finished, with an
\* error, or after 30 seconds of silence (client.c:282-296).
ClientReturns == <>(cresult # "running")
====
