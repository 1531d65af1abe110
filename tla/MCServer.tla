------------------------------ MODULE MCServer ------------------------------
(* Instances of Server for TLC.  Every address hashes to one bucket, so    *)
(* all sessions share one chain: the walks of get and delete see each      *)
(* other.                                                                  *)
EXTENDS Server

CONSTANTS i1, i2, p1, p2, s1, s2, s3

\* One client host, two ports: addr_eq compares these correctly.
MC_OneHost == [ip : {i1}, port : {p1, p2}]

\* Two client hosts on the same port: addr_eq calls them equal.
MC_TwoHosts == [ip : {i1, i2}, port : {p1}]

\* IPv4-mapped addresses ::ffff:192.168.1.10 and ::ffff:192.168.1.42, and
\* the ports 49162 and 49194 in network order.  Their bytes differ by 32,
\* and 33 is 1 modulo 32, so addr_hash puts every address in one bucket.
MC_IpBytes == i1 :> <<0, 0, 0, 0, 0, 0, 0, 0, 0, 0, 255, 255, 192, 168, 1, 10>>
           @@ i2 :> <<0, 0, 0, 0, 0, 0, 0, 0, 0, 0, 255, 255, 192, 168, 1, 42>>
MC_PortBytes == p1 :> <<192, 10>> @@ p2 :> <<192, 42>>
MC_AddrBytesOneHost ==
    [a \in MC_OneHost |-> MC_IpBytes[a.ip] \o MC_PortBytes[a.port]]
MC_AddrBytesTwoHosts ==
    [a \in MC_TwoHosts |-> MC_IpBytes[a.ip] \o MC_PortBytes[a.port]]

MC_Ids == {s1, s2, s3}
MC_Flags == {"SYN", "ACK", "RST"}
MC_ClientFlags == {"SYN", "ACK"}
MC_SynResults == {"ok", "error"}
\* The file the client names exists and is a WAV file.
MC_SynOk == {"ok"}
MC_Timeout == 2
MC_MaxTime == 4
MC_MaxPackets == 3
=============================================================================
