---------------------------- MODULE MCTransport ----------------------------
(* Transport for TLC: a file of two chunks, setups and reads that succeed  *)
(* or fail, two duplicated and one lost datagram, one failed allocation.   *)
EXTENDS Transport

MC_Chunks == 2
MC_OpenResults == {"ok", "error", "badwav"}
MC_ReadResults == {"data", "error"}
MC_MaxDup == 2
MC_MaxLoss == 1
MC_MaxAllocFail == 1
MC_OpenOk == {"ok"}
MC_ReadData == {"data"}
=============================================================================
