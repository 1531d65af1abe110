------------------------------ MODULE MCStream ------------------------------
(***************************************************************************)
(* Instances of Stream for TLC.  A 4-bit long keeps LONG_MAX at 7, within   *)
(* reach of the pulls; three elements let a single pull(2) emit twice and   *)
(* still leave an element for the next pull; a budget of three inlet calls  *)
(* lets the arbitrary sink pull twice and cancel, or cancel twice.          *)
(***************************************************************************)
EXTENDS Stream

MC_W == 4
MC_From == 0
MC_To == 3
MC_MaxChunks == 2
MC_PullSizes == {1, 2}
MC_AnyBudget == 3

\* The round trip of spec 8 pulls exactly to - from; one more lets the
\* recording sink see the completion.
MC_RecordPull == MC_To - MC_From + 1
MC_RecordExact == MC_To - MC_From

MC_AllSources == {"count", "empty", "wav"}
MC_Sinks == {"foreach", "canceled", "oss", "session", "record", "any"}

MC_CountOnly == {"count"}
MC_WavOnly == {"wav"}
MC_AnyOnly == {"any"}
MC_ForeachOnly == {"foreach"}
MC_RecordOnly == {"record"}

=============================================================================
