------------------------- MODULE MCCheckpointEngine -------------------------
(* Instances of CheckpointEngine for TLC. *)
EXTENDS CheckpointEngine

\* Greedy packing into halves of two cells: {1, 2}, {3}, {4, 5}, {6}; into the IPC
\* buffer of three cells: {1, 2}, {3, 4}, {5, 6}.
McSizes == <<1, 1, 2, 1, 1, 2>>
McEngines == {"nccl", "hccl", "nixl", "mooncake"}
=============================================================================
