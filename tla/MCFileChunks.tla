---------------------------- MODULE MCFileChunks ----------------------------
(* FileChunks for TLC: what the sources have.                              *)
EXTENDS FileChunks

AllHold == [p \in Sources |-> Chunks]
=============================================================================
