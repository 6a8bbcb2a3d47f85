---------------------------- MODULE MCAtomicFile ----------------------------
(* An instance of AtomicFile for TLC: a document of one block and one of   *)
(* two, so that a read or a write can be cut in the middle.                *)
EXTENDS AtomicFile, TLC

CONSTANTS short, long

MCSize == short :> 1 @@ long :> 2
=============================================================================
