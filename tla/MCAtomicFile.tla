---------------------------- MODULE MCAtomicFile ----------------------------
(***************************************************************************)
(* Values for the constants of AtomicFile: two writers, one of which       *)
(* writes more than the other, and the names of the temporary files.       *)
(***************************************************************************)
EXTENDS AtomicFile

CONSTANTS w1, w2

(* path + ".tmp" (manifest.go:271, scheduler.go:357).                      *)
SharedName == [w \in Writers |-> "tmp"]

(* A name of its own for each writer (authstore/store.go:234).             *)
OwnName == [w \in Writers |-> w]

OneAndTwo == [w \in Writers |-> IF w = w1 THEN 1 ELSE 2]

=============================================================================
