-------------------------- MODULE MCSnapshotFiles --------------------------
(* Small instances of SnapshotFiles for TLC. *)
EXTENDS SnapshotFiles

CONSTANTS f1, r1, x1

OneForker  == {f1}
OneReader  == {r1}
OneOther   == {x1}
=============================================================================
