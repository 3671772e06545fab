---------------------------- MODULE MCMirrorSync ----------------------------
(* Small instances of MirrorSync: the operations and the client by name. *)
EXTENDS MirrorSync

CONSTANTS f1, f2, p1, p2, m1
=============================================================================
