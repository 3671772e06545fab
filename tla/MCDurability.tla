---------------------------- MODULE MCDurability ----------------------------
(* Small instances of Durability for TLC. *)
EXTENDS Durability, TLC

CONSTANTS d1, d2, w1, k1

(* Two drives and one write, of two records; the other drive is idle but    *)
(* for its own failing and succeeding snapshots.                            *)
MCDriveOfTwo == (w1 :> d1)

(* One drive: a write (two records) and a mkdir. *)
MCDriveOfOne == (w1 :> d1) @@ (k1 :> d1)
=============================================================================
