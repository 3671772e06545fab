----------------------------- MODULE MCServeLoop -----------------------------
(* Small instances of ServeLoop for TLC. *)
EXTENDS ServeLoop, TLC

CONSTANTS a, b, c, ta, tb, driveTopic, itemsTopic

(* A drive request, a corpus request, and a message nobody waits for. *)
MCTopicOf == (a :> driveTopic) @@ (b :> itemsTopic) @@ (c :> itemsTopic)
MCTokenOf == (a :> ta) @@ (b :> tb) @@ (c :> NoToken)

(* One drive request. *)
MCTopicOfOne == (a :> driveTopic)
MCTokenOfOne == (a :> ta)
=============================================================================
