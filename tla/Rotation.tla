-------------------------------- MODULE Rotation --------------------------------
(***************************************************************************)
(* What the backend pool promises to the tasks that read it (the proxy's   *)
(* requests and the admin server's readiness probe): the set of backends   *)
(* in rotation is always a subset of the configured ones and changes by at *)
(* most one backend at a time.  The detailed pool of module BackendPool is *)
(* shown to implement this module when one task does all the marking, and  *)
(* the modules of the readers take it as their environment.                *)
(***************************************************************************)
CONSTANT Backends       \* the configured backends, as positions in the pool

VARIABLE rotation       \* the healthy snapshot handed out to readers

Init == rotation \in SUBSET Backends

Enter(b) == rotation' = rotation \cup {b}

Leave(b) == rotation' = rotation \ {b}

Next == \E b \in Backends : Enter(b) \/ Leave(b)

Spec == Init /\ [][Next]_rotation
=================================================================================
