----------------------------- MODULE Allocator -----------------------------
(***************************************************************************)
(* What the router ID allocator of a namespace promises, without API       *)
(* server, cache, queue or worker: objects come and go, and an object      *)
(* without an ID may be given one that none of its elders has, those that  *)
(* had theirs when it was added.  An ID is never replaced, and is free     *)
(* again when its object goes.                                             *)
(*                                                                         *)
(* It is the abstract view of setRouterID and findNextAvailableID          *)
(* (src/internal/controller/keepalived_controller.go), which KeepAlived    *)
(* implements.  It is weaker than "no two objects share an ID", which the  *)
(* controller does not achieve.                                            *)
(***************************************************************************)
EXTENDS Naturals

CONSTANTS
    Names,  \* the names objects may have
    MaxID   \* the largest ID

VARIABLES
    objects,  \* the names of the objects there are
    id,       \* the ID of each, 0 if it has none
    elders    \* for each, the objects whose ID it must not be given

vars == <<objects, id, elders>>

Add(n) ==
    /\ n \notin objects
    /\ objects' = objects \cup {n}
    /\ elders' = [elders EXCEPT ![n] = {m \in Names : id[m] # 0}]
    /\ UNCHANGED id

Remove(n) ==
    /\ n \in objects
    /\ objects' = objects \ {n}
    /\ id' = [id EXCEPT ![n] = 0]
    /\ elders' = [m \in Names |-> IF m = n THEN {} ELSE elders[m] \ {n}]

Assign(n, i) ==
    /\ n \in objects
    /\ id[n] = 0
    /\ \A m \in elders[n] : id[m] # i
    /\ id' = [id EXCEPT ![n] = i]
    /\ UNCHANGED <<objects, elders>>

Init ==
    /\ objects = {}
    /\ id = [n \in Names |-> 0]
    /\ elders = [n \in Names |-> {}]

Next == \E n \in Names :
            Add(n) \/ Remove(n) \/ \E i \in 1..MaxID : Assign(n, i)

Spec == Init /\ [][Next]_vars
=============================================================================
