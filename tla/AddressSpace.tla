---------------------------- MODULE AddressSpace ----------------------------
(***************************************************************************)
(* What a restored checkpoint promises: the simulated process finds its    *)
(* address space as it was captured, and from then on a store to a page    *)
(* changes that page alone, a new page is zero, and moving a page moves    *)
(* its contents.  There is no physical memory here.  The promise is off     *)
(* once the checkpoint is unsound, which it then remains.                  *)
(***************************************************************************)
EXTENDS Naturals

CONSTANTS
    VPages,     \* virtual pages the simulated process may map
    Zero,       \* contents of a page nobody has written
    Stored      \* contents a store leaves in a page

VARIABLES
    sound,      \* nothing has happened yet that voids the promise
    original,   \* the address space of the checkpoint: page -> contents
    live,       \* whether the simulation has been started from it
    view        \* what the simulated process sees: page -> contents

vars == <<sound, original, live, view>>

Init == sound = TRUE /\ live = FALSE

(* Until the simulation starts the checkpoint is still being made.         *)
Capture ==
    /\ ~live /\ live' = FALSE

Restore ==
    /\ ~live /\ live' = TRUE
    /\ original' = original
    /\ view' = original

Continue == live /\ live' = TRUE /\ original' = original

Store(v) ==
    /\ v \in DOMAIN view
    /\ view' = [view EXCEPT ![v] = Stored]

Map(v) ==
    view' = [u \in DOMAIN view \cup {v} |-> IF u = v THEN Zero ELSE view[u]]

Unmap(v) ==
    /\ v \in DOMAIN view
    /\ view' = [u \in DOMAIN view \ {v} |-> view[u]]

Remap(v, w) ==
    /\ v \in DOMAIN view /\ w \notin DOMAIN view
    /\ view' = [u \in (DOMAIN view \cup {w}) \ {v} |-> IF u = w THEN view[v] ELSE view[u]]

Kept ==
    \/ Capture
    \/ Restore
    \/ /\ Continue
       /\ \E v \in VPages : Store(v) \/ Map(v) \/ Unmap(v) \/ \E w \in VPages : Remap(v, w)

Next == (sound' => sound) /\ (sound' => Kept)

Spec == Init /\ [][Next]_vars
=============================================================================
