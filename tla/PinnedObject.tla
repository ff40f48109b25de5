---------------------------- MODULE PinnedObject ----------------------------
(***************************************************************************)
(* What `fromURL` promises (src/js/index.mjs, the comment on `fromURL`):   *)
(* the first open pins one version of the object, and from then on every   *)
(* byte a model receives comes from that version.  A request that fails,   *)
(* for whatever reason, leaves no trace here.                              *)
(***************************************************************************)
CONSTANTS Callers, Versions, None

VARIABLES pin,      \* the version every reader is held to, or None
          read      \* read[c]: the versions whose bytes reached model c

Init == /\ pin = None
        /\ read = [c \in Callers |-> {}]

Pin == /\ pin = None
       /\ pin' \in Versions
       /\ UNCHANGED read

Deliver(c) == /\ pin # None
              /\ read' = [read EXCEPT ![c] = @ \cup {pin}]
              /\ UNCHANGED pin

Next == Pin \/ \E c \in Callers : Deliver(c)

Spec == Init /\ [][Next]_<<pin, read>>
=============================================================================
