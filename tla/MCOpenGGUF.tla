----------------------------- MODULE MCOpenGGUF -----------------------------
(***************************************************************************)
(* Objects of 5 to 8 units, headers read by 1, 4 and 6 of them: FIRST = 1  *)
(* and LARGEST = 6 keep the two clamps of the growing read distinct.       *)
(***************************************************************************)
EXTENDS OpenGGUF, TLC

CONSTANTS v1, v2, v3, e1, w, d1, d2, d3

MCVersions  == {v1, v2, v3}
MCLength    == (v1 :> 8) @@ (v2 :> 8) @@ (v3 :> 5)
MCETag      == (v1 :> e1) @@ (v2 :> w) @@ (v3 :> w)
MCModified  == (v1 :> d1) @@ (v2 :> d2) @@ (v3 :> d3)
MCNeeds     == (v1 :> 6) @@ (v2 :> 3) @@ (v3 :> 5)
MCMalformed == [v \in MCVersions |-> None]
BadFirst    == (v1 :> None) @@ (v2 :> 2) @@ (v3 :> None)
MCTable     == (v1 :> {[at |-> 6, length |-> 2]}) @@ (v2 :> {[at |-> 4, length |-> 4]})
               @@ (v3 :> {[at |-> 4, length |-> 2]})
TooLong     == (v1 :> 7) @@ (v2 :> 3) @@ (v3 :> 5)
MCReads     == {}
Both        == {"etag", "modified"}
ShowsBoth   == {[shows |-> Both, compares |-> TRUE]}
EitherWay   == {[shows |-> {}, compares |-> TRUE], [shows |-> Both, compares |-> FALSE]}
=============================================================================
