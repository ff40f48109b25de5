---------------------------- MODULE MCHttpSource ----------------------------
(***************************************************************************)
(* Three objects for TLC.  v1 and v2 are of one length, so a size check    *)
(* does not tell them apart; v2 and v3 carry the same weak ETag, so only   *)
(* their dates do; v3 is shorter, so a read of its end is cut.             *)
(***************************************************************************)
EXTENDS HttpSource, TLC

CONSTANTS v1, v2, v3, e1, w, d1, d2, d3

MCVersions  == {v1, v2, v3}
MCLength    == (v1 :> 3) @@ (v2 :> 3) @@ (v3 :> 2)
MCETag      == (v1 :> e1) @@ (v2 :> w) @@ (v3 :> w)
MCModified  == (v1 :> d1) @@ (v2 :> d2) @@ (v3 :> d3)
NoHeaders   == [v \in MCVersions |-> None]
MCReads     == {[at |-> 0, length |-> 2], [at |-> 1, length |-> 2]}
Both        == {"etag", "modified"}
ShowsBoth   == {[shows |-> Both, compares |-> TRUE]}
ShowsNone   == {[shows |-> {}, compares |-> TRUE]}

(* A reply to a read either compares If-Range or shows the headers.        *)
EitherWay   == {[shows |-> {}, compares |-> TRUE], [shows |-> Both, compares |-> FALSE]}
=============================================================================
