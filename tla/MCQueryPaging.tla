---------------------------- MODULE MCQueryPaging ----------------------------
(***************************************************************************)
(* A finite instance of QueryPaging: two items of the queried entity, the  *)
(* second of which may be at two keys and cannot be unmarshalled at one,   *)
(* and an item of another entity before or inside the scope.               *)
(***************************************************************************)
EXTENDS QueryPaging

MCItems == 1..3
MCPlaces == <<{3}, {1, 3}, {2, 3}>>
MCMalformed == {[key |-> 3, item |-> 3]}
==============================================================================
