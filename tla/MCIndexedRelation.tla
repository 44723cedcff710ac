------------------------- MODULE MCIndexedRelation -------------------------
(***************************************************************************)
(* Tuples for the two stores.  The keys of each column interleave in every  *)
(* way the walk of a merge distinguishes, and two tuples differ in the cid. *)
(***************************************************************************)
EXTENDS IndexedRelation

Triple(e, a, v, c) == [cols |-> [e |-> e, a |-> a, v |-> v], cid |-> c]
Link(f, t, c)      == [cols |-> [f |-> f, t |-> t], cid |-> c]

HexastoreTuples ==
  {Triple(1, 1, 1, "c"), Triple(1, 1, 1, "d"), Triple(1, 1, 2, "c"), Triple(2, 1, 1, "c"),
   Triple(2, 3, 1, "c"), Triple(3, 2, 2, "c"), Triple(1, 2, 3, "c")}

BistoreTuples ==
  {Link(1, 1, "c"), Link(1, 1, "d"), Link(1, 2, "c"), Link(2, 1, "c"), Link(2, 3, "c"),
   Link(3, 2, "c")}

MCTables == {Hexastore(HexastoreTuples), Bistore(BistoreTuples)}

MCVersions == {"Delta", "Total"}
=============================================================================
