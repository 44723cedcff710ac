---------------------------- MODULE RelationSet ----------------------------
(***************************************************************************)
(* The Relation trait (relation/mod.rs) as the statements use it: each      *)
(* version of a relation is a set of tuples.                                *)
(***************************************************************************)
CONSTANTS Versions, Tuples

VARIABLE contents

Init == contents = [v \in Versions |-> {}]

Insert(v, t) == contents' = [contents EXCEPT ![v] = @ \cup {t}]

Merge(from, into) == contents' = [contents EXCEPT ![into] = @ \cup contents[from]]

Purge(v) == contents' = [contents EXCEPT ![v] = {}]

Next ==
  \/ \E v \in Versions, t \in Tuples : Insert(v, t)
  \/ \E from, into \in Versions : from # into /\ Merge(from, into)
  \/ \E v \in Versions : Purge(v)

Spec == Init /\ [][Next]_contents
=============================================================================
