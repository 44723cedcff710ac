-------------------------- MODULE IndexedRelation --------------------------
(***************************************************************************)
(* relation/hexastore.rs and relation/bistore.rs: relations of three and of *)
(* two columns that keep every tuple in one index per order of the columns. *)
(* An index is a nest of maps, a layer per column, over leaves that are     *)
(* sets of tuples: tuples that agree in the columns may differ in their     *)
(* cid.  The two stores differ only in their tables.                        *)
(***************************************************************************)
EXTENDS Integers, Sequences, SequencesExt, FiniteSets, TLC

CONSTANTS
  Tables,    \* the kinds of store, see Hexastore and Bistore
  Versions   \* the versions of the relation

VARIABLES
  table,     \* the kind of the store, fixed
  store      \* version -> index -> the outermost layer

vars == <<table, store>>

\* A store of tuples [cols |-> column -> key, cid |-> content address]: its
\* indexes, each the sequence of its columns, the index that a lookup with some
\* columns bound uses, and the one that len and is_empty use.
Hexastore(tuples) ==
  [tuples   |-> tuples,
   orders   |-> {<<"e", "a", "v">>, <<"e", "v", "a">>, <<"a", "e", "v">>,
                 <<"a", "v", "e">>, <<"v", "e", "a">>, <<"v", "a", "e">>},
   indexFor |-> [bound \in SUBSET {"e", "a", "v"} |->
                   CASE bound = {"v"}      -> <<"v", "a", "e">>
                     [] bound = {"a"}      -> <<"a", "e", "v">>
                     [] bound = {"a", "v"} -> <<"a", "v", "e">>
                     [] bound = {"e", "v"} -> <<"e", "v", "a">>
                     [] OTHER              -> <<"e", "a", "v">>],
   sized    |-> <<"e", "v", "a">>]

Bistore(tuples) ==
  [tuples   |-> tuples,
   orders   |-> {<<"f", "t">>, <<"t", "f">>},
   indexFor |-> [bound \in SUBSET {"f", "t"} |->
                   IF bound = {"t"} THEN <<"t", "f">> ELSE <<"f", "t">>],
   sized    |-> <<"f", "t">>]

Orders == table.orders

IndexFor == table.indexFor

Columns == ToSet(table.sized)

Depth == Len(table.sized)

-----------------------------------------------------------------------------
(* One index.                                                               *)

EmptyLayer == <<>>

\* index_insert.
RECURSIVE IndexInsert(_, _, _)
IndexInsert(layer, keys, tuple) ==
  IF keys = <<>> THEN layer \cup {tuple}
  ELSE LET k    == Head(keys)
           none == IF Len(keys) = 1 THEN {} ELSE EmptyLayer
           old  == IF k \in DOMAIN layer THEN layer[k] ELSE none
       IN  (k :> IndexInsert(old, Tail(keys), tuple)) @@ layer

\* Mutant of Walk: the walk ends with the left layer.
WalkToShorter(lhs, rhs) ==
  LET l == SetToSortSeq(DOMAIN lhs, <)
      r == SetToSortSeq(DOMAIN rhs, <)
      from[i \in 1..(Len(l) + 1), j \in 1..(Len(r) + 1)] ==
        IF i > Len(l) \/ j > Len(r) THEN {}
        ELSE CASE l[i] < r[j] -> from[i + 1, j]
               [] l[i] > r[j] -> {r[j]} \cup from[i, j + 1]
               [] l[i] = r[j] -> from[i + 1, j + 1]
  IN  from[1, 1]

\* index_merge_layer: two cursors walk the keys of both layers in their order.
\* The result is the keys that are new to the left one.
Walk(lhs, rhs) ==
  LET l == SetToSortSeq(DOMAIN lhs, <)
      r == SetToSortSeq(DOMAIN rhs, <)
      from[i \in 1..(Len(l) + 1), j \in 1..(Len(r) + 1)] ==
        IF j > Len(r) THEN {}
        ELSE IF i > Len(l) THEN {r[j]} \cup from[i, j + 1]
        ELSE CASE l[i] < r[j] -> from[i + 1, j]
               [] l[i] > r[j] -> {r[j]} \cup from[i, j + 1]
               [] l[i] = r[j] -> from[i + 1, j + 1]
  IN  from[1, 1]

\* Mutant of IndexMerge: a leaf of both layers is kept as it is.
RECURSIVE IndexMergeKept(_, _, _)
IndexMergeKept(lhs, rhs, depth) ==
  IF depth = 0 THEN lhs
  ELSE LET new == Walk(lhs, rhs)
       IN  [k \in DOMAIN lhs \cup new |->
              IF k \in new THEN rhs[k]
              ELSE IF k \in DOMAIN rhs THEN IndexMergeKept(lhs[k], rhs[k], depth - 1)
              ELSE lhs[k]]

\* index_merge: a key of both layers is merged in place, a new one is copied.
RECURSIVE IndexMerge(_, _, _)
IndexMerge(lhs, rhs, depth) ==
  IF depth = 0 THEN lhs \cup rhs
  ELSE LET new == Walk(lhs, rhs)
       IN  [k \in DOMAIN lhs \cup new |->
              IF k \in new THEN rhs[k]
              ELSE IF k \in DOMAIN rhs THEN IndexMerge(lhs[k], rhs[k], depth - 1)
              ELSE lhs[k]]

\* The tuples under a layer.
RECURSIVE Leaves(_, _)
Leaves(layer, depth) ==
  IF depth = 0 THEN layer
  ELSE UNION {Leaves(layer[k], depth - 1) : k \in DOMAIN layer}

\* What hangs under a path of keys, in a set; nothing if the path ends early.
RECURSIVE Under(_, _)
Under(layer, keys) ==
  IF keys = <<>> THEN {layer}
  ELSE IF Head(keys) \in DOMAIN layer THEN Under(layer[Head(keys)], Tail(keys)) ELSE {}

-----------------------------------------------------------------------------
(* Lookups.  A binding is a function on the columns that are bound.         *)

Path(order, cols) == [i \in DOMAIN order |-> cols[order[i]]]

\* The keys that binding gives the first layers of the index it is looked up in.
Prefix(binding) ==
  LET order == IndexFor[DOMAIN binding]
  IN  Path(SubSeq(order, 1, Cardinality(DOMAIN binding)), binding)

Found(indexes, binding) == Under(indexes[IndexFor[DOMAIN binding]], Prefix(binding))

StoreIsEmpty(indexes) == indexes[table.sized] = EmptyLayer

StoreLen(indexes) == Cardinality(Leaves(indexes[table.sized], Depth))

\* contains never looks below the last bound column.
StoreContains(indexes, binding) ==
  IF DOMAIN binding = {} THEN ~ StoreIsEmpty(indexes)
  ELSE \E below \in Found(indexes, binding) :
         IF DOMAIN binding = Columns THEN below # {} ELSE below # EmptyLayer

Search(indexes, binding) ==
  UNION {Leaves(below, Depth - Cardinality(DOMAIN binding)) : below \in Found(indexes, binding)}

-----------------------------------------------------------------------------
(* The operations of the Relation trait that change the store.              *)

Init ==
  /\ table \in Tables
  /\ store = [v \in Versions |-> [o \in Orders |-> EmptyLayer]]

\* Mutant of Indexed: the last index of the list is forgotten.
IndexedButLast(indexes, t) ==
  [o \in Orders |-> IF o = IndexFor[{CHOOSE c \in {"v", "t"} : c \in Columns}] THEN indexes[o]
                    ELSE IndexInsert(indexes[o], Path(o, t.cols), t)]

\* A tuple goes into every index, under its columns in the index's order.
Indexed(indexes, t) ==
  [o \in Orders |-> IndexInsert(indexes[o], Path(o, t.cols), t)]

Insert(v, t) ==
  /\ store' = [store EXCEPT ![v] = Indexed(@, t)]
  /\ UNCHANGED table

Merge(from, into) ==
  /\ store' = [store EXCEPT ![into] =
                 [o \in Orders |-> IndexMerge(@[o], store[from][o], Depth)]]
  /\ UNCHANGED table

Purge(v) ==
  /\ store' = [store EXCEPT ![v] = [o \in Orders |-> EmptyLayer]]
  /\ UNCHANGED table

Next ==
  \/ \E v \in Versions, t \in table.tuples : Insert(v, t)
  \/ \E from, into \in Versions : from # into /\ Merge(from, into)
  \/ \E v \in Versions : Purge(v)

Spec == Init /\ [][Next]_vars

-----------------------------------------------------------------------------
\* The tuples in a version, by the index that a search without bindings uses.
Held(v) == Leaves(store[v][IndexFor[{}]], Depth)

\* All patterns of bound columns, over the keys that tuples have.
Bindings ==
  UNION {[bound -> UNION {{t.cols[c] : t \in table.tuples} : c \in Columns}] : bound \in SUBSET Columns}

Matches(t, binding) == \A c \in DOMAIN binding : t.cols[c] = binding[c]

\* Whatever columns are bound, and so whichever index answers, a search finds
\* exactly the matching tuples, contains says whether there is one, and len and
\* is_empty agree (a layer that was left behind empty would make contains and
\* is_empty lie).
LookupsAgree ==
  \A v \in Versions :
    /\ StoreLen(store[v]) = Cardinality(Held(v))
    /\ StoreIsEmpty(store[v]) <=> Held(v) = {}
    /\ \A binding \in Bindings :
         LET matching == {t \in Held(v) : Matches(t, binding)}
         IN  /\ Search(store[v], binding) = matching
             /\ StoreContains(store[v], binding) <=> matching # {}

Abstract ==
  INSTANCE RelationSet WITH Tuples <- UNION {t.tuples : t \in Tables},
                            contents <- [v \in Versions |-> Held(v)]

\* Insert, merge and purge do to the indexed store what they do to a set of
\* tuples, the merge's walk over the nested layers included.
ImplementsRelation == Abstract!Spec
=============================================================================
