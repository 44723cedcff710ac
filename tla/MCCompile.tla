------------------------------ MODULE MCCompile ------------------------------
(***************************************************************************)
(* The builder on the closures of its tests, and on closures that declare   *)
(* the relations of a small schema and add one rule built from pools of     *)
(* heads, searches, negations, predicates and aggregations, accepted or not.*)
(***************************************************************************)
EXTENDS Compile, BuilderTests

VARIABLES
  calls,   \* what the closure has left to call
  expect   \* the verdict its test asserts, or <<>>

NodeValues ==
  [t \in {"Any", "S32", "U32", "Bool", "Cid"} \cup ToSet(LiteralTypes) |->
     CASE t = "S32" -> {"1", "2"} [] t = "Any" -> {"1", "2"} [] OTHER -> {"1"}]

\* e, d and q hold a node, pair an edge, any a node of any type, word a u32.
SmallSchema ==
  << In("e", <<S32("n")>>), In("any", << <<"n", "Any">> >>), In("word", << <<"n", "U32">> >>),
     In("pair", <<S32("a"), S32("b")>>), Out("p", <<S32("n")>>), Out("q", <<S32("n")>>) >>

Nodes(t) == {x0(t), x1(t)}

PoolAtoms(t) ==
  {Atom1(r, One("n", v)) : r \in {"e", "any", "word", "q"}, v \in Nodes(t)}
  \cup {Atom1("pair", Two("a", v, "b", w)) : v, w \in Nodes(t)}
  \cup {[Atom1("any", One("n", x1(t))) EXCEPT !.cid = {x0(t)}], Atom1("e", One("n", One32))}

PoolSearches(t) ==
  {<<>>} \cup {<<a>> : a \in PoolAtoms(t)} \cup (PoolAtoms(t) \X PoolAtoms(t))

PoolNegations(t) == {<<>>} \cup {Not(r, One("n", x0(t))) : r \in {"e", "q"}}

PoolPredicates == {<<>>, <<[fn |-> "is_triangle", vars |-> <<"x0", "x0", "x1">>]>>}

PoolGroups(t) ==
  {<<>>, Group(x1(t), "e", One("n", x0(t)), "count", <<"x0">>),
   Group(x1(t), "e", One("n", x2(t)), "sum", <<"x2">>)}

\* Rules with one kind of term besides the searches, or an aggregation and a
\* negation.
PoolBodies(t) ==
  {[search |-> s, preds |-> p, except |-> n, groups |-> g] :
      s \in PoolSearches(t), p \in PoolPredicates, n \in PoolNegations(t), g \in PoolGroups(t)}

PoolRules ==
  {Clause("p", One("n", v), b) : v \in Nodes("S32"), b \in {c \in PoolBodies("S32") : c.preds = <<>> \/ c.groups = <<>>}}
  \cup {Clause("p", One("n", v), Search(s)) : v \in Nodes("Any"), s \in PoolSearches("Any")}

Closures ==
  ToSet(AllTests)
  \cup {[calls |-> SmallSchema \o <<r>>, expect |-> <<>>] : r \in PoolRules}

AllCalls == UNION {ToSet(c.calls) : c \in Closures}

MCInit ==
  /\ Init
  /\ \E c \in Closures : calls = c.calls /\ expect = c.expect

CallNext ==
  /\ calls # <<>>
  /\ Call(calls[1])
  /\ calls' = Tail(calls)
  /\ UNCHANGED expect

BuildNext == calls = <<>> /\ Build /\ UNCHANGED <<calls, expect>>

MCNext == CallNext \/ BuildNext

MCSpec == MCInit /\ [][MCNext]_<<bvars, calls, expect>>

\* The build ends as the test asserts (assert_compile!, assert_compile_err! and
\* the tests of logic/builder/mod.rs): with "Ok", or with the first of its
\* errors in the order of the checks.
TestsAgree == (expect # <<>> /\ verdict # <<>>) => verdict = expect
=============================================================================
