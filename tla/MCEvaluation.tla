---------------------------- MODULE MCEvaluation ----------------------------
(***************************************************************************)
(* Datalog programs for TLC.  Each .cfg names the ones its run explores and *)
(* the input facts that may be pushed.                                      *)
(***************************************************************************)
EXTENDS Evaluation, TLC

CONSTANT Nodes    \* the values of the nodes' type

V(r, x)    == Atom(r, [entity |-> x])
E(r, x, y) == Atom(r, [from |-> x, to |-> y])

\* A rule whose variables x, y and z range over the nodes.
NodeRule(h, p, n) ==
  LET args == UNION {{a.args[i] : i \in DOMAIN a.args} : a \in {h} \cup ToSet(p)}
  IN  Rule([v \in args \cap {"x", "y", "z"} |-> Nodes], h, p, n)

Program(idb, facts, rules) ==
  [edb |-> {"evac", "links"}, idb |-> idb, facts |-> facts, rules |-> rules]

\* path as in the repository's tests and examples, over links; evac unused.
Closure(p, e) ==
  << NodeRule(E(p, "x", "y"), <<E(e, "x", "y")>>, <<>>),
     NodeRule(E(p, "x", "z"), <<E(e, "x", "y"), E(p, "y", "z")>>, <<>>) >>

Linear == Program({"path"}, {}, Closure("path", "links"))

\* Both predicates of the recursive rule change during the loop.
NonLinear ==
  Program({"path"}, {E("path", "c", "a")},
    << NodeRule(E("path", "x", "y"), <<E("links", "x", "y")>>, <<>>),
       NodeRule(E("path", "x", "z"), <<E("path", "x", "y"), E("path", "y", "z")>>, <<>>) >>)

\* Two relations in one stratum; a ground fact that a rule derives as well.
Mutual ==
  Program({"odd", "even"}, {E("odd", "a", "b")},
    << NodeRule(E("odd", "x", "y"), <<E("links", "x", "y")>>, <<>>),
       NodeRule(E("even", "x", "z"), <<E("odd", "x", "y"), E("links", "y", "z")>>, <<>>),
       NodeRule(E("odd", "x", "z"), <<E("even", "x", "y"), E("links", "y", "z")>>, <<>>) >>)

\* A flat stratum with a ground fact, a recursive one over it, a flat one that
\* joins it with inputs, and inputs of two relations with each other.
Layered ==
  Program({"edge", "path", "seen"}, {E("edge", "c", "a")},
    << NodeRule(E("edge", "x", "y"), <<E("links", "x", "y")>>, <<>>) >>
    \o Closure("path", "edge")
    \o << NodeRule(V("seen", "y"), <<V("evac", "x"), E("path", "x", "y")>>, <<>>),
          NodeRule(V("seen", "x"), <<V("evac", "x"), E("links", "x", "y")>>, <<>>) >>)

\* The nodes that a marked node does not reach; negation of a recursive
\* relation and of an input.
Negated ==
  Program({"path", "node", "cut", "plain"}, {},
    Closure("path", "links")
    \o << NodeRule(V("node", "x"), <<E("links", "x", "y")>>, <<>>),
          NodeRule(V("node", "y"), <<E("links", "x", "y")>>, <<>>),
          NodeRule(E("cut", "x", "y"), <<V("evac", "x"), V("node", "y")>>, <<E("path", "x", "y")>>),
          NodeRule(V("plain", "x"), <<V("node", "x")>>, <<V("evac", "x")>>) >>)

\* Patterns that leave a column open, in a search and in a negation, with a
\* literal and a predicate: the nodes with a link to c, those without one.
Wild ==
  Program({"node", "lead", "leaf"}, {},
    << NodeRule(V("node", "x"), <<E("links", "x", "y")>>, <<>>),
       NodeRule(V("node", "y"), <<Atom("links", [to |-> "y"])>>, <<>>),
       NodeRule(V("lead", "x"), <<E("links", "x", "c")>>, <<>>),
       NodeRule(V("leaf", "x"), <<V("node", "x")>>, <<Atom("links", [from |-> "x"])>>) >>)

\* A ground fact of a relation whose stratum is lowered after a loop.
LateFact ==
  Program({"path", "seen"}, {V("seen", "a")},
    Closure("path", "links")
    \o << NodeRule(V("seen", "y"), <<E("path", "x", "y")>>, <<>>) >>)

Library ==
  [linear |-> Linear, nonlinear |-> NonLinear, mutual |-> Mutual,
   layered |-> Layered, negated |-> Negated, wild |-> Wild, latefact |-> LateFact]

-----------------------------------------------------------------------------
\* Every named program with every order of its strata, in one sequence: the
\* variable program is an index into it.
Orders(n) == SetToSeq(StrataOrders(Library[n]))

AstsOf(n) ==
  [i \in DOMAIN Orders(n) |-> [source |-> Library[n], strata |-> Orders(n)[i]]]

AstOf(names) == FlattenSeq([i \in DOMAIN names |-> AstsOf(names[i])])

Lower(asts) ==
  FlattenSeq([i \in DOMAIN asts |-> <<LowerToRam(asts[i].source, asts[i].strata)>>])

\* The pushable inputs and everything that can be derived.
FactsFor(names, pushable) ==
  pushable \cup {f \in UNION {FactsOf(Library[n]) : n \in ToSet(names)} :
                   f.rel \notin {"evac", "links"}}

-----------------------------------------------------------------------------
(* TLC evaluates a definition without parameters once, but not one that a   *)
(* .cfg gives to a constant: those only name another definition.  The LET   *)
(* keeps TLC's coverage statistics from unfolding it at every use.          *)

ModelNames   == <<"linear", "nonlinear", "mutual", "layered", "negated", "wild">>
ModelAsts    == AstOf(ModelNames)
ModelLowered == Lower(ModelAsts)
ModelKnown   ==
  FactsFor(ModelNames,
    {E("links", "a", "b"), E("links", "b", "c"), E("links", "b", "b"), V("evac", "b")})

ModelAst == LET it == ModelAsts IN it
ModelPrograms == LET it == ModelLowered IN it
ModelFacts == LET it == ModelKnown IN it
ModelRelations ==
  {"evac", "links", "edge", "path", "odd", "even", "seen", "node", "cut", "plain",
   "lead", "leaf"}

EngineNames   == <<"linear", "mutual">>
EngineAsts    == AstOf(EngineNames)
EngineLowered == Lower(EngineAsts)
EngineKnown   ==
  FactsFor(EngineNames,
    {E("links", "a", "b"), E("links", "b", "a"), E("links", "b", "b")})

EngineAst == LET it == EngineAsts IN it
EnginePrograms == LET it == EngineLowered IN it
EngineFacts == LET it == EngineKnown IN it
EngineRelations == {"evac", "links", "path", "odd", "even"}

LateNames   == <<"latefact">>
LateAsts    == AstOf(LateNames)
LateLowered == Lower(LateAsts)
LateKnown   == FactsFor(LateNames, {E("links", "a", "b"), E("links", "b", "b")})

LateAst == LET it == LateAsts IN it
LatePrograms == LET it == LateLowered IN it
LateFacts == LET it == LateKnown IN it
LateRelations == {"evac", "links", "path", "seen"}
=============================================================================
