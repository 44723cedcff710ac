------------------------------ MODULE Stratify ------------------------------
(***************************************************************************)
(* logic/stratify.rs: the dependency graph of a program, the test that      *)
(* rejects a program with negation through recursion, and the strata in an  *)
(* order that puts every relation after those it depends on.                *)
(*                                                                         *)
(* petgraph::algo::kosaraju_scc is external: it returns the strongly        *)
(* connected components in SOME reverse topological order, which depends on *)
(* the order of the clauses.  Every such order is admitted here.            *)
(***************************************************************************)
EXTENDS Datalog, Selecting

\* clause_depends_on over all clauses: an edge from each relation in the body
\* to the head, negative for a negated or an aggregated one.
Dependencies(source) ==
    UNION {{[from |-> a.rel, to |-> r.head.rel, positive |-> TRUE] : a \in ToSet(r.pos)}
           \cup
           {[from |-> a.rel, to |-> r.head.rel, positive |-> FALSE] :
               a \in ToSet(r.neg) \cup {g.atom : g \in ToSet(r.aggs)}}
              : r \in ToSet(source.rules)}

\* The nodes that carry clauses.  Node::Edb nodes have no incoming edge: each
\* is a component of its own and gives a stratum without statements, left out.
IdbNodes(source) ==
    {f.rel : f \in source.facts} \cup {r.head.rel : r \in ToSet(source.rules)}
    \cup ({d.from : d \in Dependencies(source)} \cap source.idb)

\* Relations reachable from r along the edges, in one step or more.
Reachable(source, r) ==
    LET nodes == IdbNodes(source)
        next(S) == {d.to : d \in {e \in Dependencies(source) : e.from \in S}}
        upto[n \in 0..Cardinality(nodes)] ==
            IF n = 0 THEN next({r})
            ELSE LET seen == upto[n - 1] IN seen \cup next(seen)
    IN  upto[Cardinality(nodes)]

Component(source, r) ==
    {r} \cup {s \in Reachable(source, r) : r \in Reachable(source, s)}

Components(source) == {Component(source, r) : r \in IdbNodes(source)}

\* No negative edge stays inside a component; otherwise ProgramUnstratifiable.
Stratifiable(source) ==
    \A c \in Components(source), d \in Dependencies(source) :
        {d.from, d.to} \subseteq c => d.positive

\* A component with more than one relation or an edge to itself is recursive.
StratumOf(source, c) ==
    [relations |-> c,
     facts     |-> {f \in source.facts : f.rel \in c},
     rules     |-> Keep(source.rules, {r \in ToSet(source.rules) : r.head.rel \in c}),
     recursive |-> \/ Cardinality(c) > 1
                   \/ \E d \in Dependencies(source) : d.from \in c /\ d.to \in c]

\* The results stratify may return for a stratifiable program.
StrataOrders(source) ==
    LET Before(c, d) == \E e \in Dependencies(source) : e.from \in c /\ e.to \in d
        Topological(s) == \A i, j \in DOMAIN s : i < j => ~ Before(s[j], s[i])
    IN  {[i \in DOMAIN s |-> StratumOf(source, s[i])] :
            s \in {t \in SetToSeqs(Components(source)) : Topological(t)}}
=============================================================================
