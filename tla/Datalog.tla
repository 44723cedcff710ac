------------------------------ MODULE Datalog ------------------------------
(***************************************************************************)
(* Datalog programs as rs-rhizome's builder leaves them in the AST          *)
(* (logic/ast), and what such a program means.  The meaning is the          *)
(* reference every evaluation of the program is compared with.              *)
(*                                                                         *)
(* A fact is [rel |-> relation, args |-> a function from the columns to     *)
(* their values]; a pattern is a fact that may lack columns, and an atom a  *)
(* pattern whose args may also be variables.  Values and variables are      *)
(* strings; the variables of a rule are the domain of rule.vars, which      *)
(* gives each the set of values of its type.  A content address (cid) is a  *)
(* column like any other.                                                   *)
(*                                                                         *)
(* A program is [edb, idb, facts, rules]: the relations declared as inputs  *)
(* and as outputs, the ground facts, and the sequence of rules.  A rule is  *)
(* [vars, head, pos, neg, preds, aggs]: an atom and the sequences of its    *)
(* relational predicates, negations, predicates over variables              *)
(* ([fn, vars]) and aggregations ([target, atom, fn, vars]).                *)
(***************************************************************************)
EXTENDS Integers, Sequences, FiniteSets, Kernel, SequencesExt

Atom(r, a) == [rel |-> r, args |-> a]

\* A rule with relational predicates and negations only.
Rule(v, h, p, n) ==
    [vars |-> v, head |-> h, pos |-> p, neg |-> n, preds |-> <<>>, aggs |-> <<>>]

\* A sequence of some elements; an atom about one of the relations.
IsSeq(s) == s \in Seq(ToSet(s))
IsAtom(a, relations) ==
    a = Atom(a.rel, a.args) /\ a.rel \in relations /\ IsFiniteSet(DOMAIN a.args)

\* A rule whose head is an output and whose body is about declared relations.
ProperRule(r, declared, outputs) ==
    /\ IsSeq(r.pos) /\ IsSeq(r.neg) /\ IsSeq(r.preds) /\ IsSeq(r.aggs)
    /\ IsAtom(r.head, outputs)
    /\ \A a \in ToSet(r.pos) \cup ToSet(r.neg) : IsAtom(a, declared)
    /\ \A p \in ToSet(r.preds) : IsSeq(p.vars)
    /\ \A g \in ToSet(r.aggs) : IsSeq(g.vars) /\ IsAtom(g.atom, declared)

\* A program as the builder hands it over: finitely many relations, inputs and
\* outputs apart, and every clause about an output.
Proper(source) ==
    /\ IsFiniteSet(source.edb \cup source.idb)
    /\ source.edb \cap source.idb = {}
    /\ IsFiniteSet(source.facts)
    /\ \A f \in source.facts : f.rel \in source.idb
    /\ IsSeq(source.rules)
    /\ \A r \in ToSet(source.rules) :
          ProperRule(r, source.edb \cup source.idb, source.idb)

-----------------------------------------------------------------------------
(* Grounding: the instances of a rule under every binding of its variables. *)

VarsOf(rule, atom) ==
    {atom.args[c] : c \in DOMAIN atom.args} \cap DOMAIN rule.vars

\* What the relational predicates bind.
SearchedVars(rule) == UNION {VarsOf(rule, rule.pos[i]) : i \in DOMAIN rule.pos}

Targets(rule) == {rule.aggs[i].target : i \in DOMAIN rule.aggs}

BoundVars(rule) == SearchedVars(rule) \cup Targets(rule)

\* What the builder checks of the variables of a rule: those of its predicates
\* and negations are searched, those of its head are bound.
SafeRule(rule) ==
    /\ \A p \in ToSet(rule.preds) : ToSet(p.vars) \subseteq SearchedVars(rule)
    /\ \A a \in ToSet(rule.neg) : VarsOf(rule, a) \subseteq SearchedVars(rule)
    /\ VarsOf(rule, rule.head) \subseteq BoundVars(rule)

Bindings(rule) ==
    LET bound == BoundVars(rule)
    IN  {b \in [bound -> UNION {rule.vars[v] : v \in bound}] :
            \A v \in bound : b[v] \in rule.vars[v]}

\* Bindings.resolve on every column of an atom.
Resolve(atom, bindings) ==
    [atom EXCEPT !.args = [c \in DOMAIN atom.args |->
        IF atom.args[c] \in DOMAIN bindings THEN bindings[atom.args[c]]
        ELSE atom.args[c]]]

\* The columns of an aggregation's group that are constrained when the
\* variables in bound have a value ...
GroupBy(rule, agg, bound) ==
    LET fixed == {c \in DOMAIN agg.atom.args :
                    agg.atom.args[c] \in DOMAIN rule.vars => agg.atom.args[c] \in bound}
    IN  [agg.atom EXCEPT !.args = [c \in fixed |-> agg.atom.args[c]]]

\* ... and those that hold its arguments: in the order of a HashMap, which is
\* any order, and not in that of agg.vars.
ArgCols(agg) ==
    SetToSeq({c \in DOMAIN agg.atom.args : agg.atom.args[c] \in ToSet(agg.vars)})

\* The i-th aggregation of a rule for one group.
GroundAgg(rule, agg, bound, bindings) ==
    [group |-> Resolve(GroupBy(rule, agg, bound), bindings),
     fn    |-> agg.fn,
     cols  |-> ArgCols(agg),
     value |-> bindings[agg.target]]

PredicateHolds(pred, bindings) ==
    Predicate(pred.fn, [i \in DOMAIN pred.vars |-> bindings[pred.vars[i]]])

Ground(rule, b) ==
    [head |-> Resolve(rule.head, b),
     pos  |-> {Resolve(a, b) : a \in ToSet(rule.pos)},
     neg  |-> {Resolve(a, b) : a \in ToSet(rule.neg)},
     aggs |-> {GroundAgg(rule, a, BoundVars(rule) \ {a.target}, b) : a \in ToSet(rule.aggs)}]

Instances(rule) ==
    {Ground(rule, b) : b \in {c \in Bindings(rule) :
                                \A p \in ToSet(rule.preds) : PredicateHolds(p, c)}}

-----------------------------------------------------------------------------
(* Reference semantics.                                                     *)

Found(pattern, facts) == \E f \in facts : Matches(f, pattern)

\* The heads of the instances whose body holds in "known"; negated patterns
\* are looked up in "settled", and aggregations range over "counted".
Consequences(instances, known, settled, counted) ==
    {i.head : i \in {j \in instances :
        /\ \A p \in j.pos : Found(p, known)
        /\ \A p \in j.neg : ~ Found(p, settled)
        /\ \A a \in j.aggs :
              LET group == {f \in counted : Matches(f, a.group)}
              IN  ~ Panics(a.fn, group) /\ a.value = Aggregate(a.fn, group, a.cols)}}

\* The least set that contains base and is closed under the instances, whose
\* negations are settled by base: there are at most as many rounds that add
\* something as there are heads.
LeastModel(instances, base, counted) ==
    LET heads == {i.head : i \in instances}
        round[known \in SUBSET (base \cup heads)] ==
            known \cup Consequences(instances, known, base, counted)
        upto[n \in 0..Cardinality(heads)] ==
            IF n = 0 THEN base ELSE round[upto[n - 1]]
    IN  upto[Cardinality(heads)]

\* The model of a stratified program over the input facts edb: the strata's
\* least models, each on top of those below it, where an aggregation over an
\* input relation ranges over the inputs in counted.  With neither negations
\* nor aggregations this is the least model of the whole program, whatever the
\* order of the strata.
ModelCounting(strata, edb, counted) ==
    LET Close(known, stratum) ==
            LeastModel(UNION {Instances(r) : r \in ToSet(stratum.rules)},
                       known \cup stratum.facts, (known \ edb) \cup counted)
        model[k \in 0..Len(strata)] ==
            IF k = 0 THEN edb ELSE Close(model[k - 1], strata[k])
    IN  model[Len(strata)]

PerfectModel(strata, edb) == ModelCounting(strata, edb, edb)

\* Every ground fact of the program and every fact its rules can derive.
FactsOf(source) ==
    source.facts \cup
    UNION {{i.head : i \in Instances(r)} : r \in ToSet(source.rules)}
=============================================================================
