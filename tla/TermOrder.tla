------------------------------ MODULE TermOrder ------------------------------
(***************************************************************************)
(* logic/lower_to_ram.rs: the semi-naive rewrites of a rule and the order   *)
(* in which the terms of each rewrite are lowered, which decides what each  *)
(* search can use and where each formula is evaluated.                      *)
(*                                                                         *)
(* A term is [kind, at, version]: the at-th predicate over variables        *)
(* ("pred"), negation ("neg"), aggregation ("agg") or relational predicate  *)
(* ("rel") of the rule, the last of these in a version.                     *)
(***************************************************************************)
EXTENDS Datalog

\* Mutants of SemiNaiveRewrites: one predicate at a time is Delta; only the
\* first one ever is.
SemiNaiveRewritesOneDelta(rule) ==
    LET n == Len(rule.pos)
    IN  IF n = 0 THEN <<(<<>>)>>
        ELSE [d \in 1..n |-> [i \in 1..n |-> IF i = d THEN "Delta" ELSE "Total"]]

SemiNaiveRewritesFirstDelta(rule) == <<SemiNaiveRewritesOneDelta(rule)[1]>>

\* semi_naive_rewrites: every choice of Delta or Total for the relational
\* predicates with at least one Delta, in the order of the bit masks; a rule
\* without relational predicates is lowered once.
SemiNaiveRewrites(rule) ==
    LET n == Len(rule.pos)
        Bit(mask, i) == (mask \div 2^(i - 1)) % 2
    IN  IF n = 0 THEN <<(<<>>)>>
        ELSE [mask \in 1..(2^n - 1) |->
                 [i \in 1..n |-> IF Bit(mask, i) = 1 THEN "Delta" ELSE "Total"]]

\* The terms of a rewrite before they are ordered.
Terms(rule, versions) ==
    LET Of(kind, s) == [i \in DOMAIN s |-> [kind |-> kind, at |-> i, version |-> "none"]]
    IN  Of("pred", rule.preds) \o Of("neg", rule.neg) \o Of("agg", rule.aggs)
        \o [i \in DOMAIN versions |->
               [kind |-> "rel", at |-> i, version |-> versions[i]]]

\* The variables of a term; those of an aggregation are its arguments.
TermVars(rule, t) ==
    CASE t.kind = "pred" -> ToSet(rule.preds[t.at].vars)
      [] t.kind = "neg"  -> VarsOf(rule, rule.neg[t.at])
      [] t.kind = "rel"  -> VarsOf(rule, rule.pos[t.at])
      [] t.kind = "agg"  -> ToSet(rule.aggs[t.at].vars)

\* select_term's filter.
Ready(rule, t, bound) ==
    t.kind \in {"pred", "neg"} => TermVars(rule, t) \subseteq bound

\* Mutant of Priority: aggregations come before the searches.
PriorityAggFirst(rule, t, bound) ==
    IF t.kind = "agg" THEN <<5, 0>> ELSE <<0, Cardinality(TermVars(rule, t) \cap bound)>>

\* select_term's key: negations, predicates, searches of Delta, searches of
\* Total, aggregations, and among equals the term with more variables bound.
Priority(rule, t, bound) ==
    CASE t.kind = "neg"  -> <<4, Cardinality(TermVars(rule, t))>>
      [] t.kind = "pred" -> <<3, Len(rule.preds[t.at].vars)>>
      [] t.kind = "rel"  -> <<IF t.version = "Delta" THEN 2 ELSE 1,
                              Cardinality(TermVars(rule, t) \cap bound)>>
      [] t.kind = "agg"  -> <<0, Cardinality(TermVars(rule, t) \cap bound)>>

\* select_term on the terms left: the position of the last one of the highest
\* priority.
Selected(rule, left, bound) ==
    LET ready == {i \in DOMAIN left : Ready(rule, left[i], bound)}
        AtLeast(p, q) == p[1] > q[1] \/ (p[1] = q[1] /\ p[2] >= q[2])
        best == {i \in ready : \A j \in ready :
                    AtLeast(Priority(rule, left[i], bound), Priority(rule, left[j], bound))}
    IN  CHOOSE i \in best : \A j \in best : j <= i

\* update_bindings.
Binds(rule, t) ==
    CASE t.kind = "rel" -> VarsOf(rule, rule.pos[t.at])
      [] t.kind = "agg" -> {rule.aggs[t.at].target}
      [] OTHER          -> {}

\* order_terms.  When no term is ready the program panics: the order stays
\* shorter than the terms.
OrderTerms(rule, versions) ==
    LET Select(s) ==
            IF \A i \in DOMAIN s.left : ~ Ready(rule, s.left[i], s.bound) THEN s
            ELSE LET i == Selected(rule, s.left, s.bound)
                 IN  [left    |-> RemoveAt(s.left, i),
                      ordered |-> Append(s.ordered, s.left[i]),
                      bound   |-> s.bound \cup Binds(rule, s.left[i])]
        terms == Terms(rule, versions)
        chosen[n \in 0..Len(terms)] ==
            IF n = 0 THEN [left |-> terms, ordered |-> <<>>, bound |-> {}]
            ELSE Select(chosen[n - 1])
    IN  chosen[Len(terms)].ordered

Stuck(rule, versions) == Len(OrderTerms(rule, versions)) < Len(Terms(rule, versions))

\* The variables bound when the i-th term of an order is lowered.
BoundBefore(rule, order, i) == UNION {Binds(rule, order[j]) : j \in 1..(i - 1)}

\* A formula is attached to the search, aggregation or project that comes next
\* (formulae, in lower_rule_body_to_ram); an aggregation never evaluates its
\* own.
Evaluated(order, i) ==
    LET next == {j \in DOMAIN order : j > i /\ order[j].kind \in {"rel", "agg"}}
    IN  next # {} => order[CHOOSE j \in next : \A k \in next : j <= k].kind = "rel"
=============================================================================
