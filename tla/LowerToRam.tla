----------------------------- MODULE LowerToRam -----------------------------
(***************************************************************************)
(* logic/lower_to_ram.rs: the translation of a stratified program into the  *)
(* statements the VM runs once per epoch.  Each relation has three          *)
(* versions: Total (everything known), Delta (what the current round feeds  *)
(* on) and New (what the current loop iteration derives).                   *)
(*                                                                         *)
(* A statement is a record with a field op.  An insert carries the table of *)
(* the ground rows its nested searches would visit: row.search are the      *)
(* patterns, with the version each is searched in, that bind the row;       *)
(* row.absent the not_in formulae; row.aggs the groups, read in Total, and  *)
(* the value each must have; row.head what the project writes.              *)
(*                                                                         *)
(* A row gives every occurrence of a variable the same value, in the        *)
(* columns that Constrained keeps.                                          *)
(***************************************************************************)
EXTENDS Stratify, TermOrder

Key(r, version) == <<r, version>>

Insert(into, ground, rows) ==
    [op |-> "insert", into |-> into, ground |-> ground, rows |-> rows]
Merge(from, into)  == [op |-> "merge", from |-> from, into |-> into]
Swap(left, right)  == [op |-> "swap", left |-> left, right |-> right]
Purge(key)         == [op |-> "purge", key |-> key]
Exit(keys)         == [op |-> "exit", keys |-> keys]
Sources(relations) == [op |-> "sources", relations |-> relations]
Sinks(relations)   == [op |-> "sinks", relations |-> relations]
Loop(body)         == [op |-> "loop", body |-> body]

\* One statement for each relation of a set, in the order of the HashSet.
ForEach(relations, Statement(_)) ==
    LET order == SetToSeq(relations)
    IN  [i \in DOMAIN order |-> Statement(order[i])]

-----------------------------------------------------------------------------
(* Facts and rules.                                                         *)

LowerFact(fact) ==
    Insert(Key(fact.rel, "Delta"), TRUE, {[head |-> fact, search |-> {}, absent |-> {}, aggs |-> {}]})

\* The not_in formula on the head: every search under which the variables of
\* the head are bound gets one, as does an aggregation, which ignores it.
HeadGuard(rule, b) ==
    IF rule.pos # <<>> /\ VarsOf(rule, rule.head) \subseteq SearchedVars(rule)
    THEN {<<Resolve(rule.head, b), "Total">>} ELSE {}

\* The negations and predicates of an order that are evaluated.
Formulae(order, kind) ==
    {order[i].at : i \in {j \in DOMAIN order : order[j].kind = kind /\ Evaluated(order, j)}}

NotIn(rule, order, b) == {Resolve(rule.neg[n], b) : n \in Formulae(order, "neg")}

\* The columns that a search is given or binds.  Of a variable that occurs more
\* than once in an atom, and is not bound before, only one column counts: the
\* last one of the HashMap, after the cid.
Constrained(rule, order, i) ==
    LET atom == rule.pos[order[i].at]
        free == DOMAIN rule.vars \ BoundBefore(rule, order, i)
        Same(c) == {d \in DOMAIN atom.args : atom.args[d] = atom.args[c]}
        Binder(c) == CHOOSE d \in Same(c) : d # "cid" \/ Same(c) = {"cid"}
        kept == {c \in DOMAIN atom.args : atom.args[c] \in free => c = Binder(c)}
    IN  [atom EXCEPT !.args = [c \in kept |-> atom.args[c]]]

Searches(rule, order, b) ==
    {<<Resolve(Constrained(rule, order, i), b), order[i].version>> :
        i \in {j \in DOMAIN order : order[j].kind = "rel"}}

\* Mutants of LowerRow: a head that is known is projected again; a negated
\* predicate is ignored; the columns of a group are not constrained.
LowerRowUnguarded(rule, order, b) ==
    [head   |-> Resolve(rule.head, b),
     search |-> Searches(rule, order, b),
     absent |-> NotIn(rule, order, b) \X {"Delta", "Total"},
     aggs   |-> {GroundAgg(rule, rule.aggs[order[i].at], BoundBefore(rule, order, i), b) :
                    i \in {j \in DOMAIN order : order[j].kind = "agg"}}]

LowerRowPositive(rule, order, b) ==
    [LowerRowUnguarded(rule, order, b) EXCEPT !.absent = HeadGuard(rule, b)]

LowerRowUngrouped(rule, order, b) ==
    [LowerRowUnguarded(rule, order, b) EXCEPT
        !.aggs = {GroundAgg(rule, rule.aggs[i], {}, b) : i \in DOMAIN rule.aggs}]

\* lower_rule_body_to_ram: a negated pattern must be in neither Delta nor
\* Total; a row whose head is already in Total is dropped by the search that
\* binds the last variable of the head; the group of an aggregation is
\* constrained by what is bound when it is reached.
LowerRow(rule, order, b) ==
    [head   |-> Resolve(rule.head, b),
     search |-> Searches(rule, order, b),
     absent |-> (NotIn(rule, order, b) \X {"Delta", "Total"}) \cup HeadGuard(rule, b),
     aggs   |-> {GroundAgg(rule, rule.aggs[order[i].at], BoundBefore(rule, order, i), b) :
                    i \in {j \in DOMAIN order : order[j].kind = "agg"}}]

LowerRewrite(rule, versions, version) ==
    LET order == OrderTerms(rule, versions)
        kept  == {b \in Bindings(rule) :
                    \A p \in Formulae(order, "pred") : PredicateHolds(rule.preds[p], b)}
    IN  Insert(Key(rule.head.rel, version), FALSE, {LowerRow(rule, order, b) : b \in kept})

LowerRule(rule, version) ==
    LET rewrites == SemiNaiveRewrites(rule)
    IN  [i \in DOMAIN rewrites |-> LowerRewrite(rule, rewrites[i], version)]

LowerRules(rules, version) ==
    FlattenSeq([i \in DOMAIN rules |-> LowerRule(rules[i], version)])

LowerFacts(facts) ==
    LET order == SetToSeq(facts) IN [i \in DOMAIN order |-> LowerFact(order[i])]

-----------------------------------------------------------------------------
(* Strata.                                                                  *)

MergeDelta(relations) ==
    ForEach(relations, LAMBDA r : Merge(Key(r, "Delta"), Key(r, "Total")))

\* Total becomes the Delta that later strata feed on.
MergeTotal(relations) ==
    ForEach(relations, LAMBDA r : Merge(Key(r, "Total"), Key(r, "Delta")))

\* The rules that read a relation of their own stratum run inside the loop.
IsDynamic(rule, stratum) ==
    \E a \in ToSet(rule.pos) : a.rel \in stratum.relations

\* Mutants of LoopBody: the sinks come after the exit; the rules fill Delta.
LoopBodyLateSinks(stratum, dynamic) ==
    ForEach(stratum.relations, LAMBDA r : Purge(Key(r, "New")))
    \o LowerRules(dynamic, "New")
    \o MergeDelta(stratum.relations)
    \o <<Exit({Key(r, "New") : r \in stratum.relations}), Sinks(stratum.relations)>>
    \o ForEach(stratum.relations, LAMBDA r : Swap(Key(r, "New"), Key(r, "Delta")))

LoopBodyInPlace(stratum, dynamic) ==
    LowerRules(dynamic, "Delta")
    \o <<Sinks(stratum.relations)>>
    \o MergeDelta(stratum.relations)
    \o <<Exit({Key(r, "New") : r \in stratum.relations})>>

LoopBody(stratum, dynamic) ==
    ForEach(stratum.relations, LAMBDA r : Purge(Key(r, "New")))
    \o LowerRules(dynamic, "New")
    \o <<Sinks(stratum.relations)>>
    \o MergeDelta(stratum.relations)
    \o <<Exit({Key(r, "New") : r \in stratum.relations})>>
    \o ForEach(stratum.relations, LAMBDA r : Swap(Key(r, "New"), Key(r, "Delta")))

LowerRecursiveStratum(stratum) ==
    LET inside  == {r \in ToSet(stratum.rules) : IsDynamic(r, stratum)}
        dynamic == Keep(stratum.rules, inside)
        static  == Keep(stratum.rules, ToSet(stratum.rules) \ inside)
    IN  LowerFacts(stratum.facts)
        \o LowerRules(static, "Delta")
        \o MergeDelta({r.head.rel : r \in ToSet(static)})
        \o <<Loop(LoopBody(stratum, dynamic))>>
        \o MergeTotal(stratum.relations)

LowerFlatStratum(stratum) ==
    LowerFacts(stratum.facts)
    \o LowerRules(stratum.rules, "Delta")
    \o MergeDelta(stratum.relations)
    \o <<Sinks(stratum.relations)>>
    \o MergeTotal(stratum.relations)

LowerStratum(stratum) ==
    IF stratum.recursive THEN LowerRecursiveStratum(stratum)
    ELSE LowerFlatStratum(stratum)

-----------------------------------------------------------------------------
(* The whole program: an epoch takes the inputs into Delta, runs the strata,*)
(* then moves the inputs to Total and empties every Delta.                  *)

\* Mutants of MergeInput: the Delta is kept; the inputs are not.
MergeInputKept(r) == <<Merge(Key(r, "Delta"), Key(r, "Total"))>>
MergeInputLost(r) == <<Purge(Key(r, "Delta"))>>

MergeInput(r) ==
    <<Merge(Key(r, "Delta"), Key(r, "Total")), Purge(Key(r, "Delta"))>>

LowerToRam(source, strata) ==
    <<Sources(source.edb)>>
    \o FlattenSeq([i \in DOMAIN strata |-> LowerStratum(strata[i])])
    \o FlattenSeq(ForEach(source.edb, MergeInput))
    \o ForEach(source.idb, LAMBDA r : Purge(Key(r, "Delta")))
=============================================================================
