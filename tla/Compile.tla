------------------------------- MODULE Compile -------------------------------
(***************************************************************************)
(* logic/builder/mod.rs, build: the builder's clauses as the program of     *)
(* module Datalog, and what acceptance by the builder guarantees to the     *)
(* stratification and to the lowering of its rules.                         *)
(***************************************************************************)
EXTENDS Builder, LowerToRam, Selecting

CONSTANTS
  Values,    \* the values of each type that instances range over
  MaxFacts   \* bound: the facts that the stores of RewritesFindTheNew draw from

-----------------------------------------------------------------------------
(* The AST of the clauses.                                                  *)

\* The HashMap of an atom's columns, with its content address as one more.
AstAtom(r, bind, cid) ==
  Atom(r, [c \in {bind[j][1] : j \in DOMAIN bind} \cup (IF cid = {} THEN {} ELSE {"cid"}) |->
             IF c = "cid" /\ cid # {} THEN (CHOOSE v \in cid : TRUE).name
             ELSE bind[CHOOSE j \in DOMAIN bind : bind[j][1] = c][2].name])

\* The bindings of a rule, the values they are made of, and its variables with
\* their types.
BindsOf(c) ==
  {c.bind} \cup {a.bind : a \in ToSet(c.body.search)}
  \cup {a.bind : a \in ToSet(c.body.except)} \cup {a.bind : a \in ToSet(c.body.groups)}

ColValsOf(c) ==
  (UNION {{s[j][2] : j \in DOMAIN s} : s \in BindsOf(c)})
  \cup (UNION {a.cid : a \in ToSet(c.body.search)}) \cup {g.target : g \in ToSet(c.body.groups)}

TypedVars(c) == {v \in ColValsOf(c) : v.kind = "var"}

\* A call as a program can make it, whether it is accepted or not: the builders
\* collect sequences, and a search has at most one content address.  The AST
\* of this model has names only, and a content address is a column of it: a
\* literal is not named like a variable of its rule, and no column is "cid".
IsBind(bind) == IsSeq(bind) /\ \A j \in DOMAIN bind : bind[j][1] # "cid"

IsCall(c) ==
  /\ c.op \in {"fact", "rule"} => IsBind(c.bind)
  /\ c.op = "rule" =>
       /\ IsSeq(c.body.search) /\ IsSeq(c.body.preds)
       /\ IsSeq(c.body.except) /\ IsSeq(c.body.groups)
       /\ \A bind \in BindsOf(c) : IsBind(bind)
       /\ \A a \in ToSet(c.body.search) : \A v, w \in a.cid : v = w
       /\ \A p \in ToSet(c.body.preds) : IsSeq(p.vars)
       /\ \A g \in ToSet(c.body.groups) : IsSeq(g.vars) /\ g.target.kind = "var"
       /\ \A v \in TypedVars(c), w \in ColValsOf(c) : v.name = w.name => w.kind = "var"

ASSUME ClausesAssumption == \A c \in Calls : IsCall(c)

AstRule(c) ==
  [vars  |-> [v \in {w.name : w \in TypedVars(c)} |->
                Values[(CHOOSE w \in TypedVars(c) : w.name = v).type]],
   head  |-> AstAtom(c.rel, c.bind, {}),
   pos   |-> [i \in DOMAIN c.body.search |->
                AstAtom(c.body.search[i].rel, c.body.search[i].bind, c.body.search[i].cid)],
   neg   |-> [i \in DOMAIN c.body.except |->
                AstAtom(c.body.except[i].rel, c.body.except[i].bind, {})],
   preds |-> c.body.preds,
   aggs  |-> [i \in DOMAIN c.body.groups |->
                [target |-> TargetOf(c.body, i),
                 atom   |-> AstAtom(c.body.groups[i].rel, c.body.groups[i].bind, {}),
                 fn     |-> c.body.groups[i].fn,
                 vars   |-> c.body.groups[i].vars]]]

OfKind(op) == Keep(clauses, {c \in ToSet(clauses) : c.op = op})

Declared(source) == {r \in DOMAIN relations : relations[r].source = source}

\* ProgramBuilder::finalize.
Program ==
  LET rules == OfKind("rule")
  IN  [edb   |-> Declared("Edb"),
       idb   |-> Declared("Idb"),
       facts |-> {AstAtom(c.rel, c.bind, {}) : c \in ToSet(OfKind("fact"))},
       rules |-> [i \in DOMAIN rules |-> AstRule(rules[i])]]

\* The closure has returned: stratify accepts the program or does not.
Build ==
  /\ Finish
  /\ verdict' = IF Stratifiable(Program) THEN <<"Ok">> ELSE <<"ProgramUnstratifiable">>

-----------------------------------------------------------------------------
(* What an accepted rule guarantees.                                        *)

\* The program of the clauses accepted so far is one that stratify and the
\* lowering can do with: every clause is about an output, its body about
\* declared relations, and each variable of a head, a predicate or a negation
\* is one that the searches bind, or an aggregation of the head's (program.rs,
\* finalize; lower_to_ram.rs, which takes both for granted).
ProgramIsSafe == Proper(Program) /\ \A r \in ToSet(Program.rules) : SafeRule(r)

\* The rule accepted last: each rule is looked at when it is accepted.
Accepted ==
  {c \in {clauses[Len(clauses)] : n \in {m \in {Len(clauses)} : m > 0}} : c.op = "rule"}

\* order_terms places every term of every rewrite of an accepted rule, and at
\* the end the variables of its head are bound: neither its panic nor the
\* "binding not found" of lower_rule_body_to_ram can be reached
\* (lower_to_ram.rs, order_terms and the lookups in bindings).
LoweringIsTotal ==
  \A c \in Accepted :
    LET rule == AstRule(c)
    IN  \A versions \in ToSet(SemiNaiveRewrites(rule)) :
          LET order == OrderTerms(rule, versions)
          IN  /\ ~ Stuck(rule, versions)
              /\ VarsOf(rule, rule.head) \subseteq BoundBefore(rule, order, Len(order) + 1)
              /\ \A i \in DOMAIN order : order[i].kind \in {"pred", "neg"} =>
                   TermVars(rule, order[i]) \subseteq BoundBefore(rule, order, i)

\* The types of the columns that the searches of a rule find a variable in.
FoundTypes(body, v) ==
  {IF p[2] = 0 THEN "Cid" ELSE ColumnType(body.search[p[1]].rel, body.search[p[1]].bind[p[2]]) :
      p \in Binders(body, v)}

HeadIsTyped(c) ==
  \A j \in DOMAIN c.bind :
    LET v == c.bind[j][2]
        found == FoundTypes(c.body, v.name)
    IN  (v.kind = "var" /\ \E t \in found : t # "Any" /\ found = {t}) =>
          Compatible(found \cup {ColumnType(c.rel, c.bind[j])})

\* A head column receives values of its own type only: a variable that is
\* found in columns of one type is never projected into a column of another,
\* whatever type the variable was declared with and in whatever order the
\* searches overwrite its entry in bound_vars.  Variables found in columns of
\* type Any are excluded: their values are never checked (types.rs, unify;
\* rule_head.rs; rel_predicate.rs).
HeadsAreTyped == \A c \in Accepted : HeadIsTyped(c)

-----------------------------------------------------------------------------
(* The rewrites of a rule over every small store.                           *)

\* A variable occurs twice in one relational predicate.
RepeatsVariable(rule) ==
  \E a \in ToSet(rule.pos) : \E c, d \in DOMAIN a.args :
    c # d /\ a.args[c] = a.args[d] /\ a.args[c] \in DOMAIN rule.vars

\* A formula that an aggregation follows is lost.
LosesFormula(rule) == rule.aggs # <<>> /\ (rule.preds # <<>> \/ rule.neg # <<>>)

\* The facts of the relations that a rule reads and derives; those of an input
\* have their content address as one more column.
Candidates(rule) ==
  LET read == {a.rel : a \in ToSet(rule.pos) \cup ToSet(rule.neg)}
              \cup {g.atom.rel : g \in ToSet(rule.aggs)}
      Cols(r) == IF relations[r].source = "Idb" THEN relations[r].cols
                 ELSE [c \in DOMAIN relations[r].cols \cup {"cid"} |->
                         IF c = "cid" THEN "Cid" ELSE relations[r].cols[c]]
      All(r) == {Atom(r, a) : a \in
                   {f \in [DOMAIN Cols(r) -> UNION {Values[t] : t \in DOMAIN Values}] :
                      \A c \in DOMAIN f : f[c] \in Values[Cols(r)[c]]}}
  IN  UNION {All(r) : r \in read \cup {rule.head.rel}}

\* The nest of searches visits a row of the table, with these facts in Delta
\* and in Total, and projects it.
Visits(row, delta, total) ==
  LET In(version) == IF version = "Delta" THEN delta ELSE total
  IN  /\ \A s \in row.search : Found(s[1], In(s[2]))
      /\ \A a \in row.absent : ~ Found(a[1], In(a[2]))
      /\ \A g \in row.aggs :
           g.value = Aggregate(g.fn, {f \in total : Matches(f, g.group)}, g.cols)

\* The heads of the instances with at least one predicate that only Delta is
\* sure to hold: what a round has to derive.
NewConsequences(rule, delta, total) ==
  Consequences({i \in Instances(rule) : \E p \in i.pos : Found(p, delta)},
               delta \cup total, delta \cup total, total)

\* Over every small content of Delta and Total, the rewrites of a rule with
\* searches derive together exactly what its meaning derives from the facts in
\* Delta, except for heads that are in Total already.  They derive at least
\* that when a variable is repeated within an atom; rules with a formula
\* before an aggregation are excluded (lower_to_ram.rs: semi_naive_rewrites,
\* order_terms, lower_rule_body_to_ram).
RewritesFindTheNew ==
  \A c \in Accepted :
    LET rule == AstRule(c)
        rows == UNION {s.rows : s \in ToSet(LowerRule(rule, "Delta"))}
        facts == Candidates(rule)
    IN  (rule.pos # <<>> /\ ~ LosesFormula(rule) /\ Cardinality(facts) <= MaxFacts) =>
          \A delta, total \in SUBSET facts :
            LET found == {row.head : row \in {r \in rows : Visits(r, delta, total)}}
                due   == NewConsequences(rule, delta, total)
            IN  /\ due \ total \subseteq found
                /\ ~ RepeatsVariable(rule) => found \subseteq due
=============================================================================
