------------------------------- MODULE Builder -------------------------------
(***************************************************************************)
(* logic/builder: the calls by which a closure declares relations and adds  *)
(* facts and rules, with every check each call makes in the order it makes  *)
(* them, up to the program that build hands to stratify.                    *)
(*                                                                         *)
(* A column value (ColVal) is [kind, name, type], a literal or a variable;  *)
(* a binding is <<column, column value>>.  A call is a record with a field  *)
(* op; the body of a rule holds the sequences that RuleBodyBuilder          *)
(* collects: search ([rel, cid, bind], cid a set of at most one column      *)
(* value), preds ([fn, vars]), except ([rel, bind]) and groups              *)
(* ([rel, bind, target, fn, vars]).                                         *)
(*                                                                         *)
(* The closure returns the first error it meets, as every program of the    *)
(* repository does with "?"; the build then ends with that error.           *)
(***************************************************************************)
EXTENDS Integers, Sequences, FiniteSets

CONSTANT Calls  \* the calls that closures make

ASSUME CallsAssumption ==
  \A c \in Calls : c.op = "declare" => c.source \in {"Edb", "Idb"}

VARIABLES
  relations,  \* the declarations: relation -> [source, cols: column -> type]
  clauses,    \* the accepted calls of fact and rule, in order
  verdict     \* <<>> while the closure runs, <<"Ok">> or the error

bvars == <<relations, clauses, verdict>>

Var(name, type) == [kind |-> "var", name |-> name, type |-> type]
Lit(name, type) == [kind |-> "lit", name |-> name, type |-> type]

\* RelationSource::Edb is declared by input, Idb by output.
Declare(r, source, cols) == [op |-> "declare", rel |-> r, source |-> source, cols |-> cols]
Fact(r, bind) == [op |-> "fact", rel |-> r, bind |-> bind]
Clause(r, head, body) == [op |-> "rule", rel |-> r, bind |-> head, body |-> body]

-----------------------------------------------------------------------------
(* Types.                                                                   *)

\* ColType::unify, Type::check: Any goes with everything, a type with itself.
Compatible(types) == Cardinality(types \ {"Any"}) <= 1

Unify(t, u) == IF t = "Any" THEN u ELSE t

-----------------------------------------------------------------------------
(* Complaints: [at, error], where "at" orders the checks of one call as the *)
(* code makes them.  Checks with the same "at" are made in the order of a   *)
(* HashMap.                                                                 *)

Complaint(at, error) == [at |-> at, error |-> error]

Before(a, b) ==
  \/ a[1] < b[1]
  \/ a[1] = b[1] /\ a[2] < b[2]
  \/ a[1] = b[1] /\ a[2] = b[2] /\ a[3] < b[3]

\* The errors that the call may return.
First(complaints) ==
  {c.error : c \in {d \in complaints : \A e \in complaints : ~ Before(e.at, d.at)}}

Columns(r) == IF r \in DOMAIN relations THEN DOMAIN relations[r].cols ELSE {}

\* The type that a binding of a known column must go with.
ColumnType(r, b) == relations[r].cols[b[1]]

Repeated(bind, j) == \E i \in 1..(j - 1) : bind[i][1] = bind[j][1]

\* The checks every builder makes on its j-th binding, whose types must be
\* compatible with that of the column.
ColumnError(r, bind, j, types) ==
  LET c == bind[j][1]
  IN  CASE c \notin Columns(r) -> <<"UnrecognizedColumnBinding", r, c>>
        [] c \in Columns(r) /\ Repeated(bind, j) -> <<"ConflictingColumnBinding", r, c>>
        [] c \in Columns(r) /\ ~ Repeated(bind, j)
             /\ ~ Compatible(types \cup {ColumnType(r, bind[j])}) ->
               <<"ColumnValueTypeConflict", r, c, bind[j][2], ColumnType(r, bind[j])>>
        [] OTHER -> <<>>

\* RelPredicateBuilder, NegationBuilder and AggregationBuilder::finalize.
ColumnComplaints(stage, term, r, bind) ==
  {Complaint(<<stage, term, j + 1>>, ColumnError(r, bind, j, {bind[j][2].type})) :
      j \in {k \in DOMAIN bind : ColumnError(r, bind, k, {bind[k][2].type}) # <<>>}}

UnknownRelation(stage, term, r) ==
  IF r \in DOMAIN relations THEN {}
  ELSE {Complaint(<<stage, term, 0>>, <<"UnrecognizedRelation", r>>)}

\* The columns of the declaration that a fact or a head leaves open.
MissingColumns(r, bind) ==
  {Complaint(<<5, 0, Len(bind) + 2>>, <<"ColumnMissing", r, c>>) :
      c \in Columns(r) \ {bind[j][1] : j \in DOMAIN bind}}

\* Mutant of InputHead: an input may have clauses.
InputHeadToo(r) == {}

\* Facts and heads of an input relation are refused last.
InputHead(r) ==
  IF relations[r].source = "Idb" THEN {}
  ELSE {Complaint(<<6, 0, 0>>, <<"ClauseHeadEDB", r>>)}

-----------------------------------------------------------------------------
(* bound_vars.                                                              *)

\* The j-th binding of the i-th search inserts a variable, or its cid does,
\* which comes first (j = 0).
InsertsAt(body, v, i, j) ==
  IF j = 0 THEN \E c \in body.search[i].cid : c.kind = "var" /\ c.name = v
  ELSE /\ body.search[i].bind[j][2].kind = "var"
       /\ body.search[i].bind[j][2].name = v
       /\ body.search[i].bind[j][1] \in Columns(body.search[i].rel)

Binders(body, v) ==
  {p \in UNION {{i} \X (0..Len(body.search[i].bind)) : i \in DOMAIN body.search} :
      InsertsAt(body, v, p[1], p[2])}

Searched(body, v) == Binders(body, v) # {}

\* Each insertion overwrites the type of the one before.
SearchedType(body, v) ==
  LET last == CHOOSE p \in Binders(body, v) : \A q \in Binders(body, v) :
                 q[1] < p[1] \/ (q[1] = p[1] /\ q[2] <= p[2])
      b == body.search[last[1]].bind[last[2]]
  IN  IF last[2] = 0 THEN "Cid"
      ELSE Unify(ColumnType(body.search[last[1]].rel, b), b[2].type)

TargetOf(body, n) == body.groups[n].target.name

IsTarget(body, v) == \E n \in DOMAIN body.groups : TargetOf(body, n) = v

TargetType(body, v) ==
  body.groups[CHOOSE n \in DOMAIN body.groups : TargetOf(body, n) = v].target.type

BoundType(body, v) ==
  IF IsTarget(body, v) THEN TargetType(body, v) ELSE SearchedType(body, v)

-----------------------------------------------------------------------------
(* Rules.                                                                   *)

SearchComplaintsAt(body, i) ==
  LET s == body.search[i]
  IN  UnknownRelation(1, i, s.rel)
      \cup (IF s.cid # {} /\ s.rel \in DOMAIN relations /\ relations[s.rel].source # "Edb"
            THEN {Complaint(<<1, i, 1>>, <<"ContentAddressedIDB", s.rel>>)} ELSE {})
      \cup ColumnComplaints(1, i, s.rel, s.bind)

SearchComplaints(body) == UNION {SearchComplaintsAt(body, i) : i \in DOMAIN body.search}

PredicateComplaintsAt(body, i) ==
  {Complaint(<<2, i, k>>, <<"ClauseNotDomainIndependent", body.preds[i].vars[k]>>) :
      k \in {l \in DOMAIN body.preds[i].vars : ~ Searched(body, body.preds[i].vars[l])}}

PredicateComplaints(body) == UNION {PredicateComplaintsAt(body, i) : i \in DOMAIN body.preds}

VarNames(bind) == {bind[j][2].name : j \in {k \in DOMAIN bind : bind[k][2].kind = "var"}}

\* Mutant of NegationComplaintsAt: the variables need not be bound.
NegationComplaintsUnbound(body, i) ==
  UnknownRelation(3, i, body.except[i].rel)
  \cup ColumnComplaints(3, i, body.except[i].rel, body.except[i].bind)

NegationComplaintsAt(body, i) ==
  LET n == body.except[i]
  IN  UnknownRelation(3, i, n.rel)
      \cup ColumnComplaints(3, i, n.rel, n.bind)
      \cup {Complaint(<<3, i, Len(n.bind) + 2>>, <<"ClauseNotDomainIndependent", v>>) :
               v \in {w \in VarNames(n.bind) : ~ Searched(body, w)}}

NegationComplaints(body) == UNION {NegationComplaintsAt(body, i) : i \in DOMAIN body.except}

\* Mutant of TargetIsBound: what is aggregated into may be searched.
TargetIsTwice(body, i) == \E k \in 1..(i - 1) : TargetOf(body, k) = TargetOf(body, i)

TargetIsBound(body, i) ==
  Searched(body, TargetOf(body, i)) \/ \E k \in 1..(i - 1) : TargetOf(body, k) = TargetOf(body, i)

\* Neither the variables grouped by nor the arguments need be bound.
AggregationComplaintsAt(body, i) ==
  LET g == body.groups[i]
  IN  UnknownRelation(4, i, g.rel)
      \cup (IF TargetIsBound(body, i)
            THEN {Complaint(<<4, i, 1>>, <<"AggregationBoundTarget", TargetOf(body, i)>>)} ELSE {})
      \cup ColumnComplaints(4, i, g.rel, g.bind)

AggregationComplaints(body) == UNION {AggregationComplaintsAt(body, i) : i \in DOMAIN body.groups}

\* Mutant of HeadTypes: what the body bound the variable to does not count.
HeadTypesOwn(r, head, body, j) == {head[j][2].type}

\* The types a head's variable must agree on at its j-th binding: what the body
\* bound it to, its own, and for each earlier binding of a variable of its name
\* the type it had there and that of the column.
HeadTypes(r, head, body, j) ==
  LET v == head[j][2]
      earlier == {i \in 1..(j - 1) : /\ head[i][2].kind = "var" /\ head[i][2].name = v.name
                                     /\ head[i][1] \in Columns(r)}
  IN  {v.type} \cup {BoundType(body, v.name)}
      \cup {head[i][2].type : i \in earlier} \cup {ColumnType(r, head[i]) : i \in earlier}

\* RuleHeadBuilder::finalize on its j-th binding.
HeadError(r, head, body, j) ==
  LET v == head[j][2]
      unbound == v.kind = "var" /\ ~ Searched(body, v.name) /\ ~ IsTarget(body, v.name)
  IN  CASE unbound /\ ColumnError(r, head, j, {}) = <<>> ->
             <<"ClauseNotRangeRestricted", head[j][1], v.name>>
        [] unbound /\ ColumnError(r, head, j, {}) # <<>> -> ColumnError(r, head, j, {})
        [] v.kind = "lit" -> ColumnError(r, head, j, {v.type})
        [] OTHER -> ColumnError(r, head, j, HeadTypes(r, head, body, j))

HeadComplaints(r, head, body) ==
  {Complaint(<<5, 0, j>>, HeadError(r, head, body, j)) :
      j \in {k \in DOMAIN head : HeadError(r, head, body, k) # <<>>}}

RuleComplaints(c) ==
  SearchComplaints(c.body) \cup PredicateComplaints(c.body) \cup NegationComplaints(c.body)
  \cup AggregationComplaints(c.body) \cup HeadComplaints(c.rel, c.bind, c.body)
  \cup MissingColumns(c.rel, c.bind) \cup InputHead(c.rel)

\* FactBuilder::finalize.
FactError(c, j) ==
  IF c.bind[j][2].kind = "var"
  THEN <<"NonGroundFact", c.rel, c.bind[j][1], c.bind[j][2].name>>
  ELSE ColumnError(c.rel, c.bind, j, {c.bind[j][2].type})

FactComplaints(c) ==
  {Complaint(<<5, 0, j>>, FactError(c, j)) : j \in {k \in DOMAIN c.bind : FactError(c, k) # <<>>}}
  \cup MissingColumns(c.rel, c.bind) \cup InputHead(c.rel)

\* indexed_input, indexed_output and DeclarationBuilder::finalize.
DeclareComplaints(c) ==
  (IF c.rel \notin DOMAIN relations THEN {}
   ELSE {Complaint(<<0, 0, 0>>, <<"ConflictingRelationDeclaration", c.rel>>)})
  \cup {Complaint(<<0, 0, j>>, <<"DuplicateDeclarationCol", c.rel, c.cols[j][1]>>) :
           j \in {k \in DOMAIN c.cols : Repeated(c.cols, k)}}

\* What a call finds wrong.
Complaints(c) ==
  CASE c.op = "declare" -> DeclareComplaints(c)
    [] c.op # "declare" /\ c.rel \notin DOMAIN relations -> UnknownRelation(0, 0, c.rel)
    [] c.op = "fact" /\ c.rel \in DOMAIN relations -> FactComplaints(c)
    [] c.op = "rule" /\ c.rel \in DOMAIN relations -> RuleComplaints(c)

-----------------------------------------------------------------------------
(* The calls.                                                               *)

Schema(cols) ==
  [c \in {cols[j][1] : j \in DOMAIN cols} |->
      cols[CHOOSE j \in DOMAIN cols : cols[j][1] = c][2]]

Declaration(c) == [source |-> c.source, cols |-> Schema(c.cols)]

\* install_preamble.
Preamble ==
  [evac  |-> [source |-> "Edb", cols |-> [c \in {"entity", "attribute", "value"} |-> "Any"]],
   links |-> [source |-> "Edb", cols |-> [c \in {"from", "to"} |-> "Cid"]]]

Init ==
  /\ relations = Preamble
  /\ clauses = <<>>
  /\ verdict = <<>>

\* Mutant of DoDeclare: the relations declared before are lost.
DoDeclareAlone(c) ==
  /\ c.op = "declare"
  /\ Complaints(c) = {}
  /\ relations' = [r \in {c.rel} |-> Declaration(c)]
  /\ UNCHANGED <<clauses, verdict>>

\* input and output.
DoDeclare(c) ==
  /\ c.op = "declare"
  /\ Complaints(c) = {}
  /\ relations' = [r \in DOMAIN relations \cup {c.rel} |->
                     IF r = c.rel THEN Declaration(c) ELSE relations[r]]
  /\ UNCHANGED <<clauses, verdict>>

\* fact and rule.
DoClause(c) ==
  /\ c.op \in {"fact", "rule"}
  /\ Complaints(c) = {}
  /\ clauses' = Append(clauses, c)
  /\ UNCHANGED <<relations, verdict>>

Reject(c) ==
  /\ Complaints(c) # {}
  /\ verdict' \in First(Complaints(c))
  /\ UNCHANGED <<relations, clauses>>

Call(c) ==
  /\ verdict = <<>>
  /\ DoDeclare(c) \/ DoClause(c) \/ Reject(c)

\* The closure returns: stratify then accepts the program or not.
Finish ==
  /\ verdict = <<>>
  /\ verdict' \in {<<"Ok">>, <<"ProgramUnstratifiable">>}
  /\ UNCHANGED <<relations, clauses>>

Next == Finish \/ \E c \in Calls : Call(c)

Spec == Init /\ [][Next]_bvars

-----------------------------------------------------------------------------
(* What is accepted.                                                        *)

BodyIsSafe(body) ==
  /\ \A i \in DOMAIN body.search :
       /\ body.search[i].rel \in DOMAIN relations
       /\ body.search[i].cid # {} => relations[body.search[i].rel].source = "Edb"
  /\ \A i \in DOMAIN body.preds : \A k \in DOMAIN body.preds[i].vars :
       Searched(body, body.preds[i].vars[k])
  /\ \A i \in DOMAIN body.except :
       /\ body.except[i].rel \in DOMAIN relations
       /\ \A v \in VarNames(body.except[i].bind) : Searched(body, v)
  /\ \A i \in DOMAIN body.groups :
       /\ body.groups[i].rel \in DOMAIN relations
       /\ ~ Searched(body, TargetOf(body, i))
       /\ \A k \in 1..(i - 1) : TargetOf(body, k) # TargetOf(body, i)

ClauseIsSafe(c) ==
  /\ c.rel \in DOMAIN relations
  /\ relations[c.rel].source = "Idb"
  /\ {c.bind[j][1] : j \in DOMAIN c.bind} = Columns(c.rel)
  /\ \A j \in DOMAIN c.bind : ~ Repeated(c.bind, j)
  /\ c.op = "fact" => VarNames(c.bind) = {}
  /\ c.op = "rule" =>
       /\ BodyIsSafe(c.body)
       /\ \A v \in VarNames(c.bind) : Searched(c.body, v) \/ IsTarget(c.body, v)

\* Whatever is declared later, every accepted clause fills each column of an
\* output relation once, facts are ground, and a rule is safe: the variables
\* of its head are searched or aggregated into, those of its negations and
\* predicates are searched, no aggregation overwrites a bound variable, and
\* only inputs are searched by content (rule_head.rs, rule_body.rs, fact.rs).
ClausesAreSafe == \A n \in DOMAIN clauses : ClauseIsSafe(clauses[n])

TypeOK ==
  /\ \A r \in DOMAIN relations : relations[r].source \in {"Edb", "Idb"}
  /\ DOMAIN Preamble \subseteq DOMAIN relations
  /\ \A n \in DOMAIN clauses : clauses[n].op \in {"fact", "rule"}
=============================================================================
