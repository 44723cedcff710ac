--------------------------- MODULE Builder_proofs ---------------------------
(***************************************************************************)
(* What the builder guarantees, for every sequence of calls.  ClausesAreSafe*)
(* is inductive as it stands: a call that is accepted leaves no complaint,  *)
(* which makes its clause safe (AcceptedIsSafe), and a later declaration    *)
(* only adds a relation, which changes nothing a safe clause is about       *)
(* (StaysSafe).  ClausesFit adds, in the same way, what the AST of a clause *)
(* needs.  The rules that come of such clauses are proper and safe          *)
(* (RulesAre), so the lemmas of Rules_proofs say of all of them that they   *)
(* can be lowered.                                                          *)
(***************************************************************************)
EXTENDS Rules_proofs, Compile

\* A complaint is needed for a name that is not declared.
LEMMA KnownRelation ==
  ASSUME NEW stage, NEW term, NEW r, UnknownRelation(stage, term, r) = {}
  PROVE  r \in DOMAIN relations
BY DEF UnknownRelation

\* A binding without an error is of a column of the relation that no earlier
\* binding is of.
LEMMA ColumnFits ==
  ASSUME NEW r, NEW bind, NEW j, NEW types, ColumnError(r, bind, j, types) = <<>>
  PROVE  bind[j][1] \in Columns(r) /\ ~ Repeated(bind, j)
BY DEF ColumnError

-----------------------------------------------------------------------------
(* What the absence of complaints means.                                    *)

\* Searches are of declared relations, and by content only of inputs.
LEMMA SearchesAreSafe ==
  ASSUME NEW body, SearchComplaints(body) = {}
  PROVE  \A i \in DOMAIN body.search :
           /\ body.search[i].rel \in DOMAIN relations
           /\ body.search[i].cid # {} => relations[body.search[i].rel].source = "Edb"
<1> TAKE i \in DOMAIN body.search
<1> DEFINE s == body.search[i]
<1>0. SearchComplaintsAt(body, i) = {}
  BY DEF SearchComplaints
<1>1. /\ UnknownRelation(1, i, s.rel) = {}
      /\ (IF s.cid # {} /\ s.rel \in DOMAIN relations /\ relations[s.rel].source # "Edb"
          THEN {Complaint(<<1, i, 1>>, <<"ContentAddressedIDB", s.rel>>)} ELSE {}) = {}
  BY <1>0 DEF SearchComplaintsAt
<1>2. s.rel \in DOMAIN relations
  BY <1>1, KnownRelation
<1> QED
  BY <1>1, <1>2

\* The variables of predicates are searched.
LEMMA PredicatesAreSafe ==
  ASSUME NEW body, PredicateComplaints(body) = {}
  PROVE  \A i \in DOMAIN body.preds : \A k \in DOMAIN body.preds[i].vars :
           Searched(body, body.preds[i].vars[k])
<1> TAKE i \in DOMAIN body.preds
<1>1. PredicateComplaintsAt(body, i) = {}
  BY DEF PredicateComplaints
<1> QED
  BY <1>1 DEF PredicateComplaintsAt

\* Negations are of declared relations and their variables are searched.
LEMMA NegationsAreSafe ==
  ASSUME NEW body, NegationComplaints(body) = {}
  PROVE  \A i \in DOMAIN body.except :
           /\ body.except[i].rel \in DOMAIN relations
           /\ \A v \in VarNames(body.except[i].bind) : Searched(body, v)
<1> TAKE i \in DOMAIN body.except
<1> DEFINE n == body.except[i]
<1>0. NegationComplaintsAt(body, i) = {}
  BY DEF NegationComplaints
<1>1. /\ UnknownRelation(3, i, n.rel) = {}
      /\ {Complaint(<<3, i, Len(n.bind) + 2>>, <<"ClauseNotDomainIndependent", v>>) :
             v \in {w \in VarNames(n.bind) : ~ Searched(body, w)}} = {}
  BY <1>0 DEF NegationComplaintsAt
<1>2. n.rel \in DOMAIN relations
  BY <1>1, KnownRelation
<1> QED
  BY <1>1, <1>2

\* Aggregations are of declared relations, into variables that nothing binds.
LEMMA AggregationsAreSafe ==
  ASSUME NEW body, AggregationComplaints(body) = {}
  PROVE  \A i \in DOMAIN body.groups :
           /\ body.groups[i].rel \in DOMAIN relations
           /\ ~ Searched(body, TargetOf(body, i))
           /\ \A k \in 1..(i - 1) : TargetOf(body, k) # TargetOf(body, i)
<1> TAKE i \in DOMAIN body.groups
<1> DEFINE g == body.groups[i]
<1>0. AggregationComplaintsAt(body, i) = {}
  BY DEF AggregationComplaints
<1>1. UnknownRelation(4, i, g.rel) = {} /\ ~ TargetIsBound(body, i)
  BY <1>0 DEF AggregationComplaintsAt
<1>2. g.rel \in DOMAIN relations
  BY <1>1, KnownRelation
<1> QED
  BY <1>1, <1>2 DEF TargetIsBound

\* A head binds columns of its relation, each once, to literals and to
\* variables of the body.
LEMMA HeadsAreSafe ==
  ASSUME NEW r, NEW head, NEW body, HeadComplaints(r, head, body) = {}
  PROVE  /\ \A j \in DOMAIN head : head[j][1] \in Columns(r) /\ ~ Repeated(head, j)
         /\ \A v \in VarNames(head) : Searched(body, v) \/ IsTarget(body, v)
<1>1. \A j \in DOMAIN head : HeadError(r, head, body, j) = <<>>
  BY DEF HeadComplaints
<1>2. ASSUME NEW j \in DOMAIN head
      PROVE  /\ \E types : ColumnError(r, head, j, types) = <<>>
             /\ head[j][2].kind = "var" =>
                  Searched(body, head[j][2].name) \/ IsTarget(body, head[j][2].name)
  <2> DEFINE v == head[j][2]
             unbound == v.kind = "var" /\ ~ Searched(body, v.name) /\ ~ IsTarget(body, v.name)
  <2>1. HeadError(r, head, body, j) = <<>>
    BY <1>1
  <2>2. ~ unbound
    BY <2>1 DEF HeadError
  <2>3. CASE v.kind = "lit"
    <3>1. ColumnError(r, head, j, {v.type}) = <<>>
      BY <2>1, <2>2, <2>3 DEF HeadError
    <3> QED BY <3>1, <2>2
  <2>4. CASE v.kind # "lit"
    <3>1. ColumnError(r, head, j, HeadTypes(r, head, body, j)) = <<>>
      BY <2>1, <2>2, <2>4 DEF HeadError
    <3> QED BY <3>1, <2>2
  <2> QED BY <2>3, <2>4
<1>3. \A j \in DOMAIN head : head[j][1] \in Columns(r) /\ ~ Repeated(head, j)
  BY <1>2, ColumnFits
<1> QED
  BY <1>2, <1>3 DEF VarNames

\* The bindings of a fact are literals.
LEMMA FactsAreSafe ==
  ASSUME NEW c, FactComplaints(c) = {}
  PROVE  /\ \A j \in DOMAIN c.bind : c.bind[j][1] \in Columns(c.rel) /\ ~ Repeated(c.bind, j)
         /\ VarNames(c.bind) = {}
<1>1. \A j \in DOMAIN c.bind : FactError(c, j) = <<>>
  BY DEF FactComplaints
<1>2. ASSUME NEW j \in DOMAIN c.bind
      PROVE  c.bind[j][2].kind # "var"
             /\ ColumnError(c.rel, c.bind, j, {c.bind[j][2].type}) = <<>>
  BY <1>1 DEF FactError
<1> QED
  BY <1>2, ColumnFits DEF VarNames

\* Every column is bound.
LEMMA ColumnsAreFilled ==
  ASSUME NEW r, NEW bind, MissingColumns(r, bind) = {},
         \A j \in DOMAIN bind : bind[j][1] \in Columns(r)
  PROVE  {bind[j][1] : j \in DOMAIN bind} = Columns(r)
BY DEF MissingColumns

\* Only outputs have clauses.
LEMMA OutputHead ==
  ASSUME NEW r, InputHead(r) = {}
  PROVE  relations[r].source = "Idb"
BY DEF InputHead

-----------------------------------------------------------------------------
(* The two steps of the induction.                                          *)

\* A clause without complaints is safe.
LEMMA AcceptedIsSafe ==
  ASSUME NEW c, c.op \in {"fact", "rule"}, Complaints(c) = {}
  PROVE  ClauseIsSafe(c)
<1>1. c.rel \in DOMAIN relations
  <2> SUFFICES ASSUME c.rel \notin DOMAIN relations PROVE FALSE
    OBVIOUS
  <2>1. Complaints(c) = UnknownRelation(0, 0, c.rel)
    BY DEF Complaints
  <2> QED BY <2>1, KnownRelation
<1>2. CASE c.op = "fact"
  <2>1. FactComplaints(c) = {}
    BY <1>1, <1>2 DEF Complaints
  <2>2. MissingColumns(c.rel, c.bind) = {} /\ InputHead(c.rel) = {}
    BY <2>1 DEF FactComplaints
  <2>3. /\ \A j \in DOMAIN c.bind : c.bind[j][1] \in Columns(c.rel) /\ ~ Repeated(c.bind, j)
        /\ VarNames(c.bind) = {}
    BY <2>1, FactsAreSafe
  <2>4. {c.bind[j][1] : j \in DOMAIN c.bind} = Columns(c.rel)
    BY <2>2, <2>3, ColumnsAreFilled
  <2>5. relations[c.rel].source = "Idb"
    BY <2>2, OutputHead
  <2> QED
    BY <1>1, <1>2, <2>3, <2>4, <2>5 DEF ClauseIsSafe
<1>3. CASE c.op = "rule"
  <2>1. RuleComplaints(c) = {}
    BY <1>1, <1>3 DEF Complaints
  <2>2. /\ SearchComplaints(c.body) = {} /\ PredicateComplaints(c.body) = {}
        /\ NegationComplaints(c.body) = {} /\ AggregationComplaints(c.body) = {}
        /\ HeadComplaints(c.rel, c.bind, c.body) = {}
        /\ MissingColumns(c.rel, c.bind) = {} /\ InputHead(c.rel) = {}
    BY <2>1 DEF RuleComplaints
  <2>3. BodyIsSafe(c.body)
    BY <2>2, SearchesAreSafe, PredicatesAreSafe, NegationsAreSafe, AggregationsAreSafe
    DEF BodyIsSafe
  <2>4. /\ \A j \in DOMAIN c.bind : c.bind[j][1] \in Columns(c.rel) /\ ~ Repeated(c.bind, j)
        /\ \A v \in VarNames(c.bind) : Searched(c.body, v) \/ IsTarget(c.body, v)
    BY <2>2, HeadsAreSafe
  <2>5. {c.bind[j][1] : j \in DOMAIN c.bind} = Columns(c.rel)
    BY <2>2, <2>4, ColumnsAreFilled
  <2>6. relations[c.rel].source = "Idb"
    BY <2>2, OutputHead
  <2> QED
    BY <1>1, <1>3, <2>3, <2>4, <2>5, <2>6 DEF ClauseIsSafe
<1> QED
  BY <1>2, <1>3

\* Relations are only added.
Extended ==
  \A r \in DOMAIN relations : r \in DOMAIN relations' /\ relations'[r] = relations[r]

\* A declared relation keeps its columns.
LEMMA ColumnsStay ==
  ASSUME NEW r, r \in DOMAIN relations, Extended
  PROVE  Columns(r)' = Columns(r)
BY DEF Extended, Columns

\* What a body with declared searches binds stays bound.
LEMMA SearchedStays ==
  ASSUME NEW body, NEW v, Extended,
         \A i \in DOMAIN body.search : body.search[i].rel \in DOMAIN relations
  PROVE  Searched(body, v)' = Searched(body, v)
<1>1. ASSUME NEW i \in DOMAIN body.search, NEW j
      PROVE  InsertsAt(body, v, i, j)' = InsertsAt(body, v, i, j)
  BY ColumnsStay DEF InsertsAt
<1>2. Binders(body, v)' = Binders(body, v)
  BY <1>1 DEF Binders
<1> QED
  BY <1>2 DEF Searched

\* A safe clause stays safe.
LEMMA StaysSafe ==
  ASSUME NEW c, ClauseIsSafe(c), Extended
  PROVE  ClauseIsSafe(c)'
<1>1. /\ c.rel \in (DOMAIN relations)' /\ relations'[c.rel].source = "Idb"
      /\ Columns(c.rel)' = Columns(c.rel)
  BY ColumnsStay DEF ClauseIsSafe, Extended
<1>2. ASSUME c.op = "rule"
      PROVE  /\ BodyIsSafe(c.body)'
             /\ \A v \in VarNames(c.bind) : Searched(c.body, v)' \/ IsTarget(c.body, v)
  <2>1. BodyIsSafe(c.body)
    BY <1>2 DEF ClauseIsSafe
  <2>2. \A v : Searched(c.body, v)' = Searched(c.body, v)
    BY <2>1, SearchedStays DEF BodyIsSafe
  <2>3. BodyIsSafe(c.body)'
    BY <2>1, <2>2 DEF BodyIsSafe, Extended
  <2> QED
    BY <1>2, <2>2, <2>3 DEF ClauseIsSafe
<1> QED
  BY <1>1, <1>2 DEF ClauseIsSafe

\* The clauses that every closure leaves are safe, whatever calls it makes and
\* in whatever order (logic/builder: every finalize).
THEOREM BuilderSafe == Spec => []ClausesAreSafe
<1>1. Init => ClausesAreSafe
  BY DEF Init, ClausesAreSafe
<1>2. ClausesAreSafe /\ [Next]_bvars => ClausesAreSafe'
  <2> SUFFICES ASSUME ClausesAreSafe, [Next]_bvars PROVE ClausesAreSafe'
    OBVIOUS
  <2>1. ASSUME UNCHANGED <<relations, clauses>> PROVE ClausesAreSafe'
    <3>1. Extended
      BY <2>1 DEF Extended
    <3> QED BY <2>1, <3>1, StaysSafe DEF ClausesAreSafe
  <2>2. CASE Finish
    BY <2>1, <2>2 DEF Finish
  <2>3. CASE UNCHANGED bvars
    BY <2>1, <2>3 DEF bvars
  <2>4. ASSUME NEW c \in Calls, Call(c) PROVE ClausesAreSafe'
    <3>1. CASE DoDeclare(c)
      <4>1. DeclareComplaints(c) = {}
        BY <3>1 DEF DoDeclare, Complaints
      <4>2. c.rel \notin DOMAIN relations
        BY <4>1 DEF DeclareComplaints
      <4>3. Extended
        BY <3>1, <4>2 DEF DoDeclare, Extended
      <4> QED
        BY <3>1, <4>3, StaysSafe DEF DoDeclare, ClausesAreSafe
    <3>2. CASE DoClause(c)
      <4>1. Extended
        BY <3>2 DEF DoClause, Extended
      <4>2. ClauseIsSafe(c)
        BY <3>2, AcceptedIsSafe DEF DoClause
      <4>3. ClauseIsSafe(c)'
        BY <4>1, <4>2, StaysSafe
      <4> QED
        BY <3>2, <4>1, <4>3, StaysSafe DEF DoClause, ClausesAreSafe
    <3>3. CASE Reject(c)
      BY <2>1, <3>3 DEF Reject
    <3> QED
      BY <2>4, <3>1, <3>2, <3>3 DEF Call
  <2> QED
    BY <2>2, <2>3, <2>4 DEF Next
<1> QED
  BY <1>1, <1>2, PTL DEF Spec

\* Every relation is an input or an output, the preamble stays declared, and
\* only facts and rules are handed to stratify, whatever calls are made.
THEOREM BuilderTyped == Spec => []TypeOK
<1>1. Init => TypeOK
  BY DEF Init, TypeOK, Preamble
<1>2. TypeOK /\ [Next]_bvars => TypeOK'
  <2> SUFFICES ASSUME TypeOK, [Next]_bvars PROVE TypeOK'
    OBVIOUS
  <2>1. ASSUME UNCHANGED <<relations, clauses>> PROVE TypeOK'
    BY <2>1 DEF TypeOK
  <2>2. CASE Finish
    BY <2>1, <2>2 DEF Finish
  <2>3. CASE UNCHANGED bvars
    BY <2>1, <2>3 DEF bvars
  <2>4. ASSUME NEW c \in Calls, Call(c) PROVE TypeOK'
    <3>1. CASE DoDeclare(c)
      <4>1. c.source \in {"Edb", "Idb"}
        BY <3>1, CallsAssumption DEF DoDeclare
      <4>2. Declaration(c).source \in {"Edb", "Idb"}
        BY <4>1 DEF Declaration
      <4> QED
        BY <3>1, <4>2 DEF DoDeclare, TypeOK
    <3>2. CASE DoClause(c)
      BY <3>2 DEF DoClause, TypeOK
    <3>3. CASE Reject(c)
      BY <2>1, <3>3 DEF Reject
    <3> QED
      BY <2>4, <3>1, <3>2, <3>3 DEF Call
  <2> QED
    BY <2>2, <2>3, <2>4 DEF Next
<1> QED
  BY <1>1, <1>2, PTL DEF Spec

-----------------------------------------------------------------------------
(* The AST of the clauses.                                                  *)

\* The values of an atom are the names of its bindings and of its content
\* address, ...
LEMMA AstAtomParts ==
  ASSUME NEW r, NEW bind, IsBind(bind), NEW cid
  PROVE  LET a == AstAtom(r, bind, cid)
         IN  /\ a = Atom(a.rel, a.args) /\ a.rel = r /\ IsFiniteSet(DOMAIN a.args)
             /\ \A c \in DOMAIN a.args :
                  \/ \E j \in DOMAIN bind : a.args[c] = bind[j][2].name
                  \/ \E v \in cid : a.args[c] = v.name
<1> DEFINE cols == {bind[j][1] : j \in DOMAIN bind}
           more == IF cid = {} THEN {} ELSE {"cid"}
           At(c) == CHOOSE j \in DOMAIN bind : bind[j][1] = c
           f == [c \in cols \cup more |->
                   IF c = "cid" /\ cid # {} THEN (CHOOSE v \in cid : TRUE).name ELSE bind[At(c)][2].name]
           a == AstAtom(r, bind, cid)
<1>1. a = Atom(r, f)
  BY DEF AstAtom
<1>2. a.rel = r /\ a.args = f /\ DOMAIN f = cols \cup more
  BY <1>1 DEF Atom
<1>3. IsFiniteSet(cols)
  <2> DEFINE g == [j \in DOMAIN bind |-> bind[j][1]]
  <2>1. g \in Surjection(DOMAIN bind, cols)
    BY DEF Surjection
  <2>2. IsFiniteSet(DOMAIN bind)
    BY SeqParts, FS_Interval DEF IsBind
  <2> HIDE DEF g, cols
  <2> QED
    BY <2>1, <2>2, FS_Surjection
<1>4. IsFiniteSet(more)
  BY FS_Singleton, FS_EmptySet
<1>5. IsFiniteSet(cols \cup more)
  <2> HIDE DEF cols, more
  <2> QED
    BY <1>3, <1>4, FS_Union
<1>6. ASSUME NEW c \in cols \cup more
      PROVE  (\E j \in DOMAIN bind : f[c] = bind[j][2].name) \/ (\E v \in cid : f[c] = v.name)
  <2>1. CASE c = "cid" /\ cid # {}
    BY <2>1
  <2>2. CASE ~ (c = "cid" /\ cid # {})
    <3>1. \E j \in DOMAIN bind : bind[j][1] = c
      BY <1>6, <2>2
    <3>2. At(c) \in DOMAIN bind
      BY <3>1
    <3>3. f[c] = bind[At(c)][2].name
      BY <1>6, <2>2
    <3> QED
      BY <3>2, <3>3
  <2> QED
    BY <2>1, <2>2
<1> HIDE DEF f, a, cols, more
<1>7. a = Atom(a.rel, a.args) /\ a.rel = r /\ IsFiniteSet(DOMAIN a.args)
  BY <1>1, <1>2, <1>5
<1>8. \A c \in DOMAIN a.args :
        (\E j \in DOMAIN bind : a.args[c] = bind[j][2].name) \/ (\E v \in cid : a.args[c] = v.name)
  BY <1>2, <1>6
<1> QED
  BY <1>7, <1>8 DEF a

\* ... each of which is there, if no column is bound twice.
NoneTwice(bind) == \A j \in DOMAIN bind : ~ Repeated(bind, j)
AtMostOne(cid) == \A v, w \in cid : v = w
HasAll(a, bind, cid) ==
  /\ \A j \in DOMAIN bind : \E c \in DOMAIN a.args : a.args[c] = bind[j][2].name
  /\ \A v \in cid : \E c \in DOMAIN a.args : a.args[c] = v.name

\* (they are)
LEMMA AstAtomHas ==
  ASSUME NEW r, NEW bind, IsBind(bind), NEW cid, AtMostOne(cid), NoneTwice(bind)
  PROVE  HasAll(AstAtom(r, bind, cid), bind, cid)
<1> DEFINE cols == {bind[j][1] : j \in DOMAIN bind}
           more == IF cid = {} THEN {} ELSE {"cid"}
           At(c) == CHOOSE j \in DOMAIN bind : bind[j][1] = c
           f == [c \in cols \cup more |->
                   IF c = "cid" /\ cid # {} THEN (CHOOSE v \in cid : TRUE).name ELSE bind[At(c)][2].name]
           a == AstAtom(r, bind, cid)
<1>1. a.args = f /\ DOMAIN f = cols \cup more
  BY DEF AstAtom, Atom
<1>2. ASSUME NEW j \in DOMAIN bind PROVE \E c \in DOMAIN f : f[c] = bind[j][2].name
  <2> DEFINE c == bind[j][1]
  <2>1. c \in cols /\ c # "cid"
    BY DEF IsBind
  <2>2. \A k \in DOMAIN bind : bind[k][1] = c => k = j
    <3>1. DOMAIN bind = 1..Len(bind) /\ Len(bind) \in Nat
      BY SeqParts DEF IsBind
    <3> SUFFICES ASSUME NEW k \in DOMAIN bind, bind[k][1] = c, k # j PROVE FALSE
      OBVIOUS
    <3>2. CASE k < j
      <4>1. k \in 1..(j - 1)
        BY <3>1, <3>2
      <4> QED
        BY <4>1 DEF NoneTwice, Repeated
    <3>3. CASE j < k
      <4>1. j \in 1..(k - 1)
        BY <3>1, <3>3
      <4> QED
        BY <4>1 DEF NoneTwice, Repeated
    <3> QED
      BY <3>1, <3>2, <3>3
  <2>3. At(c) = j
    BY <2>2
  <2>4. f[c] = bind[At(c)][2].name
    BY <2>1
  <2> QED
    BY <1>1, <2>1, <2>3, <2>4
<1>3. ASSUME NEW v \in cid PROVE \E c \in DOMAIN f : f[c] = v.name
  <2>1. (CHOOSE w \in cid : TRUE) = v
    BY DEF AtMostOne
  <2>2. "cid" \in DOMAIN f /\ f["cid"] = (CHOOSE w \in cid : TRUE).name
    BY <1>1
  <2> QED
    BY <2>1, <2>2
<1> HIDE DEF f, a
<1> QED
  BY <1>1, <1>2, <1>3 DEF HasAll, a

\* The variables of a rule are named like those it is built from.
LEMMA AstVars ==
  ASSUME NEW c
  PROVE  DOMAIN AstRule(c).vars = {v.name : v \in TypedVars(c)}
BY DEF AstRule

\* What the values of a rule are.
LEMMA ColValsParts ==
  ASSUME NEW c
  PROVE  /\ \A bind \in BindsOf(c) : \A j \in DOMAIN bind : bind[j][2] \in ColValsOf(c)
         /\ \A a \in ToSet(c.body.search) : a.cid \subseteq ColValsOf(c)
         /\ \A g \in ToSet(c.body.groups) : g.target \in ColValsOf(c)
<1> DEFINE V(bind) == {bind[j][2] : j \in DOMAIN bind}
           A == UNION {{s[j][2] : j \in DOMAIN s} : s \in BindsOf(c)}
           B == UNION {a.cid : a \in ToSet(c.body.search)}
           C == {g.target : g \in ToSet(c.body.groups)}
<1>1. ColValsOf(c) = A \cup B \cup C
  BY DEF ColValsOf
<1>2. \A bind \in BindsOf(c) : V(bind) \subseteq A
  <2> SUFFICES ASSUME NEW bind \in BindsOf(c), NEW j \in DOMAIN bind PROVE bind[j][2] \in A
    OBVIOUS
  <2>1. V(bind) \in {{s[k][2] : k \in DOMAIN s} : s \in BindsOf(c)}
    OBVIOUS
  <2>2. bind[j][2] \in V(bind)
    OBVIOUS
  <2> HIDE DEF V
  <2> QED
    BY <2>1, <2>2
<1>3. \A bind : \A j \in DOMAIN bind : bind[j][2] \in V(bind)
  OBVIOUS
<1>4. \A a \in ToSet(c.body.search) : a.cid \subseteq B
  OBVIOUS
<1>5. \A g \in ToSet(c.body.groups) : g.target \in C
  OBVIOUS
<1> HIDE DEF V, A, B, C
<1> QED
  BY <1>1, <1>2, <1>3, <1>4, <1>5

\* A variable of an atom is one of its bindings'.
LEMMA NamesOfVars ==
  ASSUME NEW c, IsCall(c), c.op = "rule", NEW r, NEW bind \in BindsOf(c)
  PROVE  VarsOf(AstRule(c), AstAtom(r, bind, {})) \subseteq VarNames(bind)
<1> DEFINE a == AstAtom(r, bind, {})
<1> SUFFICES ASSUME NEW w \in VarsOf(AstRule(c), a) PROVE w \in VarNames(bind)
  OBVIOUS
<1>1. IsBind(bind)
  BY DEF IsCall
<1>2. PICK col \in DOMAIN a.args : w = a.args[col]
  BY DEF VarsOf
<1>3. PICK j \in DOMAIN bind : w = bind[j][2].name
  BY <1>1, <1>2, AstAtomParts
<1>4. PICK v \in TypedVars(c) : v.name = w
  <2>1. w \in DOMAIN AstRule(c).vars
    BY DEF VarsOf
  <2> QED
    BY <2>1, AstVars
<1>5. bind[j][2] \in ColValsOf(c)
  BY ColValsParts
<1>6. bind[j][2].kind = "var"
  BY <1>3, <1>4, <1>5 DEF IsCall
<1> QED
  BY <1>3, <1>6 DEF VarNames

\* No search binds a column twice.
Unrepeated(body) ==
  \A i \in DOMAIN body.search : NoneTwice(body.search[i].bind)

\* What a body searches is a variable of the rule's relational predicates.
LEMMA SearchedIs ==
  ASSUME NEW c, IsCall(c), c.op = "rule", Unrepeated(c.body), NEW v, Searched(c.body, v)
  PROVE  v \in SearchedVars(AstRule(c))
<1> DEFINE rule == AstRule(c)
<1>1. PICK p \in Binders(c.body, v) : TRUE
  BY DEF Searched
<1>2. PICK i \in DOMAIN c.body.search : p \in {i} \X (0..Len(c.body.search[i].bind))
  BY DEF Binders
<1> DEFINE s == c.body.search[i]
           a == AstAtom(s.rel, s.bind, s.cid)
<1>3. InsertsAt(c.body, v, i, p[2]) /\ p[2] \in 0..Len(s.bind)
  BY <1>1, <1>2 DEF Binders
<1>4. s \in ToSet(c.body.search) /\ s.bind \in BindsOf(c)
  BY DEF ToSet, BindsOf
<1>5. IsBind(s.bind) /\ \A x, y \in s.cid : x = y
  BY <1>4 DEF IsCall
<1>6. /\ NoneTwice(s.bind) /\ AtMostOne(s.cid)
      /\ \A j \in DOMAIN s.bind : s.bind[j][2] \in ColValsOf(c)
      /\ s.cid \subseteq ColValsOf(c)
  <2>1. NoneTwice(s.bind)
    BY DEF Unrepeated
  <2> HIDE DEF s
  <2>2. AtMostOne(s.cid)
    BY <1>5 DEF AtMostOne
  <2> QED
    BY <1>4, <2>1, <2>2, ColValsParts
<1>7. HasAll(a, s.bind, s.cid)
  <2> HIDE DEF s
  <2> QED
    BY <1>5, <1>6, AstAtomHas
<1> HIDE DEF a
<1>8. \E w \in TypedVars(c) : w.name = v /\ \E col \in DOMAIN a.args : a.args[col] = w.name
  <2>1. CASE p[2] = 0
    <3>1. PICK w \in s.cid : w.kind = "var" /\ w.name = v
      BY <1>3, <2>1 DEF InsertsAt
    <3>2. w \in TypedVars(c)
      BY <1>6, <3>1 DEF TypedVars
    <3> QED
      BY <1>7, <3>1, <3>2 DEF HasAll
  <2>2. CASE p[2] # 0
    <3> DEFINE j == p[2]
               w == s.bind[j][2]
    <3>1. j \in DOMAIN s.bind
      <4>1. DOMAIN s.bind = 1..Len(s.bind) /\ Len(s.bind) \in Nat
        BY <1>5, SeqParts DEF IsBind
      <4> QED
        BY <1>3, <2>2, <4>1
    <3>2. w.kind = "var" /\ w.name = v
      BY <1>3, <2>2 DEF InsertsAt
    <3>3. w \in TypedVars(c)
      BY <1>6, <3>1, <3>2 DEF TypedVars
    <3> QED
      BY <1>7, <3>1, <3>2, <3>3 DEF HasAll
  <2> QED
    BY <2>1, <2>2
<1>9. v \in DOMAIN rule.vars
  BY <1>8, AstVars
<1>10. i \in DOMAIN rule.pos /\ rule.pos[i] = a
  BY DEF AstRule, a
<1>11. v \in VarsOf(rule, a)
  BY <1>8, <1>9 DEF VarsOf
<1> QED
  BY <1>10, <1>11 DEF SearchedVars

-----------------------------------------------------------------------------
(* An accepted rule is proper and safe.                                     *)

\* The values of an atom without a content address are those of its bindings,
\* so a variable of it is searched if the variables bound are.
LEMMA VarsAreSearched ==
  ASSUME NEW c, IsCall(c), c.op = "rule", Unrepeated(c.body), NEW r, NEW bind \in BindsOf(c),
         \A v \in VarNames(bind) : Searched(c.body, v)
  PROVE  VarsOf(AstRule(c), AstAtom(r, bind, {})) \subseteq SearchedVars(AstRule(c))
BY NamesOfVars, SearchedIs

\* What is aggregated into is a target of the rule.
LEMMA TargetIs ==
  ASSUME NEW c, NEW v, IsTarget(c.body, v)
  PROVE  v \in Targets(AstRule(c))
<1>1. PICK n \in DOMAIN c.body.groups : TargetOf(c.body, n) = v
  BY DEF IsTarget
<1> DEFINE rule == AstRule(c)
<1>2. n \in DOMAIN rule.aggs /\ rule.aggs[n].target = v
  BY <1>1 DEF AstRule
<1> QED
  BY <1>2 DEF Targets

\* A safe clause gives a safe rule.
LEMMA RuleIsSafe ==
  ASSUME NEW c, IsCall(c), c.op = "rule", Unrepeated(c.body), ClauseIsSafe(c)
  PROVE  SafeRule(AstRule(c))
<1> DEFINE rule == AstRule(c)
           B == c.body
<1>1. BodyIsSafe(B) /\ \A v \in VarNames(c.bind) : Searched(B, v) \/ IsTarget(B, v)
  BY DEF ClauseIsSafe
<1>2. ASSUME NEW p \in ToSet(rule.preds) PROVE ToSet(p.vars) \subseteq SearchedVars(rule)
  <2>1. rule.preds = B.preds
    BY DEF AstRule
  <2>2. PICK i \in DOMAIN B.preds : p = B.preds[i]
    BY <2>1 DEF ToSet
  <2>3. \A k \in DOMAIN p.vars : Searched(B, p.vars[k])
    BY <1>1, <2>2 DEF BodyIsSafe
  <2>4. \A k \in DOMAIN p.vars : p.vars[k] \in SearchedVars(rule)
    BY <2>3, SearchedIs
  <2> QED
    BY <2>4 DEF ToSet
<1>3. ASSUME NEW a \in ToSet(rule.neg) PROVE VarsOf(rule, a) \subseteq SearchedVars(rule)
  <2>1. PICK i \in DOMAIN B.except : a = AstAtom(B.except[i].rel, B.except[i].bind, {})
    BY DEF AstRule, ToSet
  <2>2. B.except[i].bind \in BindsOf(c)
    BY DEF BindsOf, ToSet
  <2>3. \A v \in VarNames(B.except[i].bind) : Searched(B, v)
    BY <1>1 DEF BodyIsSafe
  <2> QED
    BY <2>1, <2>2, <2>3, VarsAreSearched
<1>4. VarsOf(rule, rule.head) \subseteq BoundVars(rule)
  <2>1. rule.head = AstAtom(c.rel, c.bind, {}) /\ c.bind \in BindsOf(c)
    BY DEF AstRule, BindsOf
  <2>2. VarsOf(rule, rule.head) \subseteq VarNames(c.bind)
    BY <2>1, NamesOfVars
  <2>3. \A v \in VarNames(c.bind) : v \in SearchedVars(rule) \/ v \in Targets(rule)
    BY <1>1, SearchedIs, TargetIs
  <2> QED
    BY <2>2, <2>3 DEF BoundVars
<1> QED
  BY <1>2, <1>3, <1>4 DEF SafeRule

\* An atom of the AST is an atom.
LEMMA AstIsAtom ==
  ASSUME NEW r, NEW bind, IsBind(bind), NEW cid, NEW D, r \in D
  PROVE  IsAtom(AstAtom(r, bind, cid), D)
<1> DEFINE a == AstAtom(r, bind, cid)
<1>1. a = Atom(a.rel, a.args) /\ a.rel = r /\ IsFiniteSet(DOMAIN a.args)
  BY AstAtomParts
<1> HIDE DEF a
<1>2. IsAtom(a, D)
  BY <1>1 DEF IsAtom
<1> QED
  BY <1>2 DEF a

\* A safe clause gives a rule that is about declared relations.
LEMMA RuleIsProper ==
  ASSUME NEW c, IsCall(c), c.op = "rule", ClauseIsSafe(c)
  PROVE  ProperRule(AstRule(c), DOMAIN relations, Declared("Idb"))
<1> DEFINE rule == AstRule(c)
           B == c.body
<1>1. BodyIsSafe(B) /\ c.rel \in Declared("Idb")
  BY DEF ClauseIsSafe, Declared
<1>2. /\ IsSeq(B.search) /\ IsSeq(B.preds) /\ IsSeq(B.except) /\ IsSeq(B.groups)
      /\ \A bind \in BindsOf(c) : IsBind(bind)
      /\ \A p \in ToSet(B.preds) : IsSeq(p.vars)
      /\ \A g \in ToSet(B.groups) : IsSeq(g.vars)
  BY DEF IsCall
<1>3. ASSUME NEW r, NEW bind \in BindsOf(c), NEW cid, NEW D, r \in D
      PROVE  IsAtom(AstAtom(r, bind, cid), D)
  BY <1>2, <1>3, AstIsAtom
<1>4. IsSeq(rule.pos) /\ \A a \in ToSet(rule.pos) : IsAtom(a, DOMAIN relations)
  <2> DEFINE f == [i \in DOMAIN B.search |-> AstAtom(B.search[i].rel, B.search[i].bind, B.search[i].cid)]
  <2>1. rule.pos = f
    BY DEF AstRule
  <2>2. IsSeq(f)
    <3>1. f = [i \in DOMAIN B.search |-> f[i]]
      OBVIOUS
    <3> HIDE DEF f
    <3> QED
      BY <1>2, <3>1, SeqMap
  <2>3. ASSUME NEW i \in DOMAIN B.search PROVE IsAtom(f[i], DOMAIN relations)
    <3>1. B.search[i].bind \in BindsOf(c) /\ B.search[i].rel \in DOMAIN relations
      BY <1>1 DEF BindsOf, ToSet, BodyIsSafe
    <3> QED
      BY <1>3, <3>1
  <2>4. \A a \in ToSet(f) : \E i \in DOMAIN B.search : a = f[i]
    BY DEF ToSet
  <2> QED
    BY <2>1, <2>2, <2>3, <2>4
<1>5. IsSeq(rule.neg) /\ \A a \in ToSet(rule.neg) : IsAtom(a, DOMAIN relations)
  <2> DEFINE f == [i \in DOMAIN B.except |-> AstAtom(B.except[i].rel, B.except[i].bind, {})]
  <2>1. rule.neg = f
    BY DEF AstRule
  <2>2. IsSeq(f)
    <3>1. f = [i \in DOMAIN B.except |-> f[i]]
      OBVIOUS
    <3> HIDE DEF f
    <3> QED
      BY <1>2, <3>1, SeqMap
  <2>3. ASSUME NEW i \in DOMAIN B.except PROVE IsAtom(f[i], DOMAIN relations)
    <3>1. B.except[i].bind \in BindsOf(c) /\ B.except[i].rel \in DOMAIN relations
      BY <1>1 DEF BindsOf, ToSet, BodyIsSafe
    <3> QED
      BY <1>3, <3>1
  <2>4. \A a \in ToSet(f) : \E i \in DOMAIN B.except : a = f[i]
    BY DEF ToSet
  <2> QED
    BY <2>1, <2>2, <2>3, <2>4
<1>6. IsSeq(rule.aggs) /\ \A g \in ToSet(rule.aggs) : IsSeq(g.vars) /\ IsAtom(g.atom, DOMAIN relations)
  <2> DEFINE f == [i \in DOMAIN B.groups |->
                     [target |-> TargetOf(B, i),
                      atom   |-> AstAtom(B.groups[i].rel, B.groups[i].bind, {}),
                      fn     |-> B.groups[i].fn,
                      vars   |-> B.groups[i].vars]]
  <2>1. rule.aggs = f
    BY DEF AstRule
  <2>2. IsSeq(f)
    <3>1. f = [i \in DOMAIN B.groups |-> f[i]]
      OBVIOUS
    <3> HIDE DEF f
    <3> QED
      BY <1>2, <3>1, SeqMap
  <2>3. ASSUME NEW i \in DOMAIN B.groups
        PROVE  IsSeq(f[i].vars) /\ IsAtom(f[i].atom, DOMAIN relations)
    <3>1. /\ B.groups[i].bind \in BindsOf(c) /\ B.groups[i].rel \in DOMAIN relations
          /\ B.groups[i] \in ToSet(B.groups)
      BY <1>1 DEF BindsOf, ToSet, BodyIsSafe
    <3>2. /\ f[i].vars = B.groups[i].vars
          /\ f[i].atom = AstAtom(B.groups[i].rel, B.groups[i].bind, {})
      OBVIOUS
    <3> HIDE DEF f
    <3> QED
      BY <1>2, <1>3, <3>1, <3>2
  <2>4. \A g \in ToSet(f) : \E i \in DOMAIN B.groups : g = f[i]
    BY DEF ToSet
  <2> HIDE DEF f
  <2> QED
    BY <2>1, <2>2, <2>3, <2>4
<1>7. IsAtom(rule.head, Declared("Idb"))
  <2>1. rule.head = AstAtom(c.rel, c.bind, {}) /\ c.bind \in BindsOf(c)
    BY DEF AstRule, BindsOf
  <2> QED
    BY <1>1, <1>3, <2>1
<1>8. IsSeq(rule.preds) /\ \A p \in ToSet(rule.preds) : IsSeq(p.vars)
  BY <1>2 DEF AstRule
<1>9. \A a \in ToSet(rule.pos) \cup ToSet(rule.neg) : IsAtom(a, DOMAIN relations)
  BY <1>4, <1>5
<1> HIDE DEF rule
<1> QED
  BY <1>4, <1>5, <1>6, <1>7, <1>8, <1>9 DEF ProperRule, rule

\* The lowering of a rule is total: what LoweringIsTotal says of it.
RuleIsLowered(rule) ==
  \A versions \in ToSet(SemiNaiveRewrites(rule)) :
    LET order == OrderTerms(rule, versions)
    IN  /\ ~ Stuck(rule, versions)
        /\ VarsOf(rule, rule.head) \subseteq BoundBefore(rule, order, Len(order) + 1)
        /\ \A i \in DOMAIN order : order[i].kind \in {"pred", "neg"} =>
             TermVars(rule, order[i]) \subseteq BoundBefore(rule, order, i)

\* It is, for every proper and safe rule.
LEMMA SafeIsLowered ==
  ASSUME NEW rule, NEW D, NEW O, ProperRule(rule, D, O), SafeRule(rule)
  PROVE  RuleIsLowered(rule)
<1> SUFFICES ASSUME NEW versions \in ToSet(SemiNaiveRewrites(rule))
             PROVE  LET order == OrderTerms(rule, versions)
                    IN  /\ ~ Stuck(rule, versions)
                        /\ VarsOf(rule, rule.head) \subseteq BoundBefore(rule, order, Len(order) + 1)
                        /\ \A i \in DOMAIN order : order[i].kind \in {"pred", "neg"} =>
                             TermVars(rule, order[i]) \subseteq BoundBefore(rule, order, i)
  BY DEF RuleIsLowered
<1> DEFINE order == OrderTerms(rule, versions)
<1>1. IsRewrite(rule, versions)
  <2>1. IsSeq(rule.pos)
    BY DEF ProperRule
  <2> QED
    BY <2>1, RewriteParts
<1>2. /\ ~ Stuck(rule, versions)
      /\ \A i \in DOMAIN order : order[i].kind \in {"pred", "neg"} =>
            TermVars(rule, order[i]) \subseteq BoundBefore(rule, order, i)
  BY <1>1, SafeOrder
<1>3. BoundVars(rule) \subseteq BoundBefore(rule, order, Len(order) + 1)
  BY <1>1, SafeBinds
<1>4. VarsOf(rule, rule.head) \subseteq BoundVars(rule)
  BY DEF SafeRule
<1> HIDE DEF order
<1>5. VarsOf(rule, rule.head) \subseteq BoundBefore(rule, order, Len(order) + 1)
  BY <1>3, <1>4
<1> QED
  BY <1>2, <1>5 DEF order

-----------------------------------------------------------------------------
(* An accepted rule binds no column twice and is typed.                     *)

\* Searches without complaints bind no column twice.
LEMMA SearchesUnrepeated ==
  ASSUME NEW body, SearchComplaints(body) = {}
  PROVE  Unrepeated(body)
<1> SUFFICES ASSUME NEW i \in DOMAIN body.search, NEW j \in DOMAIN body.search[i].bind
             PROVE  ~ Repeated(body.search[i].bind, j)
  BY DEF Unrepeated, NoneTwice
<1> DEFINE s == body.search[i]
<1>1. SearchComplaintsAt(body, i) = {}
  BY DEF SearchComplaints
<1>2. ColumnComplaints(1, i, s.rel, s.bind) = {}
  BY <1>1 DEF SearchComplaintsAt
<1>3. ColumnError(s.rel, s.bind, j, {s.bind[j][2].type}) = <<>>
  BY <1>2 DEF ColumnComplaints
<1> QED
  BY <1>3, ColumnFits

\* A set of positions has a last one.
LEMMA LastOf ==
  ASSUME NEW n \in Nat, NEW S \in SUBSET (0..n), S # {}
  PROVE  \E i \in S : \A j \in S : j <= i
<1> DEFINE p == [i \in 1..(n + 1) |-> <<i, 0>>]
           R == {i \in 1..(n + 1) : i - 1 \in S}
<1>1. \A i \in 1..(n + 1) : p[i][1] = i /\ p[i][2] = 0
  OBVIOUS
<1>2. R \in SUBSET (1..(n + 1)) /\ n + 1 \in Nat
  OBVIOUS
<1>3. R # {}
  <2>1. PICK k \in S : TRUE
    OBVIOUS
  <2>2. k + 1 \in 1..(n + 1) /\ (k + 1) - 1 = k
    OBVIOUS
  <2> QED
    BY <2>1, <2>2
<1> HIDE DEF p
<1>4. \A i \in R : p[i][1] \in Int /\ p[i][2] \in Int
  BY <1>1
<1>5. PICK i \in R : \A j \in R : AtLeast(p[i], p[j]) /\ (AtLeast(p[j], p[i]) => j <= i)
  <2> HIDE DEF R
  <2> QED
    BY <1>2, <1>3, <1>4, Highest
<1>6. ASSUME NEW j \in S PROVE j <= i - 1
  <2>1. j + 1 \in R
    <3>1. j + 1 \in 1..(n + 1) /\ (j + 1) - 1 = j
      OBVIOUS
    <3> QED
      BY <3>1
  <2>2. i > j + 1 \/ i = j + 1
    BY <1>1, <1>5, <2>1 DEF AtLeast
  <2> QED
    BY <2>1, <2>2
<1> QED
  BY <1>5, <1>6

\* What overwrites the entry of a variable last.
IsLast(body, v, p) ==
  /\ p \in Binders(body, v)
  /\ \A q \in Binders(body, v) : q[1] < p[1] \/ (q[1] = p[1] /\ q[2] <= p[2])

\* Something does.
LEMMA LastBinder ==
  ASSUME NEW body, IsSeq(body.search), \A i \in DOMAIN body.search : IsSeq(body.search[i].bind),
         NEW v, Searched(body, v)
  PROVE  \E p : IsLast(body, v, p)
<1> DEFINE B == Binders(body, v)
           I == {p[1] : p \in B}
           n == Len(body.search)
<1>1. n \in Nat /\ DOMAIN body.search = 1..n
  BY SeqParts
<1>2. ASSUME NEW p \in B
      PROVE  /\ p[1] \in 1..n /\ p[2] \in 0..Len(body.search[p[1]].bind)
             /\ Len(body.search[p[1]].bind) \in Nat
  <2>1. PICK i \in DOMAIN body.search : p \in {i} \X (0..Len(body.search[i].bind))
    BY DEF Binders
  <2>2. Len(body.search[i].bind) \in Nat
    BY SeqParts
  <2> QED
    BY <1>1, <2>1, <2>2
<1>3. B # {}
  BY DEF Searched
<1> HIDE DEF B, n
<1>4. PICK i \in I : \A k \in I : k <= i
  <2>1. I \in SUBSET (0..n) /\ I # {}
    BY <1>1, <1>2, <1>3
  <2> HIDE DEF I
  <2> QED
    BY <1>1, <2>1, LastOf
<1> DEFINE J == {p[2] : p \in {q \in B : q[1] = i}}
           m == Len(body.search[i].bind)
<1>5. PICK j \in J : \A k \in J : k <= j
  <2>1. J \in SUBSET (0..m) /\ J # {} /\ m \in Nat
    BY <1>2
  <2> HIDE DEF J, m
  <2> QED
    BY <2>1, LastOf
<1>6. PICK p \in B : p[1] = i /\ p[2] = j
  OBVIOUS
<1>7. ASSUME NEW q \in B PROVE q[1] < p[1] \/ (q[1] = p[1] /\ q[2] <= p[2])
  <2>1. q[1] \in I /\ q[1] <= i
    BY <1>4
  <2>2. q[1] \in 1..n /\ p[1] \in 1..n
    BY <1>2
  <2>3. q[1] = i => q[2] <= j
    BY <1>5
  <2> QED
    BY <1>1, <1>6, <2>1, <2>2, <2>3
<1> QED
  BY <1>6, <1>7 DEF IsLast, B

\* The type of a variable that is found in columns of one type is that type,
\* whatever it was declared with.
LEMMA FoundIsBound ==
  ASSUME NEW body, IsSeq(body.search), \A i \in DOMAIN body.search : IsSeq(body.search[i].bind),
         NEW v, NEW t, t # "Any", FoundTypes(body, v) = {t}
  PROVE  Searched(body, v) /\ SearchedType(body, v) = t
<1>1. Searched(body, v)
  BY DEF FoundTypes, Searched
<1> DEFINE last == CHOOSE p \in Binders(body, v) : \A q \in Binders(body, v) :
                     q[1] < p[1] \/ (q[1] = p[1] /\ q[2] <= p[2])
           b == body.search[last[1]].bind[last[2]]
<1>2. last \in Binders(body, v)
  <2>1. \E p : IsLast(body, v, p)
    BY <1>1, LastBinder
  <2> QED
    BY <2>1 DEF IsLast
<1>3. SearchedType(body, v) = IF last[2] = 0 THEN "Cid"
                              ELSE Unify(ColumnType(body.search[last[1]].rel, b), b[2].type)
  BY DEF SearchedType
<1>4. ASSUME NEW p \in Binders(body, v)
      PROVE  t = IF p[2] = 0 THEN "Cid"
                 ELSE ColumnType(body.search[p[1]].rel, body.search[p[1]].bind[p[2]])
  BY DEF FoundTypes
<1> HIDE DEF last
<1>5. t = IF last[2] = 0 THEN "Cid" ELSE ColumnType(body.search[last[1]].rel, b)
  BY <1>2, <1>4
<1> QED
  BY <1>1, <1>3, <1>5 DEF Unify

\* Fewer types are compatible if more are.
LEMMA FewerTypes ==
  ASSUME NEW S, IsFiniteSet(S), NEW T \in SUBSET S, Compatible(S)
  PROVE  Compatible(T)
<1>1. IsFiniteSet(S \ {"Any"})
  BY FS_RemoveElement
<1>2. T \ {"Any"} \in SUBSET (S \ {"Any"})
  OBVIOUS
<1>3. /\ Cardinality(T \ {"Any"}) <= Cardinality(S \ {"Any"})
      /\ IsFiniteSet(T \ {"Any"})
  BY <1>1, <1>2, FS_Subset
<1>4. Cardinality(T \ {"Any"}) \in Nat /\ Cardinality(S \ {"Any"}) \in Nat
  BY <1>1, <1>3, FS_CardinalityType
<1>5. Cardinality(S \ {"Any"}) <= 1
  BY DEF Compatible
<1>6. \A m, n \in Nat : m <= n /\ n <= 1 => m <= 1
  OBVIOUS
<1>7. Cardinality(T \ {"Any"}) <= 1
  BY <1>3, <1>4, <1>5, <1>6
<1> QED
  BY <1>7 DEF Compatible

\* The types that a head's variable must agree on are finitely many.
LEMMA HeadTypesFinite ==
  ASSUME NEW r, NEW head, IsSeq(head), NEW body, NEW j \in DOMAIN head
  PROVE  IsFiniteSet(HeadTypes(r, head, body, j))
<1> DEFINE v == head[j][2]
           earlier == {i \in 1..(j - 1) : /\ head[i][2].kind = "var" /\ head[i][2].name = v.name
                                          /\ head[i][1] \in Columns(r)}
           D == {head[i][2].type : i \in earlier}
           E == {ColumnType(r, head[i]) : i \in earlier}
           own == [i \in earlier |-> head[i][2].type]
           col == [i \in earlier |-> ColumnType(r, head[i])]
<1>1. j \in Int
  BY SeqParts
<1>2. IsFiniteSet(earlier)
  <2>1. IsFiniteSet(1..(j - 1))
    BY <1>1, FS_Interval
  <2>2. earlier \in SUBSET (1..(j - 1))
    OBVIOUS
  <2> HIDE DEF earlier
  <2> QED
    BY <2>1, <2>2, FS_Subset
<1>3. IsFiniteSet(D) /\ IsFiniteSet(E)
  <2> HIDE DEF earlier
  <2>1. own \in Surjection(earlier, D) /\ col \in Surjection(earlier, E)
    BY DEF Surjection
  <2> HIDE DEF own, col, D, E
  <2> QED
    BY <1>2, <2>1, FS_Surjection
<1>4. HeadTypes(r, head, body, j)
        = (({v.type} \cup {BoundType(body, v.name)}) \cup D) \cup E
  BY DEF HeadTypes
<1>5. IsFiniteSet({v.type} \cup {BoundType(body, v.name)})
  BY FS_Singleton, FS_Union
<1> HIDE DEF D, E
<1> QED
  BY <1>3, <1>4, <1>5, FS_Union

\* A binding without an error is of a value that goes with its column.
LEMMA ColumnAgrees ==
  ASSUME NEW r, NEW bind, NEW j, NEW types, ColumnError(r, bind, j, types) = <<>>
  PROVE  Compatible(types \cup {ColumnType(r, bind[j])})
BY DEF ColumnError

\* The head of a rule without complaints is typed.
LEMMA AcceptedIsTyped ==
  ASSUME NEW c, IsCall(c), c.op = "rule", ClauseIsSafe(c),
         HeadComplaints(c.rel, c.bind, c.body) = {}
  PROVE  HeadIsTyped(c)
<1> SUFFICES ASSUME NEW j \in DOMAIN c.bind, c.bind[j][2].kind = "var",
                    NEW t, t # "Any", FoundTypes(c.body, c.bind[j][2].name) = {t}
             PROVE  Compatible({t} \cup {ColumnType(c.rel, c.bind[j])})
  BY DEF HeadIsTyped
<1> DEFINE B == c.body
           v == c.bind[j][2]
           H == HeadTypes(c.rel, c.bind, B, j)
           C == ColumnType(c.rel, c.bind[j])
<1>1. IsSeq(B.search) /\ \A i \in DOMAIN B.search : IsSeq(B.search[i].bind)
  <2>1. \A i \in DOMAIN B.search : B.search[i].bind \in BindsOf(c)
    BY DEF BindsOf, ToSet
  <2> QED
    BY <2>1 DEF IsCall, IsBind
<1>2. IsSeq(c.bind)
  BY DEF IsCall, IsBind
<1>3. Searched(B, v.name) /\ SearchedType(B, v.name) = t
  BY <1>1, FoundIsBound
<1>4. ~ IsTarget(B, v.name)
  <2>1. \A i \in DOMAIN B.groups : ~ Searched(B, TargetOf(B, i))
    BY DEF ClauseIsSafe, BodyIsSafe
  <2> QED
    BY <1>3, <2>1 DEF IsTarget
<1>5. t \in H
  BY <1>3, <1>4 DEF HeadTypes, BoundType
<1>6. HeadError(c.rel, c.bind, B, j) = <<>>
  BY DEF HeadComplaints
<1>7. ColumnError(c.rel, c.bind, j, H) = <<>>
  BY <1>3, <1>6 DEF HeadError
<1>8. IsFiniteSet(H)
  BY <1>2, HeadTypesFinite
<1> HIDE DEF H, C
<1>9. Compatible(H \cup {C})
  BY <1>7, ColumnAgrees DEF C
<1>10. IsFiniteSet(H \cup {C})
  BY <1>8, FS_AddElement
<1>11. {t} \cup {C} \in SUBSET (H \cup {C})
  BY <1>5
<1>12. Compatible({t} \cup {C})
  BY <1>9, <1>10, <1>11, FewerTypes
<1> QED
  BY <1>12 DEF C

\* It stays typed, whatever is declared later.
LEMMA StaysTyped ==
  ASSUME NEW c, c.op = "rule", ClauseIsSafe(c), HeadIsTyped(c), Extended
  PROVE  HeadIsTyped(c)'
<1> DEFINE B == c.body
<1>1. /\ c.rel \in DOMAIN relations
      /\ \A i \in DOMAIN B.search : B.search[i].rel \in DOMAIN relations
  BY DEF ClauseIsSafe, BodyIsSafe
<1>2. ASSUME NEW v PROVE Binders(B, v)' = Binders(B, v)
  <2>1. ASSUME NEW i \in DOMAIN B.search, NEW k
        PROVE  InsertsAt(B, v, i, k)' = InsertsAt(B, v, i, k)
    BY <1>1, ColumnsStay DEF InsertsAt
  <2> QED
    BY <2>1 DEF Binders
<1>3. ASSUME NEW r \in DOMAIN relations, NEW b PROVE ColumnType(r, b)' = ColumnType(r, b)
  BY DEF Extended, ColumnType
<1>4. ASSUME NEW v, NEW p \in Binders(B, v) PROVE B.search[p[1]].rel \in DOMAIN relations
  BY <1>1 DEF Binders
<1>5. ASSUME NEW v PROVE FoundTypes(B, v)' = FoundTypes(B, v)
  BY <1>2, <1>3, <1>4 DEF FoundTypes
<1>6. \A j \in DOMAIN c.bind : ColumnType(c.rel, c.bind[j])' = ColumnType(c.rel, c.bind[j])
  BY <1>1, <1>3
<1> QED
  BY <1>5, <1>6 DEF HeadIsTyped, Compatible

-----------------------------------------------------------------------------
(* What the program of the builder guarantees to the rest.                  *)

\* The clauses are calls that were accepted, over finitely many relations; the
\* searches of a rule bind no column twice, and its head is typed.
FitsOf(c) == c.op = "rule" => Unrepeated(c.body) /\ HeadIsTyped(c)
ClausesFit ==
  /\ IsFiniteSet(DOMAIN relations)
  /\ clauses \in Seq(Calls)
  /\ \A c \in ToSet(clauses) : FitsOf(c)

\* A clause that fits keeps fitting.
LEMMA StaysFit ==
  ASSUME NEW c, ClauseIsSafe(c), FitsOf(c), Extended
  PROVE  FitsOf(c)'
<1>1. ASSUME c.op = "rule" PROVE HeadIsTyped(c)'
  <2>1. HeadIsTyped(c)
    BY <1>1 DEF FitsOf
  <2> QED
    BY <1>1, <2>1, StaysTyped
<1> QED
  BY <1>1 DEF FitsOf, Unrepeated

\* An accepted rule fits.
LEMMA AcceptedFits ==
  ASSUME NEW c \in Calls, c.op \in {"fact", "rule"}, Complaints(c) = {}
  PROVE  FitsOf(c)
<1> SUFFICES ASSUME c.op = "rule" PROVE Unrepeated(c.body) /\ HeadIsTyped(c)
  BY DEF FitsOf
<1>1. IsCall(c) /\ ClauseIsSafe(c)
  BY ClausesAssumption, AcceptedIsSafe
<1>2. c.rel \in DOMAIN relations
  BY <1>1 DEF ClauseIsSafe
<1>3. RuleComplaints(c) = {}
  BY <1>2 DEF Complaints
<1>4. SearchComplaints(c.body) = {} /\ HeadComplaints(c.rel, c.bind, c.body) = {}
  BY <1>3 DEF RuleComplaints
<1> QED
  BY <1>1, <1>4, SearchesUnrepeated, AcceptedIsTyped

\* The clauses keep fitting.
LEMMA AllStayFit ==
  ASSUME ClausesFit, ClausesAreSafe, Extended
  PROVE  \A x \in ToSet(clauses) : FitsOf(x)'
<1>1. \A x \in ToSet(clauses) : ClauseIsSafe(x) /\ FitsOf(x)
  BY DEF ClausesFit, ClausesAreSafe, ToSet
<1> QED
  BY <1>1, StaysFit

\* A call keeps the invariant.
LEMMA CallFits ==
  ASSUME ClausesFit, ClausesAreSafe, NEW c \in Calls, DoDeclare(c) \/ DoClause(c)
  PROVE  ClausesFit'
<1>1. CASE DoDeclare(c)
  <2>1. c.rel \notin DOMAIN relations
    <3>1. DeclareComplaints(c) = {}
      BY <1>1 DEF DoDeclare, Complaints
    <3> QED
      BY <3>1 DEF DeclareComplaints
  <2>2. Extended
    BY <1>1, <2>1 DEF DoDeclare, Extended
  <2>3. DOMAIN relations' = DOMAIN relations \cup {c.rel} /\ clauses' = clauses
    BY <1>1 DEF DoDeclare
  <2>4. IsFiniteSet(DOMAIN relations')
    <3>1. IsFiniteSet(DOMAIN relations)
      BY DEF ClausesFit
    <3> QED
      BY <2>3, <3>1, FS_AddElement
  <2>5. \A x \in ToSet(clauses) : FitsOf(x)'
    BY <2>2, AllStayFit
  <2> QED
    BY <2>3, <2>4, <2>5 DEF ClausesFit
<1>2. CASE DoClause(c)
  <2>1. clauses' = Append(clauses, c) /\ relations' = relations
    BY <1>2 DEF DoClause
  <2>2. Extended
    BY <2>1 DEF Extended
  <2>3. FitsOf(c)'
    <3>1. ClauseIsSafe(c) /\ FitsOf(c)
      BY <1>2, AcceptedFits, AcceptedIsSafe DEF DoClause
    <3> QED
      BY <2>2, <3>1, StaysFit
  <2>4. \A x \in ToSet(clauses) : FitsOf(x)'
    BY <2>2, AllStayFit
  <2>5. clauses \in Seq(Calls)
    BY DEF ClausesFit
  <2>6. clauses' \in Seq(Calls)
    BY <2>1, <2>5
  <2>7. ToSet(clauses') = ToSet(clauses) \cup {c}
    BY <2>1, <2>5, ToSetAppend
  <2>8. \A x \in ToSet(clauses') : FitsOf(x)'
    BY <2>3, <2>4, <2>7
  <2>9. IsFiniteSet(DOMAIN relations')
    BY <2>1 DEF ClausesFit
  <2> QED
    BY <2>6, <2>8, <2>9 DEF ClausesFit
<1> QED
  BY <1>1, <1>2

\* Every closure's clauses fit.
LEMMA BuilderFits == Spec => []ClausesFit
<1>1. Init => ClausesFit
  <2> SUFFICES ASSUME Init PROVE ClausesFit
    OBVIOUS
  <2>1. DOMAIN relations = {"evac", "links"} /\ clauses = <<>>
    BY DEF Init, Preamble
  <2>2. IsFiniteSet({"evac"} \cup {"links"})
    BY FS_Singleton, FS_Union
  <2>3. {"evac"} \cup {"links"} = {"evac", "links"}
    OBVIOUS
  <2>4. IsFiniteSet(DOMAIN relations)
    BY <2>1, <2>2, <2>3
  <2>5. clauses \in Seq(Calls) /\ ToSet(clauses) = {}
    BY <2>1, ToSetEmpty
  <2> QED
    BY <2>4, <2>5 DEF ClausesFit
<1>2. ClausesFit /\ ClausesAreSafe /\ [Next]_bvars => ClausesFit'
  <2> SUFFICES ASSUME ClausesFit, ClausesAreSafe, [Next]_bvars PROVE ClausesFit'
    OBVIOUS
  <2>1. ASSUME relations' = relations, clauses' = clauses PROVE ClausesFit'
    <3>1. Extended
      BY <2>1 DEF Extended
    <3>2. \A x \in ToSet(clauses) : FitsOf(x)'
      BY <3>1, AllStayFit
    <3> QED
      BY <2>1, <3>2 DEF ClausesFit
  <2>2. CASE Finish
    BY <2>1, <2>2 DEF Finish
  <2>3. CASE UNCHANGED bvars
    BY <2>1, <2>3 DEF bvars
  <2>4. ASSUME NEW c \in Calls, Call(c) PROVE ClausesFit'
    <3>1. CASE DoDeclare(c) \/ DoClause(c)
      BY <3>1, CallFits
    <3>2. CASE Reject(c)
      BY <2>1, <3>2 DEF Reject
    <3> QED
      BY <2>4, <3>1, <3>2 DEF Call
  <2> QED
    BY <2>2, <2>3, <2>4 DEF Next
<1> QED
  BY <1>1, <1>2, BuilderSafe, PTL DEF Spec

\* The rules among the clauses.
RuleClauses == {clauses[n] : n \in {m \in DOMAIN clauses : clauses[m].op = "rule"}}

\* They are proper and safe, and typed.
LEMMA RulesAre ==
  ASSUME ClausesFit, ClausesAreSafe, NEW c \in RuleClauses
  PROVE  /\ ProperRule(AstRule(c), DOMAIN relations, Declared("Idb"))
         /\ SafeRule(AstRule(c))
         /\ HeadIsTyped(c)
<1>1. PICK n \in DOMAIN clauses : c = clauses[n] /\ c.op = "rule"
  BY DEF RuleClauses
<1>2. c \in Calls
  <2>1. clauses \in Seq(Calls)
    BY DEF ClausesFit
  <2> QED
    BY <1>1, <2>1
<1>3. IsCall(c) /\ ClauseIsSafe(c) /\ Unrepeated(c.body) /\ HeadIsTyped(c)
  <2>1. c \in ToSet(clauses)
    BY <1>1 DEF ToSet
  <2>2. FitsOf(c) /\ ClauseIsSafe(c)
    BY <1>1, <2>1 DEF ClausesFit, ClausesAreSafe
  <2> QED
    BY <1>1, <1>2, <2>2, ClausesAssumption DEF FitsOf
<1> QED
  BY <1>1, <1>3, RuleIsProper, RuleIsSafe

\* The rule accepted last is one of them.
LEMMA AcceptedRules == ASSUME ClausesFit PROVE Accepted \subseteq RuleClauses
<1> SUFFICES ASSUME NEW c \in Accepted PROVE c \in RuleClauses
  OBVIOUS
<1>1. c = clauses[Len(clauses)] /\ Len(clauses) > 0 /\ c.op = "rule"
  BY DEF Accepted
<1>2. clauses \in Seq(Calls)
  BY DEF ClausesFit
<1>3. Len(clauses) \in DOMAIN clauses
  BY <1>1, <1>2
<1> QED
  BY <1>1, <1>3 DEF RuleClauses

\* The terms of every rewrite of every accepted rule are placed, each formula
\* after the searches that bind its variables, and the head's variables are
\* bound at the end: order_terms never panics and lower_rule_body_to_ram finds
\* every binding, for all calls (lower_to_ram.rs).
THEOREM BuilderLowers == Spec => []LoweringIsTotal
<1>1. ClausesFit /\ ClausesAreSafe => LoweringIsTotal
  <2> SUFFICES ASSUME ClausesFit, ClausesAreSafe PROVE LoweringIsTotal
    OBVIOUS
  <2>1. ASSUME NEW c \in Accepted PROVE RuleIsLowered(AstRule(c))
    BY AcceptedRules, RulesAre, SafeIsLowered
  <2> QED
    BY <2>1 DEF LoweringIsTotal, RuleIsLowered
<1> QED
  BY <1>1, BuilderSafe, BuilderFits, PTL

\* A variable found in columns of one type is projected into columns of that
\* type only, for all calls (rule_head.rs).
THEOREM BuilderTypes == Spec => []HeadsAreTyped
<1>1. ClausesFit /\ ClausesAreSafe => HeadsAreTyped
  BY AcceptedRules, RulesAre DEF HeadsAreTyped
<1> QED
  BY <1>1, BuilderSafe, BuilderFits, PTL

\* The clauses of one kind.
LEMMA OfKindParts ==
  ASSUME ClausesFit, NEW op
  PROVE  /\ OfKind(op) \in Seq(Calls)
         /\ ToSet(OfKind(op)) \subseteq {c \in ToSet(clauses) : c.op = op}
<1> DEFINE W == {c \in ToSet(clauses) : c.op = op}
<1>1. clauses \in Seq(Calls)
  BY DEF ClausesFit
<1> HIDE DEF W
<1>2. Keep(clauses, W) \in Seq(Calls \cap W)
  BY <1>1, KeepType
<1>3. ToSet(Keep(clauses, W)) = ToSet(clauses) \cap W
  BY <1>1, KeepRange
<1>4. OfKind(op) = Keep(clauses, W)
  BY DEF OfKind, W
<1>5. Keep(clauses, W) \in Seq(Calls)
  BY <1>2
<1>6. W = {c \in ToSet(clauses) : c.op = op}
  BY DEF W
<1> QED
  BY <1>3, <1>4, <1>5, <1>6

\* What the closure leaves at any time is a program that stratify and the
\* lowering can do with, for all calls (program.rs, finalize).
THEOREM BuilderProgram == Spec => []ProgramIsSafe
<1>1. TypeOK /\ ClausesFit /\ ClausesAreSafe => ProgramIsSafe
  <2> SUFFICES ASSUME TypeOK, ClausesFit, ClausesAreSafe PROVE ProgramIsSafe
    OBVIOUS
  <2> DEFINE rules == OfKind("rule")
             f == [i \in DOMAIN rules |-> AstRule(rules[i])]
             facts == OfKind("fact")
             F == {AstAtom(c.rel, c.bind, {}) : c \in ToSet(facts)}
  <2>1. /\ Program.edb = Declared("Edb") /\ Program.idb = Declared("Idb")
        /\ Program.facts = F /\ Program.rules = f
    BY DEF Program
  <2>2. /\ Declared("Edb") \cup Declared("Idb") = DOMAIN relations
        /\ Declared("Edb") \cap Declared("Idb") = {}
    BY DEF Declared, TypeOK
  <2>3. IsFiniteSet(DOMAIN relations)
    BY DEF ClausesFit
  <2>4. /\ rules \in Seq(Calls) /\ facts \in Seq(Calls)
        /\ ToSet(rules) \subseteq {c \in ToSet(clauses) : c.op = "rule"}
        /\ ToSet(facts) \subseteq {c \in ToSet(clauses) : c.op = "fact"}
    BY OfKindParts
  <2>5. IsFiniteSet(F)
    <3> DEFINE g == [c \in ToSet(facts) |-> AstAtom(c.rel, c.bind, {})]
    <3>1. g \in Surjection(ToSet(facts), F)
      BY DEF Surjection
    <3>2. IsFiniteSet(ToSet(facts))
      BY <2>4, ToSetFinite
    <3> HIDE DEF g, F, facts
    <3> QED
      BY <3>1, <3>2, FS_Surjection
  <2>6. ASSUME NEW a \in F PROVE a.rel \in Declared("Idb")
    <3>1. PICK c \in ToSet(facts) : a = AstAtom(c.rel, c.bind, {})
      OBVIOUS
    <3>2. PICK n \in DOMAIN clauses : c = clauses[n]
      BY <2>4 DEF ToSet
    <3>3. c.rel \in Declared("Idb")
      BY <3>2 DEF ClausesAreSafe, ClauseIsSafe, Declared
    <3>4. a.rel = c.rel
      BY <3>1 DEF AstAtom, Atom
    <3> QED
      BY <3>3, <3>4
  <2>7. IsSeq(f)
    <3>1. IsSeq(rules)
      <4>1. rules \in Seq(ToSet(rules))
        <5> HIDE DEF rules
        <5>1. rules \in [1..Len(rules) -> ToSet(rules)] /\ Len(rules) \in Nat
          BY <2>4 DEF ToSet
        <5> QED
          BY <5>1
      <4> QED
        BY <4>1 DEF IsSeq
    <3>2. f = [i \in DOMAIN rules |-> f[i]]
      OBVIOUS
    <3> HIDE DEF f, rules
    <3> QED
      BY <3>1, <3>2, SeqMap
  <2>8. ASSUME NEW r \in ToSet(f)
        PROVE  ProperRule(r, DOMAIN relations, Declared("Idb")) /\ SafeRule(r)
    <3>1. PICK i \in DOMAIN rules : r = AstRule(rules[i])
      BY DEF ToSet
    <3>2. rules[i] \in ToSet(clauses) /\ rules[i].op = "rule"
      BY <2>4 DEF ToSet
    <3>3. rules[i] \in RuleClauses
      BY <3>2 DEF RuleClauses, ToSet
    <3> QED
      BY <3>1, <3>3, RulesAre
  <2> HIDE DEF f, F, rules, facts
  <2>9. Proper(Program)
    BY <2>1, <2>2, <2>3, <2>5, <2>6, <2>7, <2>8 DEF Proper
  <2> QED
    BY <2>1, <2>8, <2>9 DEF ProgramIsSafe
<1> QED
  BY <1>1, BuilderTyped, BuilderSafe, BuilderFits, PTL
=============================================================================
