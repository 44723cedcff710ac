--------------------------- MODULE Lowering_proofs ---------------------------
(***************************************************************************)
(* Theorems about the lowering and about the machine that runs its output,  *)
(* for every program the builder accepts and every order of its strata.     *)
(***************************************************************************)
EXTENDS Evaluation, VM_proofs, Rules_proofs

-----------------------------------------------------------------------------
(* Sequences of sequences.                                                  *)

\* SetToSeq has every element of a finite set.
LEMMA SetToSeqIs ==
  ASSUME NEW S, IsFiniteSet(S)
  PROVE  IsSeq(SetToSeq(S)) /\ ToSet(SetToSeq(S)) = S
<1> DEFINE n == Cardinality(S)
<1>1. n \in Nat /\ ExistsBijection(1..n, S)
  BY FS_CardinalityType
<1>2. \E f \in [1..n -> S] : IsInjective(f)
  <2>1. PICK f : f \in Bijection(1..n, S)
    BY <1>1 DEF ExistsBijection
  <2>2. f \in [1..n -> S] /\ IsInjective(f)
    BY <2>1 DEF Bijection, Injection, Surjection
  <2> QED
    BY <2>2
<1> DEFINE q == SetToSeq(S)
<1>3. q \in [1..n -> S] /\ IsInjective(q)
  BY <1>2 DEF SetToSeq
<1> HIDE DEF q
<1>4. \A i, j \in 1..n : i # j => q[i] # q[j]
  BY <1>3 DEF IsInjective
<1>5. q \in SetToSeqs(S)
  BY <1>3, <1>4 DEF SetToSeqs
<1>6. q \in Seq(S) /\ ToSet(q) = S
  BY <1>5, OrdersOf
<1> QED
  BY <1>6 DEF q, IsSeq

\* FlattenSeq appends one sequence after the other.
Flattens(f, seqs, n) ==
  f = [i \in 1..n |-> IF i = 1 THEN seqs[i] ELSE f[i - 1] \o seqs[i]]

\* That recursion has a solution for every number of sequences.
LEMMA FlattensExists ==
  ASSUME NEW seqs, NEW n \in Nat
  PROVE  \E f : Flattens(f, seqs, n)
<1> DEFINE N == {k \in Nat : \E f : Flattens(f, seqs, k)}
<1>1. 0 \in N
  <2>1. Flattens([i \in 1..0 |-> <<>>], seqs, 0)
    BY DEF Flattens
  <2> QED
    BY <2>1
<1>2. ASSUME NEW k \in Nat, k \in N PROVE k + 1 \in N
  <2>1. PICK f : Flattens(f, seqs, k)
    BY <1>2
  <2> DEFINE g == [i \in 1..(k + 1) |->
                     IF i <= k THEN f[i]
                     ELSE IF i = 1 THEN seqs[i] ELSE f[i - 1] \o seqs[i]]
  <2>2. ASSUME NEW i \in 1..(k + 1)
        PROVE g[i] = IF i = 1 THEN seqs[i] ELSE g[i - 1] \o seqs[i]
    <3>1. i # 1 => i - 1 \in 1..k /\ g[i - 1] = f[i - 1]
      OBVIOUS
    <3>2. CASE i <= k
      <4>1. g[i] = f[i] /\ i \in 1..k
        BY <3>2
      <4> QED
        BY <2>1, <3>1, <4>1 DEF Flattens
    <3>3. CASE ~ (i <= k)
      BY <3>1, <3>3
    <3> QED
      BY <3>2, <3>3
  <2>3. Flattens(g, seqs, k + 1)
    BY <2>2 DEF Flattens
  <2> QED
    BY <2>3
<1>3. Nat \subseteq N
  <2> HIDE DEF N
  <2> QED
    BY <1>1, <1>2, NatSet
<1> QED
  BY <1>3

\* What holds of the first sequence, and of those up to the next one when it
\* holds of those before, holds of all of them.
LEMMA FlattenStages ==
  ASSUME NEW seqs, IsSeq(seqs), Len(seqs) # 0,
         NEW P, seqs[1] \in P[1],
         \A k \in 1..Len(seqs) : \A p \in P[k] :
           k + 1 <= Len(seqs) => p \o seqs[k + 1] \in P[k + 1]
  PROVE  FlattenSeq(seqs) \in P[Len(seqs)]
<1> DEFINE n == Len(seqs)
           f == CHOOSE f : Flattens(f, seqs, n)
<1>1. n \in Nat
  BY SeqParts
<1>2. Flattens(f, seqs, n)
  BY <1>1, FlattensExists
<1>3. FlattenSeq(seqs) = f[n]
  BY DEF FlattenSeq, Flattens
<1> HIDE DEF f
<1> DEFINE N == {k \in Nat : k + 1 <= n => f[k + 1] \in P[k + 1]}
<1>4. 0 \in N
  BY <1>1, <1>2 DEF Flattens
<1>5. ASSUME NEW k \in Nat, k \in N PROVE k + 1 \in N
  <2> SUFFICES ASSUME (k + 1) + 1 <= n PROVE f[(k + 1) + 1] \in P[(k + 1) + 1]
    OBVIOUS
  <2> DEFINE m == k + 1
  <2>1. m + 1 \in 1..n /\ m \in 1..n /\ m + 1 # 1 /\ (m + 1) - 1 = m /\ f[m] \in P[m]
    BY <1>1, <1>5
  <2> HIDE DEF m
  <2>2. f[m + 1] = f[m] \o seqs[m + 1]
    BY <1>2, <2>1 DEF Flattens
  <2>3. f[m] \o seqs[m + 1] \in P[m + 1]
    BY <2>1
  <2> QED
    BY <2>2, <2>3 DEF m
<1>6. Nat \subseteq N
  <2> HIDE DEF N
  <2> QED
    BY <1>4, <1>5, NatSet
<1>7. n - 1 \in Nat /\ (n - 1) + 1 = n
  BY <1>1
<1>8. n - 1 \in N
  BY <1>6, <1>7
<1> QED
  BY <1>1, <1>3, <1>7, <1>8

\* What holds of nothing, and of whatever it holds of with one of the sequences
\* appended, holds of all of them appended.
LEMMA FlattenInduction ==
  ASSUME NEW seqs, IsSeq(seqs),
         NEW P, <<>> \in P, \A i \in 1..Len(seqs) : seqs[i] \in P,
         \A p \in P : \A i \in 1..Len(seqs) : p \o seqs[i] \in P
  PROVE  FlattenSeq(seqs) \in P
<1>1. Len(seqs) \in Nat
  BY SeqParts
<1>2. CASE Len(seqs) = 0
  <2>1. seqs = <<>>
    BY <1>2 DEF IsSeq
  <2> QED
    BY <1>2, <2>1 DEF FlattenSeq
<1>3. CASE Len(seqs) # 0
  <2> DEFINE Q == [k \in 1..Len(seqs) |-> P]
  <2>1. seqs[1] \in Q[1]
    BY <1>1, <1>3
  <2>2. ASSUME NEW k \in 1..Len(seqs), NEW p \in Q[k], k + 1 <= Len(seqs)
        PROVE  p \o seqs[k + 1] \in Q[k + 1]
    <3>1. p \in P /\ k + 1 \in 1..Len(seqs)
      BY <1>1, <2>2
    <3> QED
      BY <3>1
  <2>3. Len(seqs) \in 1..Len(seqs)
    BY <1>1, <1>3
  <2>4. FlattenSeq(seqs) \in Q[Len(seqs)]
    <3> HIDE DEF Q
    <3> QED
      BY <1>3, <2>1, <2>2, FlattenStages
  <2> QED
    BY <2>3, <2>4
<1> QED
  BY <1>2, <1>3

\* The elements of the sequences are the elements of the whole.
LEMMA FlattenRange ==
  ASSUME NEW seqs, IsSeq(seqs), \A i \in 1..Len(seqs) : IsSeq(seqs[i])
  PROVE  /\ IsSeq(FlattenSeq(seqs))
         /\ \A x \in ToSet(FlattenSeq(seqs)) : \E i \in 1..Len(seqs) : x \in ToSet(seqs[i])
         /\ \A i \in 1..Len(seqs) : ToSet(seqs[i]) \subseteq ToSet(FlattenSeq(seqs))
<1> DEFINE U == UNION {ToSet(seqs[i]) : i \in 1..Len(seqs)}
           P == [k \in 1..Len(seqs) |->
                   {p \in Seq(U) : IsSeq(p) /\ \A i \in 1..k : ToSet(seqs[i]) \subseteq ToSet(p)}]
<1>1. Len(seqs) \in Nat
  BY SeqParts
<1>2. \A i \in 1..Len(seqs) : seqs[i] \in Seq(U)
  <2> SUFFICES ASSUME NEW i \in 1..Len(seqs) PROVE seqs[i] \in Seq(U)
    OBVIOUS
  <2>1. ToSet(seqs[i]) \subseteq U
    OBVIOUS
  <2>2. seqs[i] \in Seq(ToSet(seqs[i]))
    BY DEF IsSeq
  <2> HIDE DEF U
  <2> QED
    BY <2>1, <2>2
<1>3. CASE Len(seqs) = 0
  <2>1. seqs = <<>>
    BY <1>3 DEF IsSeq
  <2>2. FlattenSeq(seqs) = <<>>
    BY <1>3, <2>1 DEF FlattenSeq
  <2> QED
    BY <1>3, <2>2, SeqEmpty, ToSetEmpty
<1>4. CASE Len(seqs) # 0
  <2>1. seqs[1] \in P[1]
    <3>1. 1 \in 1..Len(seqs) /\ \A i \in 1..1 : i = 1
      BY <1>1, <1>4
    <3> HIDE DEF U
    <3> QED
      BY <1>2, <3>1
  <2>2. ASSUME NEW k \in 1..Len(seqs), NEW p \in P[k], k + 1 <= Len(seqs)
        PROVE  p \o seqs[k + 1] \in P[k + 1]
    <3> DEFINE q == seqs[k + 1]
    <3>1. /\ k + 1 \in 1..Len(seqs) /\ q \in Seq(U) /\ IsSeq(q)
          /\ p \in Seq(U) /\ IsSeq(p) /\ \A i \in 1..k : ToSet(seqs[i]) \subseteq ToSet(p)
      BY <1>1, <1>2, <2>2
    <3> HIDE DEF q, U
    <3>2. p \o q \in Seq(U)
      BY <3>1
    <3>3. IsSeq(p \o q) /\ ToSet(p \o q) = ToSet(p) \cup ToSet(q)
      BY <3>1, SeqConcat
    <3>4. \A i \in 1..(k + 1) : ToSet(seqs[i]) \subseteq ToSet(p \o q)
      <4> SUFFICES ASSUME NEW i \in 1..(k + 1) PROVE ToSet(seqs[i]) \subseteq ToSet(p \o q)
        OBVIOUS
      <4>1. i \in 1..k \/ i = k + 1
        OBVIOUS
      <4> QED
        BY <3>1, <3>3, <4>1 DEF q
    <3> QED
      BY <3>1, <3>2, <3>3, <3>4 DEF q
  <2>3. Len(seqs) \in 1..Len(seqs)
    BY <1>1, <1>4
  <2>4. FlattenSeq(seqs) \in P[Len(seqs)]
    <3> HIDE DEF P
    <3> QED
      BY <1>4, <2>1, <2>2, FlattenStages
  <2>5. /\ FlattenSeq(seqs) \in Seq(U) /\ IsSeq(FlattenSeq(seqs))
        /\ \A i \in 1..Len(seqs) : ToSet(seqs[i]) \subseteq ToSet(FlattenSeq(seqs))
    BY <2>3, <2>4
  <2>6. ToSet(FlattenSeq(seqs)) \subseteq U
    <3> DEFINE w == FlattenSeq(seqs)
    <3>1. w \in Seq(U)
      BY <2>5
    <3> HIDE DEF w, U
    <3> QED
      BY <3>1 DEF ToSet, w
  <2> QED
    BY <2>5, <2>6
<1> QED
  BY <1>3, <1>4

-----------------------------------------------------------------------------
(* The strata.                                                              *)

\* What one step along the edges leads to is an output: every clause is about
\* one.
LEMMA DependencyTo ==
  ASSUME NEW source, Proper(source), NEW d \in Dependencies(source)
  PROVE  d.to \in source.idb
<1>1. PICK r \in ToSet(source.rules) :
        d \in {[from |-> a.rel, to |-> r.head.rel, positive |-> TRUE] : a \in ToSet(r.pos)}
              \cup {[from |-> a.rel, to |-> r.head.rel, positive |-> FALSE] :
                       a \in ToSet(r.neg) \cup {g.atom : g \in ToSet(r.aggs)}}
  BY DEF Dependencies
<1>2. d.to = r.head.rel
  BY <1>1
<1>3. r.head.rel \in source.idb
  BY DEF Proper, ProperRule, IsAtom
<1> QED
  BY <1>2, <1>3

\* The nodes of the graph are outputs.
LEMMA NodesAreOutputs ==
  ASSUME NEW source, Proper(source)
  PROVE  IdbNodes(source) \subseteq source.idb /\ IsFiniteSet(IdbNodes(source))
<1>1. {f.rel : f \in source.facts} \subseteq source.idb
  BY DEF Proper
<1>2. {r.head.rel : r \in ToSet(source.rules)} \subseteq source.idb
  BY DEF Proper, ProperRule, IsAtom
<1>3. IdbNodes(source) \subseteq source.idb
  BY <1>1, <1>2 DEF IdbNodes
<1>4. IsFiniteSet(source.edb \cup source.idb) /\ IdbNodes(source) \in SUBSET (source.edb \cup source.idb)
  BY <1>3 DEF Proper
<1> QED
  BY <1>3, <1>4, FS_Subset

Onward(source, S) == {d.to : d \in {e \in Dependencies(source) : e.from \in S}}

Reaches(f, source, r, n) ==
  f = [k \in 0..n |-> IF k = 0 THEN Onward(source, {r})
                      ELSE f[k - 1] \cup Onward(source, f[k - 1])]

\* The recursion in Reachable has a solution.
LEMMA ReachesExists ==
  ASSUME NEW source, NEW r, NEW n \in Nat
  PROVE  \E f : Reaches(f, source, r, n)
<1> DEFINE N == {k \in Nat : \E f : Reaches(f, source, r, k)}
<1>1. 0 \in N
  <2>1. Reaches([i \in 0..0 |-> Onward(source, {r})], source, r, 0)
    BY DEF Reaches
  <2> QED
    BY <2>1
<1>2. ASSUME NEW k \in Nat, k \in N PROVE k + 1 \in N
  <2>1. PICK f : Reaches(f, source, r, k)
    BY <1>2
  <2> DEFINE g == [i \in 0..(k + 1) |->
                     IF i <= k THEN f[i] ELSE f[i - 1] \cup Onward(source, f[i - 1])]
  <2>2. ASSUME NEW i \in 0..(k + 1)
        PROVE g[i] = IF i = 0 THEN Onward(source, {r})
                     ELSE g[i - 1] \cup Onward(source, g[i - 1])
    <3>1. i # 0 => i - 1 \in 0..k /\ g[i - 1] = f[i - 1]
      OBVIOUS
    <3>2. CASE i <= k
      <4>1. g[i] = f[i] /\ i \in 0..k
        BY <3>2
      <4> QED
        BY <2>1, <3>1, <4>1 DEF Reaches
    <3>3. CASE ~ (i <= k)
      BY <3>1, <3>3
    <3> QED
      BY <3>2, <3>3
  <2>3. Reaches(g, source, r, k + 1)
    BY <2>2 DEF Reaches
  <2> QED
    BY <2>3
<1>3. Nat \subseteq N
  <2> HIDE DEF N
  <2> QED
    BY <1>1, <1>2, NatSet
<1> QED
  BY <1>3

\* Only outputs are reachable.
LEMMA ReachableOutputs ==
  ASSUME NEW source, Proper(source), NEW r
  PROVE  Reachable(source, r) \subseteq source.idb
<1> DEFINE n == Cardinality(IdbNodes(source))
           f == CHOOSE f : Reaches(f, source, r, n)
<1>1. n \in Nat
  BY NodesAreOutputs, FS_CardinalityType
<1>2. Reaches(f, source, r, n)
  BY <1>1, ReachesExists
<1>3. Reachable(source, r) = f[n]
  BY DEF Reachable, Reaches, Onward
<1> HIDE DEF f
<1>4. \A S : Onward(source, S) \subseteq source.idb
  BY DependencyTo DEF Onward
<1> DEFINE N == {k \in Nat : k <= n => f[k] \subseteq source.idb}
<1>5. 0 \in N
  BY <1>1, <1>2, <1>4 DEF Reaches
<1>6. ASSUME NEW k \in Nat, k \in N PROVE k + 1 \in N
  <2> SUFFICES ASSUME k + 1 <= n PROVE f[k + 1] \subseteq source.idb
    OBVIOUS
  <2>1. k + 1 \in 0..n /\ k + 1 # 0 /\ (k + 1) - 1 = k /\ f[k] \subseteq source.idb
    BY <1>1, <1>6
  <2>2. f[k + 1] = f[k] \cup Onward(source, f[k])
    BY <1>2, <2>1 DEF Reaches
  <2> QED
    BY <1>4, <2>1, <2>2
<1>7. Nat \subseteq N
  <2> HIDE DEF N
  <2> QED
    BY <1>5, <1>6, NatSet
<1>8. n \in N
  BY <1>1, <1>7
<1> QED
  BY <1>3, <1>8

\* A component is a finite set of outputs.
LEMMA ComponentOutputs ==
  ASSUME NEW source, Proper(source), NEW c \in Components(source)
  PROVE  c \subseteq source.idb /\ IsFiniteSet(c)
<1>1. PICK r \in IdbNodes(source) : c = Component(source, r)
  BY DEF Components
<1>2. c \subseteq source.idb
  BY <1>1, NodesAreOutputs, ReachableOutputs DEF Component
<1>3. IsFiniteSet(source.edb \cup source.idb) /\ c \in SUBSET (source.edb \cup source.idb)
  BY <1>2 DEF Proper
<1> QED
  BY <1>2, <1>3, FS_Subset

\* The strata are those of the components.
LEMMA StrataParts ==
  ASSUME NEW source, Proper(source), NEW strata \in StrataOrders(source)
  PROVE  /\ IsSeq(strata)
         /\ \A i \in 1..Len(strata) :
              \E c \in Components(source) : strata[i] = StratumOf(source, c)
<1>1. PICK s \in SetToSeqs(Components(source)) :
        strata = [i \in DOMAIN s |-> StratumOf(source, s[i])]
  BY DEF StrataOrders
<1>2. IsFiniteSet(Components(source))
  <2> DEFINE f == [r \in IdbNodes(source) |-> Component(source, r)]
  <2>1. f \in Surjection(IdbNodes(source), Components(source))
    BY DEF Surjection, Components
  <2> HIDE DEF f
  <2> QED
    BY <2>1, NodesAreOutputs, FS_Surjection
<1>3. s \in Seq(Components(source))
  BY <1>2, OrdersOf
<1>4. IsSeq(s)
  <2>1. s \in Seq(ToSet(s))
    BY <1>3 DEF ToSet
  <2> QED
    BY <2>1 DEF IsSeq
<1>5. strata = [i \in DOMAIN s |-> strata[i]]
  BY <1>1
<1>6. IsSeq(strata) /\ Len(strata) = Len(s) /\ DOMAIN s = 1..Len(s)
  BY <1>4, <1>5, SeqMap, SeqParts
<1> QED
  BY <1>1, <1>3, <1>6

-----------------------------------------------------------------------------
(* The statements that the parts of the lowering make.                      *)

\* An insert of facts of relation r that searches no relation it fills.
IsInsert(s, r, version) ==
  /\ s.op = "insert" /\ s.into = Key(r, version)
  /\ \A row \in s.rows :
       /\ row.head \in Facts /\ row.head.rel = r
       /\ \A q \in row.search : <<q[1].rel, q[2]>> # s.into

\* The facts that the rules and the ground facts of a program write exist.
Writable(source) ==
  source.facts \subseteq Facts /\ \A row \in RowsOf(source) : row.head \in Facts

\* The instance of an atom is about its relation.
LEMMA ResolvedRel ==
  ASSUME NEW a, NEW relations, IsAtom(a, relations), NEW b
  PROVE  Resolve(a, b).rel = a.rel
<1>1. a = [rel |-> a.rel, args |-> a.args]
  BY DEF IsAtom, Atom
<1> QED
  BY <1>1 DEF Resolve

\* A rule is lowered to inserts.  One that fills Delta must not search its own
\* relation, which it might do there.
LEMMA LowerRuleParts ==
  ASSUME NEW source, Proper(source), Writable(source), NEW rule \in ToSet(source.rules),
         NEW version \in {"Delta", "New"},
         version = "Delta" => \A a \in ToSet(rule.pos) : a.rel # rule.head.rel
  PROVE  /\ IsSeq(LowerRule(rule, version))
         /\ \A s \in ToSet(LowerRule(rule, version)) : IsInsert(s, rule.head.rel, version)
<1> DEFINE D == source.edb \cup source.idb
           rewrites == SemiNaiveRewrites(rule)
           q == LowerRule(rule, version)
<1>1. ProperRule(rule, D, source.idb)
  BY DEF Proper
<1>2. IsSeq(rewrites) /\ \A v \in ToSet(rewrites) : IsRewrite(rule, v)
  BY <1>1, RewriteParts DEF ProperRule
<1>3. q = [i \in DOMAIN rewrites |-> LowerRewrite(rule, rewrites[i], version)]
  BY DEF LowerRule
<1>4. IsSeq(q) /\ Len(q) = Len(rewrites) /\ DOMAIN q = DOMAIN rewrites
  <2>1. q = [i \in DOMAIN rewrites |-> q[i]]
    BY <1>3
  <2> HIDE DEF q, rewrites
  <2> QED
    BY <1>2, <2>1, SeqMap, SeqParts
<1>5. ASSUME NEW i \in DOMAIN rewrites PROVE IsInsert(q[i], rule.head.rel, version)
  <2> DEFINE v == rewrites[i]
             order == OrderTerms(rule, v)
             kept == {b \in Bindings(rule) :
                        \A p \in Formulae(order, "pred") : PredicateHolds(rule.preds[p], b)}
             rows == {LowerRow(rule, order, b) : b \in kept}
  <2>1. IsRewrite(rule, v)
    BY <1>2 DEF ToSet
  <2>2. q[i] = [op |-> "insert", into |-> Key(rule.head.rel, version), ground |-> FALSE, rows |-> rows]
    BY <1>3 DEF LowerRewrite, Insert
  <2>3. ASSUME NEW row \in rows
        PROVE  /\ row.head \in Facts /\ row.head.rel = rule.head.rel
               /\ \A x \in row.search : <<x[1].rel, x[2]>> # Key(rule.head.rel, version)
    <3>1. PICK b \in kept : row = LowerRow(rule, order, b)
      OBVIOUS
    <3>2. row.head = Resolve(rule.head, b) /\ row.search = Searches(rule, order, b)
      BY <3>1 DEF LowerRow
    <3>3. row.head \in Facts
      <4> DEFINE w == LowerRule(rule, "New")
      <4>1. w = [j \in DOMAIN rewrites |-> LowerRewrite(rule, rewrites[j], "New")]
        BY DEF LowerRule
      <4>2. w[i] = [op |-> "insert", into |-> Key(rule.head.rel, "New"), ground |-> FALSE, rows |-> rows]
        BY <4>1 DEF LowerRewrite, Insert
      <4>3. w[i] \in ToSet(w) /\ w[i].rows = rows
        BY <4>1, <4>2 DEF ToSet
      <4> HIDE DEF w, rows, rewrites
      <4>4. row \in RowsOf(source)
        BY <4>3 DEF RowsOf, w
      <4> QED
        BY <4>4 DEF Writable
    <3>4. row.head.rel = rule.head.rel
      BY <1>1, <3>2, ResolvedRel DEF ProperRule
    <3>5. ASSUME NEW x \in row.search PROVE <<x[1].rel, x[2]>> # Key(rule.head.rel, version)
      <4>1. PICK j \in DOMAIN order :
              order[j].kind = "rel"
              /\ x = <<Resolve(Constrained(rule, order, j), b), order[j].version>>
        BY <3>2 DEF Searches
      <4>2. order[j].at \in DOMAIN rule.pos /\ order[j].version \in {"Delta", "Total"}
        BY <1>1, <2>1, <4>1, OrderedSearches
      <4> DEFINE atom == rule.pos[order[j].at]
      <4>3. atom \in ToSet(rule.pos)
        BY <4>2 DEF ToSet
      <4>4. IsAtom(atom, D)
        BY <1>1, <4>3 DEF ProperRule
      <4>5. Constrained(rule, order, j).rel = atom.rel
            /\ Resolve(Constrained(rule, order, j), b).rel = atom.rel
        <5>1. atom = [rel |-> atom.rel, args |-> atom.args]
          BY <4>4 DEF IsAtom, Atom
        <5>2. \A args : [atom EXCEPT !.args = args] = [rel |-> atom.rel, args |-> args]
          BY <5>1
        <5> DEFINE k == Constrained(rule, order, j)
        <5>3. \E args : k = [atom EXCEPT !.args = args]
          BY DEF Constrained
        <5>4. PICK args : k = [rel |-> atom.rel, args |-> args]
          BY <5>2, <5>3
        <5> HIDE DEF k, atom
        <5>5. Resolve(k, b).rel = atom.rel
          BY <5>4 DEF Resolve
        <5> QED
          BY <5>4, <5>5 DEF k
      <4>6. x[1].rel = atom.rel /\ x[2] \in {"Delta", "Total"}
        BY <4>1, <4>2, <4>5
      <4>7. CASE version = "New"
        BY <4>6, <4>7 DEF Key
      <4>8. CASE version = "Delta"
        <5>1. atom.rel # rule.head.rel
          BY <4>3, <4>8
        <5> QED
          BY <4>6, <5>1 DEF Key
      <4> QED
        BY <4>7, <4>8
    <3> QED
      BY <3>3, <3>4, <3>5
  <2> HIDE DEF rows, q
  <2>4. q[i].op = "insert" /\ q[i].into = Key(rule.head.rel, version) /\ q[i].rows = rows
    BY <2>2
  <2> QED
    BY <2>3, <2>4 DEF IsInsert
<1>6. \A s \in ToSet(q) : \E i \in DOMAIN rewrites : s = q[i]
  BY <1>4 DEF ToSet
<1> QED
  BY <1>4, <1>5, <1>6

\* The rules of a sequence are lowered to inserts into their heads' relations.
LEMMA LowerRulesParts ==
  ASSUME NEW source, Proper(source), Writable(source),
         NEW rules, IsSeq(rules), ToSet(rules) \subseteq ToSet(source.rules),
         NEW version \in {"Delta", "New"},
         version = "Delta" =>
           \A r \in ToSet(rules) : \A a \in ToSet(r.pos) : a.rel # r.head.rel
  PROVE  /\ IsSeq(LowerRules(rules, version))
         /\ \A s \in ToSet(LowerRules(rules, version)) :
              \E r \in ToSet(rules) : IsInsert(s, r.head.rel, version)
<1> DEFINE seqs == [i \in DOMAIN rules |-> LowerRule(rules[i], version)]
<1>1. LowerRules(rules, version) = FlattenSeq(seqs)
  BY DEF LowerRules
<1>2. IsSeq(seqs) /\ Len(seqs) = Len(rules) /\ DOMAIN rules = 1..Len(rules)
  <2>1. seqs = [i \in DOMAIN rules |-> seqs[i]]
    OBVIOUS
  <2> HIDE DEF seqs
  <2> QED
    BY <2>1, SeqMap, SeqParts
<1>3. ASSUME NEW i \in 1..Len(rules)
      PROVE  /\ rules[i] \in ToSet(rules) /\ seqs[i] = LowerRule(rules[i], version)
             /\ IsSeq(seqs[i])
             /\ \A s \in ToSet(seqs[i]) : IsInsert(s, rules[i].head.rel, version)
  <2>1. rules[i] \in ToSet(rules) /\ seqs[i] = LowerRule(rules[i], version)
    BY <1>2 DEF ToSet
  <2>2. rules[i] \in ToSet(source.rules)
    BY <2>1
  <2>3. version = "Delta" => \A a \in ToSet(rules[i].pos) : a.rel # rules[i].head.rel
    BY <2>1
  <2> HIDE DEF seqs
  <2> QED
    BY <2>1, <2>2, <2>3, LowerRuleParts
<1> HIDE DEF seqs
<1>4. /\ IsSeq(FlattenSeq(seqs))
      /\ \A s \in ToSet(FlattenSeq(seqs)) : \E i \in 1..Len(rules) : s \in ToSet(seqs[i])
  BY <1>2, <1>3, FlattenRange
<1> QED
  BY <1>1, <1>3, <1>4

\* Ground facts are lowered to inserts into Delta.
LEMMA LowerFactsParts ==
  ASSUME NEW facts, IsFiniteSet(facts), facts \subseteq Facts
  PROVE  /\ IsSeq(LowerFacts(facts))
         /\ \A s \in ToSet(LowerFacts(facts)) : \E f \in facts : IsInsert(s, f.rel, "Delta")
<1> DEFINE order == SetToSeq(facts)
           q == LowerFacts(facts)
<1>1. IsSeq(order) /\ ToSet(order) = facts
  BY SetToSeqIs
<1>2. q = [i \in DOMAIN order |-> LowerFact(order[i])]
  BY DEF LowerFacts
<1>3. ASSUME NEW f \in facts PROVE IsInsert(LowerFact(f), f.rel, "Delta")
  <2> DEFINE row == [head |-> f, search |-> {}, absent |-> {}, aggs |-> {}]
  <2>1. LowerFact(f) = [op |-> "insert", into |-> Key(f.rel, "Delta"), ground |-> TRUE, rows |-> {row}]
    BY DEF LowerFact, Insert
  <2>2. row.head = f /\ row.search = {}
    OBVIOUS
  <2> HIDE DEF row
  <2>3. LowerFact(f).op = "insert" /\ LowerFact(f).into = Key(f.rel, "Delta") /\ LowerFact(f).rows = {row}
    BY <2>1
  <2> QED
    BY <2>2, <2>3 DEF IsInsert
<1> HIDE DEF order, q
<1>4. IsSeq(q)
  <2>1. q = [i \in DOMAIN order |-> q[i]]
    BY <1>2
  <2> QED
    BY <1>1, <2>1, SeqMap
<1>5. \A s \in ToSet(q) : \E i \in DOMAIN order : s = LowerFact(order[i])
  BY <1>2 DEF ToSet
<1>6. \A i \in DOMAIN order : order[i] \in facts
  BY <1>1 DEF ToSet
<1> QED
  BY <1>3, <1>4, <1>5, <1>6 DEF q

\* One statement for each relation of a set, made by the function F.
LEMMA EachParts ==
  ASSUME NEW R, IsFiniteSet(R), NEW F, NEW q,
         q = [i \in DOMAIN SetToSeq(R) |-> F[SetToSeq(R)[i]]]
  PROVE  IsSeq(q) /\ ToSet(q) = {F[r] : r \in R}
<1> DEFINE order == SetToSeq(R)
<1>1. IsSeq(order) /\ ToSet(order) = R
  BY SetToSeqIs
<1>2. q = [i \in DOMAIN order |-> q[i]]
  OBVIOUS
<1>3. IsSeq(q)
  <2> HIDE DEF order
  <2> QED
    BY <1>1, <1>2, SeqMap
<1>4. ToSet(q) = {F[order[i]] : i \in DOMAIN order}
  BY DEF ToSet
<1>5. R = {order[i] : i \in DOMAIN order}
  BY <1>1 DEF ToSet
<1> QED
  <2> HIDE DEF order
  <2> QED
    BY <1>3, <1>4, <1>5

\* The merges of MergeDelta, one for each relation.
LEMMA MergeDeltaParts ==
  ASSUME NEW R, IsFiniteSet(R)
  PROVE  /\ IsSeq(MergeDelta(R))
         /\ ToSet(MergeDelta(R)) = {Merge(Key(r, "Delta"), Key(r, "Total")) : r \in R}
<1> DEFINE F == [r \in R |-> Merge(Key(r, "Delta"), Key(r, "Total"))]
           order == SetToSeq(R)
<1>1. \A i \in DOMAIN order : order[i] \in R
  BY SetToSeqIs DEF ToSet
<1>2. MergeDelta(R) = [i \in DOMAIN order |-> Merge(Key(order[i], "Delta"), Key(order[i], "Total"))]
  BY DEF MergeDelta, ForEach
<1>3. MergeDelta(R) = [i \in DOMAIN order |-> F[order[i]]]
  BY <1>1, <1>2
<1>4. IsSeq(MergeDelta(R)) /\ ToSet(MergeDelta(R)) = {F[r] : r \in R}
  <2> HIDE DEF F
  <2> QED
    BY <1>3, EachParts
<1> QED
  BY <1>4

\* The merges of MergeTotal, one for each relation.
LEMMA MergeTotalParts ==
  ASSUME NEW R, IsFiniteSet(R)
  PROVE  /\ IsSeq(MergeTotal(R))
         /\ ToSet(MergeTotal(R)) = {Merge(Key(r, "Total"), Key(r, "Delta")) : r \in R}
<1> DEFINE F == [r \in R |-> Merge(Key(r, "Total"), Key(r, "Delta"))]
           order == SetToSeq(R)
<1>1. \A i \in DOMAIN order : order[i] \in R
  BY SetToSeqIs DEF ToSet
<1>2. MergeTotal(R) = [i \in DOMAIN order |-> Merge(Key(order[i], "Total"), Key(order[i], "Delta"))]
  BY DEF MergeTotal, ForEach
<1>3. MergeTotal(R) = [i \in DOMAIN order |-> F[order[i]]]
  BY <1>1, <1>2
<1>4. IsSeq(MergeTotal(R)) /\ ToSet(MergeTotal(R)) = {F[r] : r \in R}
  <2> HIDE DEF F
  <2> QED
    BY <1>3, EachParts
<1> QED
  BY <1>4

\* The purges of one version of some relations.
LEMMA PurgesParts ==
  ASSUME NEW R, IsFiniteSet(R), NEW version
  PROVE  /\ IsSeq(ForEach(R, LAMBDA r : Purge(Key(r, version))))
         /\ ToSet(ForEach(R, LAMBDA r : Purge(Key(r, version)))) = {Purge(Key(r, version)) : r \in R}
<1> DEFINE F == [r \in R |-> Purge(Key(r, version))]
           order == SetToSeq(R)
           q == ForEach(R, LAMBDA r : Purge(Key(r, version)))
<1>1. \A i \in DOMAIN order : order[i] \in R
  BY SetToSeqIs DEF ToSet
<1>2. q = [i \in DOMAIN order |-> Purge(Key(order[i], version))]
  BY DEF ForEach
<1>3. q = [i \in DOMAIN order |-> F[order[i]]]
  BY <1>1, <1>2
<1>4. IsSeq(q) /\ ToSet(q) = {F[r] : r \in R}
  <2> HIDE DEF F, q
  <2> QED
    BY <1>3, EachParts
<1> QED
  BY <1>4

\* The swaps at the end of a loop.
LEMMA SwapsParts ==
  ASSUME NEW R, IsFiniteSet(R)
  PROVE  /\ IsSeq(ForEach(R, LAMBDA r : Swap(Key(r, "New"), Key(r, "Delta"))))
         /\ ToSet(ForEach(R, LAMBDA r : Swap(Key(r, "New"), Key(r, "Delta"))))
              = {Swap(Key(r, "New"), Key(r, "Delta")) : r \in R}
<1> DEFINE F == [r \in R |-> Swap(Key(r, "New"), Key(r, "Delta"))]
           order == SetToSeq(R)
           q == ForEach(R, LAMBDA r : Swap(Key(r, "New"), Key(r, "Delta")))
<1>1. \A i \in DOMAIN order : order[i] \in R
  BY SetToSeqIs DEF ToSet
<1>2. q = [i \in DOMAIN order |-> Swap(Key(order[i], "New"), Key(order[i], "Delta"))]
  BY DEF ForEach
<1>3. q = [i \in DOMAIN order |-> F[order[i]]]
  BY <1>1, <1>2
<1>4. IsSeq(q) /\ ToSet(q) = {F[r] : r \in R}
  <2> HIDE DEF F, q
  <2> QED
    BY <1>3, EachParts
<1> QED
  BY <1>4

-----------------------------------------------------------------------------
(* The statements of a stratum.                                             *)

\* A statement that a stratum of the relations c is made of.
IsOf(s, c) ==
  \/ \E r \in c : IsInsert(s, r, "Delta") \/ IsInsert(s, r, "New")
  \/ \E r \in c : \/ s = Merge(Key(r, "Delta"), Key(r, "Total"))
                  \/ s = Merge(Key(r, "Total"), Key(r, "Delta"))
                  \/ s = Purge(Key(r, "New"))
                  \/ s = Swap(Key(r, "New"), Key(r, "Delta"))
  \/ s = Sinks(c)
  \/ s = Exit({Key(r, "New") : r \in c})

\* A sequence of such statements, or of loops of them.
AllOf(p, c) == IsSeq(p) /\ \A s \in ToSet(p) : IsOf(s, c)

IsLoopOf(s, c) == s = Loop(s.body) /\ Len(s.body) # 0 /\ AllOf(s.body, c)

IsStratum(p, c) ==
  IsSeq(p) /\ \A s \in ToSet(p) : (IsOf(s, c) /\ s.op # "exit") \/ IsLoopOf(s, c)

\* What the statements of a stratum are called.
LEMMA Operations ==
  ASSUME NEW r, NEW c
  PROVE  /\ Merge(Key(r, "Delta"), Key(r, "Total")).op = "merge"
         /\ Merge(Key(r, "Total"), Key(r, "Delta")).op = "merge"
         /\ Purge(Key(r, "New")).op = "purge"
         /\ Swap(Key(r, "New"), Key(r, "Delta")).op = "swap"
         /\ Sinks(c).op = "sinks"
         /\ Exit(c).op = "exit"
  BY DEF Merge, Purge, Swap, Sinks, Exit

\* The rules of a stratum and the ground facts of it.
LEMMA StratumRules ==
  ASSUME NEW source, Proper(source), NEW c,
         NEW stratum, stratum = StratumOf(source, c)
  PROVE  /\ stratum.relations = c
         /\ IsSeq(stratum.rules)
         /\ ToSet(stratum.rules) \subseteq ToSet(source.rules)
         /\ \A r \in ToSet(stratum.rules) : r.head.rel \in c
         /\ IsFiniteSet(stratum.facts) /\ stratum.facts \subseteq source.facts
         /\ \A f \in stratum.facts : f.rel \in c
         /\ ~ stratum.recursive =>
              \A r \in ToSet(stratum.rules) : \A a \in ToSet(r.pos) : a.rel \notin c
<1> DEFINE W == {r \in ToSet(source.rules) : r.head.rel \in c}
<1>1. /\ stratum.relations = c
      /\ stratum.facts = {f \in source.facts : f.rel \in c}
      /\ stratum.rules = Keep(source.rules, W)
      /\ stratum.recursive = (\/ Cardinality(c) > 1
                              \/ \E d \in Dependencies(source) : d.from \in c /\ d.to \in c)
  BY DEF StratumOf
<1>2. source.rules \in Seq(ToSet(source.rules))
  BY DEF Proper, IsSeq
<1>3. ToSet(stratum.rules) = ToSet(source.rules) \cap W
  <2> HIDE DEF W
  <2> QED
    BY <1>1, <1>2, KeepRange
<1>4. IsSeq(stratum.rules)
  <2>1. stratum.rules \in Seq(ToSet(source.rules) \cap W)
    <3> HIDE DEF W
    <3> QED
      BY <1>1, <1>2, KeepType
  <2> HIDE DEF W
  <2> QED
    BY <1>3, <2>1 DEF IsSeq
<1>5. IsFiniteSet(stratum.facts) /\ stratum.facts \subseteq source.facts
  <2>1. IsFiniteSet(source.facts) /\ stratum.facts \in SUBSET source.facts
    BY <1>1 DEF Proper
  <2> QED
    BY <2>1, FS_Subset
<1>6. ASSUME ~ stratum.recursive, NEW r \in ToSet(stratum.rules), NEW a \in ToSet(r.pos)
      PROVE  a.rel \notin c
  <2>1. r \in ToSet(source.rules) /\ r.head.rel \in c
    BY <1>3
  <2> DEFINE d == [from |-> a.rel, to |-> r.head.rel, positive |-> TRUE]
  <2>2. d \in Dependencies(source)
    <3> DEFINE edges == {[from |-> b.rel, to |-> r.head.rel, positive |-> TRUE] : b \in ToSet(r.pos)}
               more == {[from |-> b.rel, to |-> r.head.rel, positive |-> FALSE] :
                           b \in ToSet(r.neg) \cup {g.atom : g \in ToSet(r.aggs)}}
    <3>1. d \in edges
      OBVIOUS
    <3>2. edges \cup more \subseteq Dependencies(source)
      BY <2>1, Zenon DEF Dependencies
    <3> HIDE DEF d, edges, more
    <3> QED
      BY <3>1, <3>2
  <2>3. d.from = a.rel /\ d.to = r.head.rel
    OBVIOUS
  <2> HIDE DEF d
  <2> QED
    BY <1>1, <1>6, <2>1, <2>2, <2>3
<1> QED
  BY <1>1, <1>3, <1>4, <1>5, <1>6

\* One sequence of statements of c after another.
LEMMA AllOfConcat ==
  ASSUME NEW c, NEW p, NEW q, AllOf(p, c), AllOf(q, c)
  PROVE  AllOf(p \o q, c)
BY SeqConcat DEF AllOf

\* The parts of a stratum.
LEMMA AllOfParts ==
  ASSUME NEW c, IsFiniteSet(c), NEW d, d \subseteq c
  PROVE  /\ AllOf(MergeDelta(d), c)
         /\ AllOf(MergeTotal(d), c)
         /\ AllOf(ForEach(d, LAMBDA r : Purge(Key(r, "New"))), c)
         /\ AllOf(ForEach(d, LAMBDA r : Swap(Key(r, "New"), Key(r, "Delta"))), c)
         /\ AllOf(<<Sinks(c)>>, c)
         /\ AllOf(<<Exit({Key(r, "New") : r \in c})>>, c)
<1>0. IsFiniteSet(d)
  BY FS_Subset
<1>1. AllOf(MergeDelta(d), c)
  BY <1>0, MergeDeltaParts DEF AllOf, IsOf
<1>2. AllOf(MergeTotal(d), c)
  BY <1>0, MergeTotalParts DEF AllOf, IsOf
<1>3. AllOf(ForEach(d, LAMBDA r : Purge(Key(r, "New"))), c)
  <2> DEFINE purges == ForEach(d, LAMBDA r : Purge(Key(r, "New")))
  <2>1. IsSeq(purges) /\ ToSet(purges) = {Purge(Key(r, "New")) : r \in d}
    BY <1>0, PurgesParts
  <2> HIDE DEF purges
  <2>2. AllOf(purges, c)
    BY <2>1 DEF AllOf, IsOf
  <2> QED
    BY <2>2 DEF purges
<1>4. AllOf(ForEach(d, LAMBDA r : Swap(Key(r, "New"), Key(r, "Delta"))), c)
  <2> DEFINE swaps == ForEach(d, LAMBDA r : Swap(Key(r, "New"), Key(r, "Delta")))
  <2>1. IsSeq(swaps) /\ ToSet(swaps) = {Swap(Key(r, "New"), Key(r, "Delta")) : r \in d}
    BY <1>0, SwapsParts
  <2> HIDE DEF swaps
  <2>2. AllOf(swaps, c)
    BY <2>1 DEF AllOf, IsOf
  <2> QED
    BY <2>2 DEF swaps
<1>5. AllOf(<<Sinks(c)>>, c)
  BY SeqOne DEF AllOf, IsOf
<1>6. AllOf(<<Exit({Key(r, "New") : r \in c})>>, c)
  BY SeqOne DEF AllOf, IsOf
<1> QED
  BY <1>1, <1>2, <1>3, <1>4, <1>5, <1>6

\* The body of a loop has one more statement than nothing: its sinks.
LEMMA LoopBodyParts ==
  ASSUME NEW source, Proper(source), Writable(source), NEW c, IsFiniteSet(c),
         NEW stratum, stratum = StratumOf(source, c),
         NEW dynamic, IsSeq(dynamic), ToSet(dynamic) \subseteq ToSet(stratum.rules)
  PROVE  AllOf(LoopBody(stratum, dynamic), c) /\ Len(LoopBody(stratum, dynamic)) # 0
<1> DEFINE purges == ForEach(c, LAMBDA r : Purge(Key(r, "New")))
           inserts == LowerRules(dynamic, "New")
           sinks == <<Sinks(c)>>
           merges == MergeDelta(c)
           exit == <<Exit({Key(r, "New") : r \in c})>>
           swaps == ForEach(c, LAMBDA r : Swap(Key(r, "New"), Key(r, "Delta")))
           body == LoopBody(stratum, dynamic)
<1>1. /\ stratum.relations = c
      /\ ToSet(dynamic) \subseteq ToSet(source.rules)
      /\ \A r \in ToSet(dynamic) : r.head.rel \in c
  BY StratumRules
<1>2. body = purges \o inserts \o sinks \o merges \o exit \o swaps
  BY <1>1 DEF LoopBody
<1>3. AllOf(inserts, c)
  <2>1. /\ IsSeq(inserts)
        /\ \A s \in ToSet(inserts) : \E r \in ToSet(dynamic) : IsInsert(s, r.head.rel, "New")
    BY <1>1, LowerRulesParts
  <2> HIDE DEF inserts
  <2> QED
    BY <1>1, <2>1 DEF AllOf, IsOf
<1>4. AllOf(purges, c) /\ AllOf(sinks, c) /\ AllOf(merges, c) /\ AllOf(exit, c) /\ AllOf(swaps, c)
  BY AllOfParts
<1>5. Sinks(c) \in ToSet(sinks)
  BY SeqOne
<1> HIDE DEF purges, inserts, sinks, merges, exit, swaps, body
<1>6. AllOf(purges \o inserts, c)
  BY <1>3, <1>4, AllOfConcat
<1>7. AllOf(purges \o inserts \o sinks, c)
  BY <1>4, <1>6, AllOfConcat
<1>8. AllOf(purges \o inserts \o sinks \o merges, c)
  BY <1>4, <1>7, AllOfConcat
<1>9. AllOf(purges \o inserts \o sinks \o merges \o exit, c)
  BY <1>4, <1>8, AllOfConcat
<1>10. AllOf(body, c)
  BY <1>2, <1>4, <1>9, AllOfConcat
<1>11. Len(exit) = 1
  BY SeqOne DEF exit
<1>12. Len(body) # 0
  <2>1. Len(body) = Len(purges \o inserts \o sinks \o merges \o exit) + Len(swaps)
    BY <1>2, <1>4, <1>9, SeqConcat DEF AllOf
  <2>2. Len(purges \o inserts \o sinks \o merges \o exit)
          = Len(purges \o inserts \o sinks \o merges) + Len(exit)
    BY <1>4, <1>8, SeqConcat DEF AllOf
  <2>3. Len(purges \o inserts \o sinks \o merges) \in Nat /\ Len(swaps) \in Nat
    BY <1>4, <1>8, SeqParts DEF AllOf
  <2> QED
    BY <1>11, <2>1, <2>2, <2>3
<1> QED
  BY <1>10, <1>12 DEF body

\* What a stratum of c is made of: the statements that fill Delta before and
\* those that feed Total back afterwards, with the loop or the sinks between.
LEMMA StratumParts ==
  ASSUME NEW source, Proper(source), Writable(source), NEW c, IsFiniteSet(c),
         NEW stratum, stratum = StratumOf(source, c)
  PROVE  IsStratum(LowerStratum(stratum), c)
<1>1. /\ stratum.relations = c /\ IsSeq(stratum.rules)
      /\ ToSet(stratum.rules) \subseteq ToSet(source.rules)
      /\ \A r \in ToSet(stratum.rules) : r.head.rel \in c
      /\ IsFiniteSet(stratum.facts) /\ stratum.facts \subseteq source.facts
      /\ \A f \in stratum.facts : f.rel \in c
  BY StratumRules
<1> DEFINE Plain(p) == AllOf(p, c) /\ \A s \in ToSet(p) : s.op # "exit"
           facts == LowerFacts(stratum.facts)
<1>2. Plain(facts)
  <2>1. IsSeq(facts) /\ \A s \in ToSet(facts) : \E f \in stratum.facts : IsInsert(s, f.rel, "Delta")
    BY <1>1, LowerFactsParts DEF Writable
  <2> HIDE DEF facts
  <2> QED
    BY <1>1, <2>1 DEF AllOf, IsOf, IsInsert
<1>3. ASSUME NEW rules, IsSeq(rules), ToSet(rules) \subseteq ToSet(stratum.rules),
             \A r \in ToSet(rules) : \A a \in ToSet(r.pos) : a.rel \notin c
      PROVE  Plain(LowerRules(rules, "Delta"))
  <2>1. \A r \in ToSet(rules) : \A a \in ToSet(r.pos) : a.rel # r.head.rel
    BY <1>1, <1>3
  <2>2. /\ IsSeq(LowerRules(rules, "Delta"))
        /\ \A s \in ToSet(LowerRules(rules, "Delta")) :
             \E r \in ToSet(rules) : IsInsert(s, r.head.rel, "Delta")
    BY <1>1, <1>3, <2>1, LowerRulesParts
  <2> QED
    BY <1>1, <1>3, <2>2 DEF AllOf, IsOf, IsInsert
<1>4. ASSUME NEW d, d \subseteq c PROVE Plain(MergeDelta(d)) /\ Plain(MergeTotal(d))
  <2>1. IsFiniteSet(d)
    BY <1>4, FS_Subset
  <2>2. AllOf(MergeDelta(d), c) /\ AllOf(MergeTotal(d), c)
    BY <1>4, AllOfParts
  <2>3. \A s \in ToSet(MergeDelta(d)) : s.op # "exit"
    <3>1. ToSet(MergeDelta(d)) = {Merge(Key(r, "Delta"), Key(r, "Total")) : r \in d}
      BY <2>1, MergeDeltaParts
    <3> QED
      BY <3>1, Operations
  <2>4. \A s \in ToSet(MergeTotal(d)) : s.op # "exit"
    <3>1. ToSet(MergeTotal(d)) = {Merge(Key(r, "Total"), Key(r, "Delta")) : r \in d}
      BY <2>1, MergeTotalParts
    <3> QED
      BY <3>1, Operations
  <2> QED
    BY <2>2, <2>3, <2>4
<1>5. Plain(<<Sinks(c)>>)
  <2>1. AllOf(<<Sinks(c)>>, c)
    BY AllOfParts
  <2>2. \A s \in ToSet(<<Sinks(c)>>) : s = Sinks(c)
    BY SeqOne
  <2>3. Sinks(c).op # "exit"
    BY Operations
  <2> QED
    BY <2>1, <2>2, <2>3
<1>6. ASSUME NEW p, NEW q, Plain(p), Plain(q) PROVE Plain(p \o q)
  BY <1>6, AllOfConcat, SeqConcat DEF AllOf
<1>7. ASSUME NEW p, Plain(p) PROVE IsStratum(p, c)
  BY <1>7 DEF IsStratum, AllOf
<1>8. ASSUME NEW p, NEW q, IsStratum(p, c), IsStratum(q, c) PROVE IsStratum(p \o q, c)
  BY <1>8, SeqConcat DEF IsStratum
<1>9. CASE ~ stratum.recursive
  <2> DEFINE rules == LowerRules(stratum.rules, "Delta")
             merges == MergeDelta(c)
             sinks == <<Sinks(c)>>
             feeds == MergeTotal(c)
  <2>1. LowerStratum(stratum) = facts \o rules \o merges \o sinks \o feeds
    BY <1>1, <1>9 DEF LowerStratum, LowerFlatStratum
  <2>2. \A r \in ToSet(stratum.rules) : \A a \in ToSet(r.pos) : a.rel \notin c
    BY <1>9, StratumRules
  <2>3. Plain(rules) /\ Plain(merges) /\ Plain(sinks) /\ Plain(feeds)
    BY <1>1, <1>3, <1>4, <1>5, <2>2
  <2> HIDE DEF Plain, facts, rules, merges, sinks, feeds
  <2>4. Plain(facts \o rules)
    BY <1>2, <1>6, <2>3
  <2>5. Plain(facts \o rules \o merges)
    BY <1>6, <2>3, <2>4
  <2>6. Plain(facts \o rules \o merges \o sinks)
    BY <1>6, <2>3, <2>5
  <2>7. Plain(facts \o rules \o merges \o sinks \o feeds)
    BY <1>6, <2>3, <2>6
  <2> QED
    BY <1>7, <2>1, <2>7
<1>10. CASE stratum.recursive
  <2> DEFINE inside == {r \in ToSet(stratum.rules) : IsDynamic(r, stratum)}
             dynamic == Keep(stratum.rules, inside)
             static == Keep(stratum.rules, ToSet(stratum.rules) \ inside)
             rules == LowerRules(static, "Delta")
             heads == {r.head.rel : r \in ToSet(static)}
             merges == MergeDelta(heads)
             loop == <<Loop(LoopBody(stratum, dynamic))>>
             feeds == MergeTotal(c)
  <2>1. LowerStratum(stratum) = facts \o rules \o merges \o loop \o feeds
    BY <1>1, <1>10 DEF LowerStratum, LowerRecursiveStratum
  <2>2. stratum.rules \in Seq(ToSet(stratum.rules))
    BY <1>1 DEF IsSeq
  <2>3. /\ IsSeq(dynamic) /\ ToSet(dynamic) = ToSet(stratum.rules) \cap inside
        /\ IsSeq(static) /\ ToSet(static) = ToSet(stratum.rules) \cap (ToSet(stratum.rules) \ inside)
    <3> HIDE DEF inside
    <3> QED
      BY <2>2, KeepType, KeepRange DEF IsSeq
  <2>4. \A r \in ToSet(static) : \A a \in ToSet(r.pos) : a.rel \notin c
    BY <1>1, <2>3 DEF IsDynamic
  <2>5. ToSet(static) \subseteq ToSet(stratum.rules) /\ ToSet(dynamic) \subseteq ToSet(stratum.rules)
    BY <2>3
  <2> HIDE DEF inside, dynamic, static
  <2>6. heads \subseteq c
    BY <1>1, <2>5
  <2>7. Plain(rules) /\ Plain(merges) /\ Plain(feeds)
    <3>1. Plain(rules)
      BY <1>3, <2>3, <2>4, <2>5
    <3>2. Plain(merges)
      <4> HIDE DEF heads
      <4> QED
        BY <1>4, <2>6
    <3>3. Plain(feeds)
      BY <1>4
    <3> QED
      BY <3>1, <3>2, <3>3
  <2>8. IsStratum(loop, c)
    <3> DEFINE body == LoopBody(stratum, dynamic)
    <3>1. AllOf(body, c) /\ Len(body) # 0
      BY <2>3, <2>5, LoopBodyParts
    <3> HIDE DEF body
    <3>2. Loop(body).body = body
      BY DEF Loop
    <3>3. IsLoopOf(Loop(body), c)
      BY <3>1, <3>2 DEF IsLoopOf
    <3> QED
      BY <3>3, SeqOne DEF IsStratum, body
  <2> HIDE DEF Plain, facts, rules, merges, loop, feeds, heads
  <2>9. Plain(facts \o rules)
    BY <1>2, <1>6, <2>7
  <2>10. Plain(facts \o rules \o merges)
    BY <1>6, <2>7, <2>9
  <2>11. IsStratum(facts \o rules \o merges \o loop, c)
    BY <1>7, <1>8, <2>8, <2>10
  <2>12. IsStratum(facts \o rules \o merges \o loop \o feeds, c)
    BY <1>7, <1>8, <2>7, <2>11
  <2> QED
    BY <2>1, <2>12
<1> QED
  BY <1>9, <1>10

-----------------------------------------------------------------------------
(* The whole program.                                                       *)

\* A statement after the sources: one of a stratum, or of the end of an epoch.
IsAfterSources(s, source) ==
  \/ \E c \in Components(source) : (IsOf(s, c) /\ s.op # "exit") \/ IsLoopOf(s, c)
  \/ \E r \in source.edb : s = Merge(Key(r, "Delta"), Key(r, "Total"))
  \/ \E r \in source.edb \cup source.idb : s = Purge(Key(r, "Delta"))

\* The strata lowered, one after the other.
LoweredStrata(strata) == [i \in DOMAIN strata |-> LowerStratum(strata[i])]

\* Each of them is the lowering of the stratum of a component.
LEMMA LoweredStrataParts ==
  ASSUME NEW source, Proper(source), Writable(source), NEW strata \in StrataOrders(source)
  PROVE  /\ IsSeq(LoweredStrata(strata)) /\ Len(LoweredStrata(strata)) = Len(strata)
         /\ \A i \in 1..Len(strata) :
              \E c \in Components(source) :
                /\ strata[i] = StratumOf(source, c)
                /\ LoweredStrata(strata)[i] = LowerStratum(strata[i])
                /\ IsStratum(LoweredStrata(strata)[i], c)
<1> DEFINE q == LoweredStrata(strata)
<1>1. IsSeq(strata) /\ DOMAIN strata = 1..Len(strata)
  BY StrataParts, SeqParts
<1>2. q = [i \in DOMAIN strata |-> LowerStratum(strata[i])]
  BY DEF LoweredStrata
<1>3. IsSeq(q) /\ Len(q) = Len(strata)
  <2>1. q = [i \in DOMAIN strata |-> q[i]]
    BY <1>2
  <2> HIDE DEF q
  <2> QED
    BY <1>1, <2>1, SeqMap
<1>4. ASSUME NEW i \in 1..Len(strata)
      PROVE  \E c \in Components(source) :
               strata[i] = StratumOf(source, c) /\ q[i] = LowerStratum(strata[i]) /\ IsStratum(q[i], c)
  <2>1. PICK c \in Components(source) : strata[i] = StratumOf(source, c)
    BY StrataParts
  <2>2. q[i] = LowerStratum(strata[i])
    BY <1>1, <1>2
  <2>3. IsStratum(LowerStratum(strata[i]), c)
    BY <2>1, ComponentOutputs, StratumParts
  <2> QED
    BY <2>1, <2>2, <2>3
<1> QED
  BY <1>3, <1>4

\* The statements that end an epoch for the inputs.
LEMMA MergeInputsParts ==
  ASSUME NEW R, IsFiniteSet(R)
  PROVE  LET seqs == ForEach(R, MergeInput)
             q == FlattenSeq(seqs)
         IN  /\ IsSeq(q)
             /\ \A s \in ToSet(q) : \E r \in R : \/ s = Merge(Key(r, "Delta"), Key(r, "Total"))
                                                 \/ s = Purge(Key(r, "Delta"))
             /\ \A r \in R : Purge(Key(r, "Delta")) \in ToSet(q)
<1> DEFINE F == [r \in R |-> MergeInput(r)]
           order == SetToSeq(R)
           seqs == ForEach(R, MergeInput)
<1>1. IsSeq(order) /\ ToSet(order) = R /\ DOMAIN order = 1..Len(order)
  BY SetToSeqIs, SeqParts
<1>2. seqs = [i \in DOMAIN order |-> MergeInput(order[i])]
  BY DEF ForEach
<1>3. IsSeq(seqs) /\ Len(seqs) = Len(order)
  <2>1. seqs = [i \in DOMAIN order |-> seqs[i]]
    BY <1>2
  <2> HIDE DEF order, seqs
  <2> QED
    BY <1>1, <2>1, SeqMap
<1> HIDE DEF seqs, order
<1>4. \A i \in 1..Len(order) : order[i] \in R /\ seqs[i] = MergeInput(order[i])
  BY <1>1, <1>2, SeqParts
<1>5. ASSUME NEW r
      PROVE  /\ IsSeq(MergeInput(r))
             /\ ToSet(MergeInput(r)) = {Merge(Key(r, "Delta"), Key(r, "Total")), Purge(Key(r, "Delta"))}
  <2> DEFINE m == Merge(Key(r, "Delta"), Key(r, "Total"))
             p == Purge(Key(r, "Delta"))
  <2> HIDE DEF m, p
  <2>1. <<m, p>> \in Seq({m, p}) /\ DOMAIN <<m, p>> = 1..2 /\ <<m, p>>[1] = m /\ <<m, p>>[2] = p
    OBVIOUS
  <2>2. ToSet(<<m, p>>) = {m, p}
    BY <2>1 DEF ToSet
  <2>3. MergeInput(r) = <<m, p>>
    BY DEF MergeInput, m, p
  <2>4. IsSeq(<<m, p>>)
    BY <2>1, <2>2 DEF IsSeq
  <2> QED
    BY <2>2, <2>3, <2>4 DEF m, p
<1>6. \A i \in 1..Len(seqs) : IsSeq(seqs[i])
  BY <1>3, <1>4, <1>5
<1>7. /\ IsSeq(FlattenSeq(seqs))
      /\ \A x \in ToSet(FlattenSeq(seqs)) : \E i \in 1..Len(seqs) : x \in ToSet(seqs[i])
      /\ \A i \in 1..Len(seqs) : ToSet(seqs[i]) \subseteq ToSet(FlattenSeq(seqs))
  BY <1>3, <1>6, FlattenRange
<1>8. ASSUME NEW s \in ToSet(FlattenSeq(seqs))
      PROVE  \E r \in R : s = Merge(Key(r, "Delta"), Key(r, "Total")) \/ s = Purge(Key(r, "Delta"))
  <2>1. PICK i \in 1..Len(seqs) : s \in ToSet(seqs[i])
    BY <1>7
  <2>2. order[i] \in R /\ seqs[i] = MergeInput(order[i])
    BY <1>3, <1>4
  <2>3. s = Merge(Key(order[i], "Delta"), Key(order[i], "Total")) \/ s = Purge(Key(order[i], "Delta"))
    BY <1>5, <2>1, <2>2
  <2> QED
    BY <2>2, <2>3
<1>9. ASSUME NEW r \in R PROVE Purge(Key(r, "Delta")) \in ToSet(FlattenSeq(seqs))
  <2>1. PICK i \in 1..Len(order) : r = order[i]
    BY <1>1, SeqParts
  <2>2. Purge(Key(r, "Delta")) \in ToSet(seqs[i])
    BY <1>4, <1>5, <2>1
  <2> QED
    BY <1>3, <1>7, <2>2
<1> QED
  BY <1>7, <1>8, <1>9 DEF seqs

\* The parts of a lowered program and their elements.
LEMMA LoweredParts ==
  ASSUME NEW source, Proper(source), Writable(source), NEW strata \in StrataOrders(source)
  PROVE  LET code == LowerToRam(source, strata)
         IN  /\ IsSeq(code) /\ Len(code) # 0
             /\ code[1] = Sources(source.edb)
             /\ \A i \in 2..Len(code) : IsAfterSources(code[i], source)
<1> DEFINE sources == <<Sources(source.edb)>>
           body == FlattenSeq(LoweredStrata(strata))
           inputs == FlattenSeq(ForEach(source.edb, MergeInput))
           purges == ForEach(source.idb, LAMBDA r : Purge(Key(r, "Delta")))
           code == LowerToRam(source, strata)
           Rest(p) == IsSeq(p) /\ \A s \in ToSet(p) : IsAfterSources(s, source)
<1>1. code = sources \o body \o inputs \o purges
  BY DEF LowerToRam, LoweredStrata
<1>2. IsFiniteSet(source.edb) /\ IsFiniteSet(source.idb)
  BY FS_Subset DEF Proper
<1>3. Rest(body)
  <2> DEFINE seqs == LoweredStrata(strata)
  <2>1. IsSeq(seqs) /\ Len(seqs) = Len(strata)
    BY LoweredStrataParts
  <2>2. ASSUME NEW i \in 1..Len(seqs) PROVE \E c \in Components(source) : IsStratum(seqs[i], c)
    BY <2>1, <2>2, LoweredStrataParts
  <2> HIDE DEF seqs
  <2>3. /\ IsSeq(FlattenSeq(seqs))
        /\ \A x \in ToSet(FlattenSeq(seqs)) : \E i \in 1..Len(seqs) : x \in ToSet(seqs[i])
    BY <2>1, <2>2, FlattenRange DEF IsStratum
  <2>4. ASSUME NEW s \in ToSet(FlattenSeq(seqs)) PROVE IsAfterSources(s, source)
    <3>1. PICK i \in 1..Len(seqs) : s \in ToSet(seqs[i])
      BY <2>3
    <3>2. PICK c \in Components(source) : IsStratum(seqs[i], c)
      BY <2>2
    <3> QED
      BY <3>1, <3>2 DEF IsStratum, IsAfterSources
  <2> QED
    BY <2>3, <2>4 DEF seqs
<1>4. Rest(inputs)
  BY <1>2, MergeInputsParts DEF IsAfterSources
<1>5. Rest(purges)
  <2>1. IsSeq(purges) /\ ToSet(purges) = {Purge(Key(r, "Delta")) : r \in source.idb}
    BY <1>2, PurgesParts
  <2> HIDE DEF purges
  <2> QED
    BY <2>1 DEF IsAfterSources
<1>6. IsSeq(sources) /\ Len(sources) = 1 /\ sources[1] = Sources(source.edb)
  BY SeqOne
<1> DEFINE rest == body \o inputs \o purges
<1> HIDE DEF sources, body, inputs, purges, code
<1>7. Rest(body \o inputs)
  BY <1>3, <1>4, SeqConcat
<1>8. Rest(rest)
  BY <1>5, <1>7, SeqConcat
<1>9. /\ IsSeq(code) /\ Len(code) = Len(body) + Len(inputs) + Len(purges) + 1
      /\ code[1] = sources[1]
      /\ Len(body) \in Nat /\ Len(inputs) \in Nat /\ Len(purges) \in Nat
      /\ \A i \in 2..Len(code) : code[i] \in ToSet(body) \cup ToSet(inputs) \cup ToSet(purges)
  <2>1. /\ Len(sources) = 1 /\ Len(body) \in Nat /\ Len(inputs) \in Nat /\ Len(purges) \in Nat
    BY <1>3, <1>4, <1>5, <1>6, SeqParts
  <2> DEFINE a == sources \o body
             b == a \o inputs
  <2>2. /\ IsSeq(a) /\ Len(a) = Len(sources) + Len(body)
        /\ \A i \in 1..Len(sources) : a[i] = sources[i]
        /\ \A i \in 1..Len(body) : a[Len(sources) + i] = body[i]
    <3>1. IsSeq(sources) /\ IsSeq(body)
      BY <1>3, <1>6
    <3> QED
      BY <3>1, SeqConcat
  <2> HIDE DEF a
  <2>3. /\ IsSeq(b) /\ Len(b) = Len(a) + Len(inputs)
        /\ \A i \in 1..Len(a) : b[i] = a[i]
        /\ \A i \in 1..Len(inputs) : b[Len(a) + i] = inputs[i]
    BY <1>4, <2>2, SeqConcat
  <2> HIDE DEF b
  <2>4. code = b \o purges
    BY <1>1 DEF a, b
  <2>5. /\ IsSeq(code) /\ Len(code) = Len(b) + Len(purges)
        /\ \A i \in 1..Len(b) : code[i] = b[i]
        /\ \A i \in 1..Len(purges) : code[Len(b) + i] = purges[i]
    <3>1. IsSeq(b) /\ IsSeq(purges)
      BY <1>5, <2>3
    <3> QED
      BY <2>4, <3>1, SeqConcat
  <2>6. ASSUME NEW i \in 2..Len(code)
        PROVE  code[i] \in ToSet(body) \cup ToSet(inputs) \cup ToSet(purges)
    <3>1. CASE i <= 1 + Len(body)
      <4>1. i - 1 \in 1..Len(body) /\ Len(sources) + (i - 1) = i /\ i \in 1..Len(a) /\ i \in 1..Len(b)
        BY <2>1, <2>2, <2>3, <3>1
      <4>2. code[i] = body[i - 1]
        BY <2>2, <2>3, <2>5, <4>1
      <4>3. body[i - 1] \in ToSet(body)
        BY <1>3, <4>1, SeqParts
      <4> QED
        BY <4>2, <4>3
    <3>2. CASE i > Len(a) /\ i <= Len(b)
      <4>1. i - Len(a) \in 1..Len(inputs) /\ Len(a) + (i - Len(a)) = i /\ i \in 1..Len(b)
        BY <2>1, <2>2, <2>3, <3>2
      <4>2. code[i] = inputs[i - Len(a)]
        BY <2>3, <2>5, <4>1
      <4>3. inputs[i - Len(a)] \in ToSet(inputs)
        BY <1>4, <4>1, SeqParts
      <4> QED
        BY <4>2, <4>3
    <3>3. CASE i > Len(b)
      <4>1. i - Len(b) \in 1..Len(purges) /\ Len(b) + (i - Len(b)) = i
        BY <2>1, <2>2, <2>3, <2>5, <3>3
      <4>2. code[i] = purges[i - Len(b)]
        BY <2>5, <4>1
      <4>3. purges[i - Len(b)] \in ToSet(purges)
        BY <1>5, <4>1, SeqParts
      <4> QED
        BY <4>2, <4>3
    <3> QED
      BY <2>1, <2>2, <2>3, <3>1, <3>2, <3>3
  <2>7. code[1] = sources[1]
    BY <2>1, <2>2, <2>3, <2>5
  <2> QED
    BY <2>1, <2>2, <2>3, <2>5, <2>6, <2>7
<1>10. \A i \in 2..Len(code) : IsAfterSources(code[i], source)
  BY <1>3, <1>4, <1>5, <1>9
<1> QED
  BY <1>6, <1>9, <1>10 DEF code

-----------------------------------------------------------------------------
(* Lowered programs are well-formed and do not wait for themselves.         *)

\* An insert searches no relation it fills.
LockFree(s) ==
  s.op = "insert" => \A row \in s.rows : \A q \in row.search : <<q[1].rel, q[2]>> # s.into

\* The statements of a stratum are those the machine knows.
LEMMA IsOfSimple ==
  ASSUME NEW c, c \subseteq Relations, NEW s, IsOf(s, c)
  PROVE  SimpleStatement(s) /\ LockFree(s) /\ s.op # "sources" /\ s.op # "loop"
<1>0. \A r \in c, v \in Versions : Key(r, v) \in Keys /\ Key(r, v)[1] = r /\ Key(r, v)[2] = v
  BY DEF Key, Keys
<1>1. CASE \E r \in c : IsInsert(s, r, "Delta") \/ IsInsert(s, r, "New")
  <2>1. PICK r \in c, v \in {"Delta", "New"} : IsInsert(s, r, v)
    BY <1>1
  <2>2. Key(r, v) \in Keys /\ Key(r, v)[1] = r
    BY <1>0 DEF Versions
  <2> QED
    BY <2>1, <2>2 DEF IsInsert, SimpleStatement, LockFree
<1>2. CASE \E r \in c : s = Merge(Key(r, "Delta"), Key(r, "Total"))
  <2>1. PICK r \in c : s = [op |-> "merge", from |-> Key(r, "Delta"), into |-> Key(r, "Total")]
    BY <1>2 DEF Merge
  <2>2. s.op = "merge" /\ s.from = Key(r, "Delta") /\ s.into = Key(r, "Total")
    BY <2>1
  <2> QED
    BY <1>0, <2>2 DEF SimpleStatement, LockFree, Versions
<1>3. CASE \E r \in c : s = Merge(Key(r, "Total"), Key(r, "Delta"))
  <2>1. PICK r \in c : s = [op |-> "merge", from |-> Key(r, "Total"), into |-> Key(r, "Delta")]
    BY <1>3 DEF Merge
  <2>2. s.op = "merge" /\ s.from = Key(r, "Total") /\ s.into = Key(r, "Delta")
    BY <2>1
  <2> QED
    BY <1>0, <2>2 DEF SimpleStatement, LockFree, Versions
<1>4. CASE \E r \in c : s = Purge(Key(r, "New"))
  <2>1. PICK r \in c : s = [op |-> "purge", key |-> Key(r, "New")]
    BY <1>4 DEF Purge
  <2>2. s.op = "purge" /\ s.key = Key(r, "New")
    BY <2>1
  <2> QED
    BY <1>0, <2>2 DEF SimpleStatement, LockFree, Versions
<1>5. CASE \E r \in c : s = Swap(Key(r, "New"), Key(r, "Delta"))
  <2>1. PICK r \in c : s = [op |-> "swap", left |-> Key(r, "New"), right |-> Key(r, "Delta")]
    BY <1>5 DEF Swap
  <2>2. s.op = "swap" /\ s.left = Key(r, "New") /\ s.right = Key(r, "Delta")
    BY <2>1
  <2> QED
    BY <1>0, <2>2 DEF SimpleStatement, LockFree, Versions
<1>6. CASE s = Sinks(c)
  <2>1. s.op = "sinks" /\ s.relations = c
    BY <1>6 DEF Sinks
  <2> QED
    BY <2>1 DEF SimpleStatement, LockFree
<1>7. CASE s = Exit({Key(r, "New") : r \in c})
  <2>1. s.op = "exit" /\ s.keys = {Key(r, "New") : r \in c}
    BY <1>7 DEF Exit
  <2> QED
    BY <1>0, <2>1 DEF SimpleStatement, LockFree, Versions
<1> QED
  BY <1>1, <1>2, <1>3, <1>4, <1>5, <1>6, <1>7 DEF IsOf

\* What the machine needs of a program: its relations and its facts exist.
Fits(source) ==
  /\ Proper(source)
  /\ source.edb \cup source.idb \subseteq Relations
  /\ Writable(source)

\* The statements after the sources are those the machine knows.
LEMMA AfterSourcesSimple ==
  ASSUME NEW source, Fits(source), NEW s, IsAfterSources(s, source)
  PROVE  /\ s.op # "sources" /\ s.op # "exit"
         /\ s.op # "loop" => SimpleStatement(s) /\ LockFree(s)
         /\ s.op = "loop" =>
              /\ Len(s.body) \in Nat \ {0}
              /\ \A j \in 1..Len(s.body) :
                   SimpleStatement(s.body[j]) /\ LockFree(s.body[j]) /\ s.body[j].op # "sources"
<1>1. \A c \in Components(source) : c \subseteq Relations
  BY ComponentOutputs DEF Fits
<1>2. CASE \E c \in Components(source) : IsOf(s, c) /\ s.op # "exit"
  BY <1>1, <1>2, IsOfSimple
<1>3. CASE \E c \in Components(source) : IsLoopOf(s, c)
  <2>1. PICK c \in Components(source) : IsLoopOf(s, c)
    BY <1>3
  <2>2. s.op = "loop"
    BY <2>1 DEF IsLoopOf, Loop
  <2>3. IsSeq(s.body) /\ Len(s.body) \in Nat \ {0} /\ \A j \in 1..Len(s.body) : IsOf(s.body[j], c)
    BY <2>1, SeqParts DEF IsLoopOf, AllOf
  <2>4. ASSUME NEW j \in 1..Len(s.body)
        PROVE  SimpleStatement(s.body[j]) /\ LockFree(s.body[j]) /\ s.body[j].op # "sources"
    BY <1>1, <2>3, IsOfSimple
  <2> QED
    BY <2>2, <2>3, <2>4
<1>4. ASSUME NEW r \in source.edb, s = Merge(Key(r, "Delta"), Key(r, "Total"))
      PROVE  SimpleStatement(s) /\ LockFree(s) /\ s.op = "merge"
  <2>1. IsOf(s, {r})
    BY <1>4 DEF IsOf
  <2>2. {r} \subseteq Relations
    BY DEF Fits
  <2> QED
    BY <1>4, <2>1, <2>2, IsOfSimple, Operations
<1>5. ASSUME NEW r \in source.edb \cup source.idb, s = Purge(Key(r, "Delta"))
      PROVE  SimpleStatement(s) /\ LockFree(s) /\ s.op = "purge"
  <2>1. s.op = "purge" /\ s.key = <<r, "Delta">>
    BY <1>5 DEF Purge, Key
  <2>2. <<r, "Delta">> \in Keys
    BY DEF Fits, Keys, Versions
  <2> QED
    BY <2>1, <2>2 DEF SimpleStatement, LockFree
<1> QED
  BY <1>2, <1>3, <1>4, <1>5 DEF IsAfterSources

\* The lowering of every program that the builder accepts, in whatever order
\* its strata come, is well-formed: it starts with its sources and has none
\* elsewhere, its loops are neither nested nor empty, exits are in loops,
\* facts stay in their relation, and nothing is taken out of Total
\* (lower_to_ram.rs).  So what is proved of the machine for well-formed
\* programs holds of it for whatever the compiler gives it.
THEOREM LoweredIsWellFormed ==
  ASSUME NEW source, Fits(source), NEW strata \in StrataOrders(source)
  PROVE  WellFormed(LowerToRam(source, strata))
<1> DEFINE code == LowerToRam(source, strata)
<1>1. /\ IsSeq(code) /\ Len(code) # 0 /\ code[1] = Sources(source.edb)
      /\ \A i \in 2..Len(code) : IsAfterSources(code[i], source)
  BY LoweredParts DEF Fits
<1> HIDE DEF code
<1>2. Len(code) \in Nat \ {0}
  BY <1>1, SeqParts
<1>3. code[1].op = "sources" /\ SimpleStatement(code[1])
  <2>1. code[1].op = "sources" /\ code[1].relations = source.edb
    BY <1>1 DEF Sources
  <2> QED
    BY <2>1 DEF SimpleStatement, Fits
<1>4. ASSUME NEW i \in 2..Len(code)
      PROVE  /\ code[i].op # "sources" /\ code[i].op # "exit"
             /\ code[i].op # "loop" => SimpleStatement(code[i])
             /\ code[i].op = "loop" =>
                  /\ Len(code[i].body) \in Nat \ {0}
                  /\ \A j \in 1..Len(code[i].body) :
                       SimpleStatement(code[i].body[j]) /\ code[i].body[j].op # "sources"
  BY <1>1, AfterSourcesSimple
<1>5. \A i \in 1..Len(code) : i = 1 \/ i \in 2..Len(code)
  BY <1>2
<1>6. WellFormed(code)
  <2> SUFFICES ASSUME NEW i \in 1..Len(code)
               PROVE  /\ code[i].op = "sources" => i = 1
                      /\ code[i].op # "loop" => SimpleStatement(code[i]) /\ code[i].op # "exit"
                      /\ code[i].op = "loop" =>
                           /\ Len(code[i].body) \in Nat \ {0}
                           /\ \A j \in 1..Len(code[i].body) :
                                SimpleStatement(code[i].body[j]) /\ code[i].body[j].op # "sources"
    BY <1>2, <1>3 DEF WellFormed
  <2>1. CASE i = 1
    BY <1>3, <2>1
  <2>2. CASE i \in 2..Len(code)
    BY <1>4, <2>2
  <2> QED
    BY <1>5, <2>1, <2>2
<1> QED
  BY <1>6 DEF code

\* The programs of the machine are such programs.
LEMMA ProgramsFit ==
  ASSUME NEW n \in DOMAIN Programs
  PROVE  /\ n \in DOMAIN Ast /\ Fits(Ast[n].source) /\ Ast[n].strata \in StrataOrders(Ast[n].source)
         /\ Programs[n] = LowerToRam(Ast[n].source, Ast[n].strata)
BY LoweredAssumption DEF Fits, Writable

\* No statement that the machine runs searches the relation it fills, for which
\* it would have to wait for its own read lock (search.rs, project.rs): the
\* rules that fill New search Delta and Total, and those that fill Delta are
\* the ones that do not read their own stratum (lower_to_ram.rs: is_dynamic,
\* the two kinds of strata).
THEOREM NeverWaitsForItself == Spec => []NoSelfLock
<1>1. IInv => NoSelfLock
  <2> SUFFICES ASSUME IInv, phase = "epoch", Current.op = "insert" PROVE LockFree(Current)
    BY DEF NoSelfLock, LockFree
  <2> DEFINE source == Ast[program].source
  <2>1. program \in DOMAIN Programs
    BY DEF IInv, TypeOK
  <2>2. /\ Fits(source) /\ Ast[program].strata \in StrataOrders(source)
        /\ Code = LowerToRam(source, Ast[program].strata)
    BY <2>1, ProgramsFit DEF Code
  <2>3. /\ Code[1] = Sources(source.edb)
        /\ \A i \in 2..Len(Code) : IsAfterSources(Code[i], source)
    BY <2>2, LoweredParts DEF Fits
  <2>4. Len(Code) \in Nat /\ pc.outer + 1 \in 1..Len(Code)
    BY AtStatement
  <2>5. CASE pc.outer + 1 = 1
    <3>1. Outer.op = "sources"
      BY <2>3, <2>5 DEF Outer, Sources
    <3> QED
      BY <3>1 DEF Current
  <2>6. CASE pc.outer + 1 # 1
    <3>1. IsAfterSources(Outer, source)
      BY <2>3, <2>4, <2>6 DEF Outer
    <3>2. CASE Outer.op # "loop"
      BY <2>2, <3>1, <3>2, AfterSourcesSimple DEF Current
    <3>3. CASE Outer.op = "loop"
      <4>1. pc.inner + 1 \in 1..Len(Outer.body)
        BY <3>3, AtStatement
      <4> QED
        BY <2>2, <3>1, <3>3, <4>1, AfterSourcesSimple DEF Current
    <3> QED
      BY <3>2, <3>3
  <2> QED
    BY <2>5, <2>6
<1> QED
  BY Invariance, <1>1, PTL

-----------------------------------------------------------------------------
(* Labels: what is known of a relation between two statements.  A label has *)
(* three parts: how what was written to the output (S) is related to the    *)
(* Total (T) and the Delta (D) of the relation, and whether Delta and New    *)
(* are known to be empty.                                                    *)

\* The facts of a relation that were written to the output.
Written(r) == {f \in Facts : f.rel = r /\ sunk[f] # <<>>}

\* silent: nothing was written.  closed: all that is known, and nothing else.
\* open: Delta may hold facts that are in one and not in the other.  merged:
\* Total has them already.  sunk: the output has them already.  fed: both have.
EmitHolds(e, S, T, D) ==
  /\ e = "silent" => S = {}
  /\ e = "closed" => S = T
  /\ e = "open"   => S \subseteq T /\ T \subseteq S \cup D
  /\ e = "merged" => S \subseteq T /\ T \subseteq S \cup D /\ D \subseteq T
  /\ e = "sunk"   => T \subseteq S /\ S \subseteq T \cup D /\ D \subseteq S
  /\ e = "fed"    => S = T /\ D \subseteq T

Label(e, d, n) == [emit |-> e, delta |-> d, new |-> n]

Holds(l, r) ==
  /\ EmitHolds(l.emit, Written(r), rel[<<r, "Total">>], rel[<<r, "Delta">>])
  /\ l.delta = "clean" => rel[<<r, "Delta">>] = {}
  /\ l.new = "clean" => rel[<<r, "New">>] = {}

\* Whatever l says, m says no more.
Covers(m, l) ==
  /\ \/ m.emit = l.emit
     \/ m.emit = "open" /\ l.emit \in {"closed", "merged", "fed"}
     \/ m.emit = "closed" /\ l.emit = "fed"
  /\ m.delta = "clean" => l.delta = "clean"
  /\ m.new = "clean" => l.new = "clean"

\* What holds of a label's relation holds of a label that covers it.
LEMMA CoversHolds ==
  ASSUME NEW l, NEW m, Covers(m, l), NEW S, NEW T, NEW D, EmitHolds(l.emit, S, T, D)
  PROVE  EmitHolds(m.emit, S, T, D)
<1>1. CASE m.emit = l.emit
  BY <1>1
<1>2. CASE m.emit = "open" /\ l.emit \in {"closed", "merged", "fed"}
  BY <1>2 DEF EmitHolds
<1>3. CASE m.emit = "closed" /\ l.emit = "fed"
  BY <1>3 DEF EmitHolds
<1> QED
  BY <1>1, <1>2, <1>3 DEF Covers

\* To cover is a preorder.
LEMMA CoversOrder ==
  /\ \A l : Covers(l, l)
  /\ \A k, l, m : Covers(l, k) /\ Covers(m, l) => Covers(m, k)
BY DEF Covers

\* What a statement does to a version of a relation.
Fills(s, key) ==
  \/ s.op \in {"insert", "merge"} /\ s.into = key
  \/ s.op = "sources" /\ key[2] = "Delta" /\ key[1] \in s.relations
Empties(s, key)    == s.op = "purge" /\ s.key = key
Swaps(s, key)      == s.op = "swap" /\ (s.left = key \/ s.right = key)
Changes(s, key)    == Fills(s, key) \/ Empties(s, key) \/ Swaps(s, key)
MergesDelta(s, r)  == s.op = "merge" /\ s.from = <<r, "Delta">> /\ s.into = <<r, "Total">>
Emits(s, r)        == s.op = "sinks" /\ r \in s.relations

\* The label after a statement.
ScratchAfter(x, s, key) ==
  IF Empties(s, key) THEN "clean" ELSE IF Changes(s, key) THEN "dirty" ELSE x

EmitAfter(e, s, r) ==
  IF Emits(s, r)
  THEN IF e \in {"closed", "open"} THEN "sunk" ELSE IF e \in {"merged", "fed"} THEN "fed" ELSE "lost"
  ELSE IF MergesDelta(s, r)
  THEN IF e \in {"closed", "open", "merged"} THEN "merged" ELSE IF e \in {"sunk", "fed"} THEN "fed" ELSE e
  ELSE IF Changes(s, <<r, "Total">>)
  THEN IF e = "silent" THEN e ELSE "lost"
  ELSE IF Changes(s, <<r, "Delta">>)
  THEN IF e = "silent" THEN e ELSE IF e \in {"closed", "fed"} THEN "closed" ELSE "lost"
  ELSE e

After(l, s, r) ==
  Label(EmitAfter(l.emit, s, r),
        ScratchAfter(l.delta, s, <<r, "Delta">>),
        ScratchAfter(l.new, s, <<r, "New">>))

\* The label when a loop is left by an exit: the versions it looks at are empty.
Leaving(l, s, r) ==
  Label(l.emit,
        IF <<r, "Delta">> \in s.keys THEN "clean" ELSE l.delta,
        IF <<r, "New">> \in s.keys THEN "clean" ELSE l.new)

\* The parts of a label.
LEMMA LabelParts ==
  \A e, d, n : Label(e, d, n).emit = e /\ Label(e, d, n).delta = d /\ Label(e, d, n).new = n
BY DEF Label

\* A statement leaves a version alone that it does not change.
LEMMA Unchanging ==
  ASSUME IInv, Step, NEW r \in Relations, NEW v \in Versions, ~ Changes(Current, <<r, v>>)
  PROVE  rel'[<<r, v>>] = rel[<<r, v>>]
<1> DEFINE key == <<r, v>>
<1>1. key \in Keys /\ rel \in [Keys -> SUBSET Facts] /\ key[1] = r /\ key[2] = v
  BY DEF Keys, IInv, TypeOK
<1> HIDE DEF key
<1>2. CASE HandleSources
  <2>1. rel'[key] = IF key[2] = "Delta" THEN rel[key] \cup Given(key[1]) ELSE rel[key]
    BY <1>1, <1>2 DEF HandleSources
  <2>2. Current.op = "sources"
    BY <1>2 DEF HandleSources, At
  <2>3. CASE key[2] = "Delta"
    <3>1. r \notin Current.relations
      BY <1>1, <2>2, <2>3 DEF Changes, Fills, key
    <3>2. Outer.op # "loop"
      BY <2>2, AtStatement DEF Current, WellFormed, Outer
    <3>3. Current = Code[1]
      BY <2>2, <3>2, AtStatement DEF Current, WellFormed, Outer
    <3>4. \A i \in DOMAIN input : input[i].rel \in Current.relations
      <4>1. input \in Seq(Facts)
        BY DEF IInv, TypeOK
      <4>2. DOMAIN input = 1..Len(input)
        BY <4>1
      <4> QED
        BY <3>3, <4>2 DEF IInv, Control, InputOK
    <3>5. Given(r) = {}
      BY <3>1, <3>4 DEF Given
    <3> QED
      BY <1>1, <2>1, <3>5 DEF key
  <2> QED
    BY <2>1, <2>3 DEF key
<1>3. CASE HandleInsert
  <2>1. Current.op = "insert" /\ Current.into \in Keys
    BY <1>3, AtStatement DEF HandleInsert, At, SimpleStatement
  <2>2. Current.into # key
    BY <2>1 DEF Changes, Fills, key
  <2>3. \A more : [rel EXCEPT ![Current.into] = @ \cup more][key] = rel[key]
    BY <1>1, <2>1, <2>2
  <2>4. rel'[key] = rel[key]
    BY <1>3, <2>3 DEF HandleInsert
  <2> QED
    BY <2>4 DEF key
<1>4. CASE HandleMerge
  <2>1. Current.op = "merge" /\ Current.into \in Keys
    BY <1>4, AtStatement DEF HandleMerge, At, SimpleStatement
  <2>2. Current.into # key
    BY <2>1 DEF Changes, Fills, key
  <2> QED
    BY <1>1, <1>4, <2>1, <2>2 DEF HandleMerge, key
<1>5. CASE HandleSwap
  <2>1. Current.op = "swap" /\ Current.left \in Keys /\ Current.right \in Keys
    BY <1>5, AtStatement DEF HandleSwap, At, SimpleStatement
  <2>2. Current.left # key /\ Current.right # key
    BY <2>1 DEF Changes, Swaps, key
  <2> QED
    BY <1>1, <1>5, <2>1, <2>2 DEF HandleSwap, key
<1>6. CASE HandlePurge
  <2>1. Current.op = "purge" /\ Current.key \in Keys
    BY <1>6, AtStatement DEF HandlePurge, At, SimpleStatement
  <2>2. Current.key # key
    BY <2>1 DEF Changes, Empties, key
  <2> QED
    BY <1>1, <1>6, <2>1, <2>2 DEF HandlePurge, key
<1>7. CASE HandleExit \/ HandleSinks
  BY <1>7 DEF HandleExit, HandleSinks, store, key
<1> QED
  BY <1>2, <1>3, <1>4, <1>5, <1>6, <1>7 DEF Step

\* What a purge empties is empty.
LEMMA Emptying ==
  ASSUME IInv, Step, NEW r \in Relations, NEW v \in Versions, Empties(Current, <<r, v>>)
  PROVE  rel'[<<r, v>>] = {}
<1>1. HandlePurge
  <2>1. Current.op = "purge"
    BY DEF Empties
  <2>2. Current.op # "sources" /\ Current.op # "insert" /\ Current.op # "merge"
        /\ Current.op # "swap" /\ Current.op # "exit" /\ Current.op # "sinks"
    BY <2>1
  <2> QED
    BY <2>2 DEF Step, At, HandleSources, HandleInsert, HandleMerge, HandleSwap, HandleExit, HandleSinks
<1>2. <<r, v>> \in Keys /\ rel \in [Keys -> SUBSET Facts]
  BY DEF Keys, IInv, TypeOK
<1> QED
  BY <1>1, <1>2 DEF HandlePurge, Empties

\* Only the sinks of a relation write to the output, and they write its Delta.
LEMMA Writing ==
  ASSUME IInv, Step, NEW r \in Relations
  PROVE  /\ ~ Emits(Current, r) => Written(r)' = Written(r)
         /\ Emits(Current, r) => /\ Written(r)' = Written(r) \cup rel[<<r, "Delta">>]
                                 /\ rel' = rel
<1>1. CASE HandleSinks
  <2> DEFINE batch == UNION {rel[<<q, "Delta">>] : q \in Current.relations}
             D == rel[<<r, "Delta">>]
  <2>1. Current.op = "sinks" /\ Current.relations \subseteq Relations
    BY <1>1, AtStatement DEF HandleSinks, At, SimpleStatement
  <2>2. \A q \in Relations : <<q, "Delta">> \in Keys
    BY DEF Keys, Versions
  <2>3. \A q \in Relations : rel[<<q, "Delta">>] \subseteq Facts /\ \A f \in rel[<<q, "Delta">>] : f.rel = q
    <3>1. rel \in [Keys -> SUBSET Facts] /\ \A k \in Keys : \A f \in rel[k] : f.rel = k[1]
      BY DEF IInv, TypeOK
    <3> QED
      BY <2>2, <3>1
  <2>4. \A f \in Facts : sunk'[f] = IF f \in batch THEN Append(sunk[f], timestamp.epoch) ELSE sunk[f]
    BY <1>1 DEF HandleSinks
  <2>5. \A f \in Facts : sunk[f] \in Seq(0..(TimestampMod - 1)) /\ timestamp.epoch \in 0..(TimestampMod - 1)
    BY DEF IInv, TypeOK
  <2>6. \A f \in Facts : f.rel = r => (f \in batch <=> r \in Current.relations /\ f \in D)
    BY <2>1, <2>3
  <2> HIDE DEF batch
  <2>7. \A f \in Facts : sunk'[f] # <<>> <=> sunk[f] # <<>> \/ f \in batch
    <3> SUFFICES ASSUME NEW f \in Facts PROVE sunk'[f] # <<>> <=> sunk[f] # <<>> \/ f \in batch
      OBVIOUS
    <3>1. Append(sunk[f], timestamp.epoch) # <<>>
      BY <2>5
    <3> QED
      BY <2>4, <3>1
  <2>8. D \subseteq Facts /\ \A f \in D : f.rel = r
    BY <2>3
  <2> HIDE DEF D
  <2>9. r \in Current.relations => Written(r)' = Written(r) \cup D
    BY <2>6, <2>7, <2>8 DEF Written
  <2>10. r \notin Current.relations => Written(r)' = Written(r)
    BY <2>6, <2>7 DEF Written
  <2>11. rel' = rel
    BY <1>1 DEF HandleSinks
  <2> QED
    BY <2>1, <2>9, <2>10, <2>11 DEF Emits, D
<1>2. CASE ~ HandleSinks
  <2>1. Current.op # "sinks" /\ sunk' = sunk
    <3>1. CASE HandleSources \/ HandleInsert \/ HandleMerge \/ HandleSwap \/ HandlePurge
      BY <3>1 DEF HandleSources, HandleInsert, HandleMerge, HandleSwap, HandlePurge, At
    <3>2. CASE HandleExit
      BY <3>2 DEF HandleExit, At, store
    <3> QED
      BY <1>2, <3>1, <3>2 DEF Step
  <2> QED
    BY <2>1 DEF Emits, Written
<1> QED
  BY <1>1, <1>2

\* After a statement its label holds.
LEMMA AfterHolds ==
  ASSUME IInv, Step, NEW r \in Relations, NEW l, Holds(l, r), NEW m, m = After(l, Current, r)
  PROVE  Holds(m, r)'
<1> DEFINE s == Current
           S == Written(r)
           T == rel[<<r, "Total">>]
           D == rel[<<r, "Delta">>]
<1>0. /\ m.emit = EmitAfter(l.emit, s, r)
      /\ m.delta = ScratchAfter(l.delta, s, <<r, "Delta">>)
      /\ m.new = ScratchAfter(l.new, s, <<r, "New">>)
  BY LabelParts DEF After
<1>1. m.delta = "clean" => rel'[<<r, "Delta">>] = {}
  <2>1. "Delta" \in Versions /\ "clean" # "dirty"
    BY DEF Versions
  <2> QED
    BY <1>0, <2>1, Unchanging, Emptying DEF ScratchAfter, Holds
<1>2. m.new = "clean" => rel'[<<r, "New">>] = {}
  <2>1. "New" \in Versions /\ "clean" # "dirty"
    BY DEF Versions
  <2> QED
    BY <1>0, <2>1, Unchanging, Emptying DEF ScratchAfter, Holds
<1>3. /\ ~ Changes(s, <<r, "Total">>) => T' = T
      /\ ~ Changes(s, <<r, "Delta">>) => D' = D
  BY Unchanging DEF Versions
<1>4. EmitHolds(l.emit, S, T, D)
  BY DEF Holds
<1>5. EmitHolds(EmitAfter(l.emit, s, r), S', T', D')
  <2>1. CASE Emits(s, r)
    <3>1. S' = S \cup D /\ T' = T /\ D' = D
      BY <2>1, Writing
    <3>2. EmitAfter(l.emit, s, r) = IF l.emit \in {"closed", "open"} THEN "sunk"
                                    ELSE IF l.emit \in {"merged", "fed"} THEN "fed" ELSE "lost"
      BY <2>1 DEF EmitAfter
    <3> HIDE DEF S, T, D, s
    <3> QED
      BY <1>4, <3>1, <3>2 DEF EmitHolds
  <2>2. CASE ~ Emits(s, r) /\ MergesDelta(s, r)
    <3>1. S' = S
      BY <2>2, Writing
    <3>2. HandleMerge
      <4>1. s.op = "merge"
        BY <2>2 DEF MergesDelta
      <4>2. s.op # "sources" /\ s.op # "insert" /\ s.op # "purge"
            /\ s.op # "swap" /\ s.op # "exit" /\ s.op # "sinks"
        BY <4>1
      <4> QED
        BY <4>2 DEF Step, At, HandleSources, HandleInsert, HandlePurge, HandleSwap, HandleExit, HandleSinks
    <3>3. T' = T \cup D /\ D' = D
      <4>1. /\ <<r, "Total">> \in Keys /\ <<r, "Delta">> \in Keys /\ rel \in [Keys -> SUBSET Facts]
            /\ <<r, "Total">> # <<r, "Delta">>
        BY DEF Keys, Versions, IInv, TypeOK
      <4> QED
        BY <2>2, <3>2, <4>1 DEF MergesDelta, HandleMerge
    <3>4. EmitAfter(l.emit, s, r) = IF l.emit \in {"closed", "open", "merged"} THEN "merged"
                                    ELSE IF l.emit \in {"sunk", "fed"} THEN "fed" ELSE l.emit
      BY <2>2 DEF EmitAfter
    <3> HIDE DEF S, T, D, s
    <3> QED
      BY <1>4, <3>1, <3>3, <3>4 DEF EmitHolds
  <2>3. CASE ~ Emits(s, r) /\ ~ MergesDelta(s, r) /\ Changes(s, <<r, "Total">>)
    <3>1. S' = S
      BY <2>3, Writing
    <3>2. EmitAfter(l.emit, s, r) = IF l.emit = "silent" THEN l.emit ELSE "lost"
      BY <2>3 DEF EmitAfter
    <3> HIDE DEF S, T, D, s
    <3> QED
      BY <1>4, <3>1, <3>2 DEF EmitHolds
  <2>4. CASE ~ Emits(s, r) /\ ~ MergesDelta(s, r) /\ ~ Changes(s, <<r, "Total">>)
             /\ Changes(s, <<r, "Delta">>)
    <3>1. S' = S /\ T' = T
      BY <1>3, <2>4, Writing
    <3>2. EmitAfter(l.emit, s, r) = IF l.emit = "silent" THEN l.emit
                                    ELSE IF l.emit \in {"closed", "fed"} THEN "closed" ELSE "lost"
      BY <2>4 DEF EmitAfter
    <3> HIDE DEF S, T, D, s
    <3> QED
      BY <1>4, <3>1, <3>2 DEF EmitHolds
  <2>5. CASE ~ Emits(s, r) /\ ~ MergesDelta(s, r) /\ ~ Changes(s, <<r, "Total">>)
             /\ ~ Changes(s, <<r, "Delta">>)
    <3>1. S' = S /\ T' = T /\ D' = D
      BY <1>3, <2>5, Writing
    <3>2. EmitAfter(l.emit, s, r) = l.emit
      BY <2>5 DEF EmitAfter
    <3> HIDE DEF S, T, D, s
    <3> QED
      BY <1>4, <3>1, <3>2
  <2> QED
    BY <2>1, <2>2, <2>3, <2>4, <2>5
<1>6. EmitHolds(m.emit, S', T', D')
  BY <1>0, <1>5
<1> QED
  BY <1>1, <1>2, <1>6 DEF Holds

-----------------------------------------------------------------------------
(* Runs: labels between the statements of a sequence, each of which covers   *)
(* what the statement before it leaves.                                      *)

\* From l a statement leads to m, or out of its loop to out.
Passes(l, s, m, out, r) ==
  /\ Covers(m, After(l, s, r))
  /\ s.op = "exit" => Covers(out, Leaving(l, s, r))

\* B labels a loop that is entered from l and left to m.
IsLoop(B, body, l, m, r) ==
  /\ Covers(B[1], l) /\ Covers(B[1], B[Len(body) + 1])
  /\ \A j \in 1..Len(body) : Passes(B[j], body[j], B[j + 1], m, r)

Follows(l, s, m, out, r) ==
  IF s.op = "loop" THEN \E B : IsLoop(B, s.body, l, m, r) ELSE Passes(l, s, m, out, r)

IsRun(L, p, l, m, out, r) ==
  /\ L[1] = l /\ L[Len(p) + 1] = m
  /\ \A i \in 1..Len(p) : Follows(L[i], p[i], L[i + 1], out, r)

Runs(p, l, m, out, r) == \E L : IsRun(L, p, l, m, out, r)

\* A sequence none of whose statements changes the label.
LEMMA RunsStay ==
  ASSUME NEW p, IsSeq(p), NEW l, NEW out, NEW r,
         \A s \in ToSet(p) : Follows(l, s, l, out, r)
  PROVE  Runs(p, l, l, out, r)
<1> DEFINE L == [i \in 1..(Len(p) + 1) |-> l]
<1>1. Len(p) \in Nat /\ \A i \in 1..Len(p) : p[i] \in ToSet(p)
  BY SeqParts
<1>2. \A i \in 1..Len(p) : i \in 1..(Len(p) + 1) /\ i + 1 \in 1..(Len(p) + 1)
  BY <1>1
<1>3. 1 \in 1..(Len(p) + 1) /\ Len(p) + 1 \in 1..(Len(p) + 1)
  BY <1>1
<1>4. \A i \in 1..(Len(p) + 1) : L[i] = l
  OBVIOUS
<1> HIDE DEF L
<1>5. IsRun(L, p, l, l, out, r)
  BY <1>1, <1>2, <1>3, <1>4 DEF IsRun
<1> QED
  BY <1>5 DEF Runs

\* A sequence in which some statement changes the label from a to b, and every
\* other one keeps what it finds.
LEMMA RunsSwitch ==
  ASSUME NEW p, IsSeq(p), NEW a, NEW b, NEW out, NEW r,
         \A s \in ToSet(p) : Follows(a, s, a, out, r) \/ Follows(a, s, b, out, r),
         \A s \in ToSet(p) : Follows(b, s, b, out, r),
         \E s \in ToSet(p) : Follows(a, s, b, out, r)
  PROVE  Runs(p, a, b, out, r)
<1> DEFINE n == Len(p)
           Turned(i) == \E j \in 1..n : j < i /\ Follows(a, p[j], b, out, r)
           L == [i \in 1..(n + 1) |-> IF Turned(i) THEN b ELSE a]
<1>1. n \in Nat /\ \A i \in 1..n : p[i] \in ToSet(p)
  BY SeqParts
<1>2. \A i \in 1..n : i \in 1..(n + 1) /\ i + 1 \in 1..(n + 1) /\ i < i + 1 /\ i < n + 1
  BY <1>1
<1>3. 1 \in 1..(n + 1) /\ n + 1 \in 1..(n + 1)
  BY <1>1
<1>4. \A i \in 1..(n + 1) : L[i] = IF Turned(i) THEN b ELSE a
  OBVIOUS
<1>5. ~ Turned(1)
  BY <1>1
<1>6. Turned(n + 1)
  <2>1. PICK s \in ToSet(p) : Follows(a, s, b, out, r)
    OBVIOUS
  <2>2. PICK j \in 1..n : s = p[j]
    BY SeqParts
  <2> QED
    BY <1>2, <2>1, <2>2
<1>7. ASSUME NEW i \in 1..n PROVE Follows(L[i], p[i], L[i + 1], out, r)
  <2>1. CASE Turned(i)
    <3>1. Turned(i + 1)
      BY <1>1, <2>1
    <3>2. L[i] = b /\ L[i + 1] = b
      BY <1>2, <1>4, <2>1, <3>1
    <3> QED
      BY <1>1, <3>2
  <2>2. CASE ~ Turned(i) /\ Follows(a, p[i], b, out, r)
    <3>1. Turned(i + 1)
      BY <1>1, <2>2
    <3>2. L[i] = a /\ L[i + 1] = b
      BY <1>2, <1>4, <2>2, <3>1
    <3> QED
      BY <2>2, <3>2
  <2>3. CASE ~ Turned(i) /\ ~ Follows(a, p[i], b, out, r)
    <3>1. ~ Turned(i + 1)
      <4> SUFFICES ASSUME NEW j \in 1..n, j < i + 1, Follows(a, p[j], b, out, r) PROVE FALSE
        OBVIOUS
      <4>1. j < i \/ j = i
        BY <1>1
      <4> QED
        BY <2>3, <4>1
    <3>2. L[i] = a /\ L[i + 1] = a
      BY <1>2, <1>4, <2>3, <3>1
    <3> QED
      BY <1>1, <2>3, <3>2
  <2> QED
    BY <2>1, <2>2, <2>3
<1>8. L[1] = a /\ L[n + 1] = b
  BY <1>3, <1>4, <1>5, <1>6
<1> HIDE DEF L, Turned
<1>9. IsRun(L, p, a, b, out, r)
  BY <1>7, <1>8 DEF IsRun
<1> QED
  BY <1>9 DEF Runs

\* A statement by itself.
LEMMA RunsOne ==
  ASSUME NEW s, NEW l, NEW m, NEW out, NEW r, Follows(l, s, m, out, r)
  PROVE  Runs(<<s>>, l, m, out, r)
<1> DEFINE L == [i \in 1..2 |-> IF i = 1 THEN l ELSE m]
<1>1. L[1] = l /\ L[2] = m /\ Len(<<s>>) = 1 /\ <<s>>[1] = s
  OBVIOUS
<1> HIDE DEF L
<1>2. \A i \in 1..1 : i = 1 /\ i + 1 = 2
  OBVIOUS
<1>3. IsRun(L, <<s>>, l, m, out, r)
  BY <1>1, <1>2 DEF IsRun
<1> QED
  BY <1>3 DEF Runs

\* One run after another.
LEMMA RunsConcat ==
  ASSUME NEW p, NEW q, IsSeq(p), IsSeq(q), NEW l, NEW k, NEW m, NEW out, NEW r,
         Runs(p, l, k, out, r), Runs(q, k, m, out, r)
  PROVE  Runs(p \o q, l, m, out, r)
<1>1. PICK A : IsRun(A, p, l, k, out, r)
  BY DEF Runs
<1>2. PICK B : IsRun(B, q, k, m, out, r)
  BY DEF Runs
<1> DEFINE a == Len(p)
           b == Len(q)
           L == [i \in 1..(a + b + 1) |-> IF i <= a + 1 THEN A[i] ELSE B[i - a]]
<1>3. a \in Nat /\ b \in Nat
  BY SeqParts
<1>4. /\ Len(p \o q) = a + b
      /\ \A i \in 1..a : (p \o q)[i] = p[i]
      /\ \A i \in 1..b : (p \o q)[a + i] = q[i]
  BY SeqConcat
<1>5. \A i \in 1..(a + b + 1) : L[i] = IF i <= a + 1 THEN A[i] ELSE B[i - a]
  OBVIOUS
<1>6. A[1] = l /\ A[a + 1] = k /\ B[1] = k /\ B[b + 1] = m
  BY <1>1, <1>2 DEF IsRun
<1> HIDE DEF L
<1>7. \A j \in 1..(b + 1) : L[a + j] = B[j]
  <2> SUFFICES ASSUME NEW j \in 1..(b + 1) PROVE L[a + j] = B[j]
    OBVIOUS
  <2>1. /\ a + j \in 1..(a + b + 1) /\ (a + j) - a = j
        /\ (j = 1 => a + j = a + 1) /\ (j # 1 => ~ (a + j <= a + 1))
    BY <1>3
  <2> QED
    BY <1>5, <1>6, <2>1
<1>8. \A i \in 1..(a + 1) : L[i] = A[i]
  <2>1. \A i \in 1..(a + 1) : i \in 1..(a + b + 1) /\ i <= a + 1
    BY <1>3
  <2> QED
    BY <1>5, <2>1
<1>9. ASSUME NEW i \in 1..(a + b) PROVE Follows(L[i], (p \o q)[i], L[i + 1], out, r)
  <2>1. CASE i <= a
    <3>1. i \in 1..a /\ i \in 1..(a + 1) /\ i + 1 \in 1..(a + 1)
      BY <1>3, <2>1
    <3>2. Follows(A[i], p[i], A[i + 1], out, r)
      BY <1>1, <3>1 DEF IsRun
    <3> QED
      BY <1>4, <1>8, <3>1, <3>2
  <2>2. CASE i > a
    <3> DEFINE j == i - a
    <3>1. j \in 1..b /\ j \in 1..(b + 1) /\ j + 1 \in 1..(b + 1) /\ a + j = i /\ a + (j + 1) = i + 1
      BY <1>3, <2>2
    <3> HIDE DEF j
    <3>2. Follows(B[j], q[j], B[j + 1], out, r)
      BY <1>2, <3>1 DEF IsRun
    <3>3. (p \o q)[i] = q[j] /\ L[i] = B[j] /\ L[i + 1] = B[j + 1]
      BY <1>4, <1>7, <3>1
    <3> QED
      BY <3>2, <3>3
  <2> QED
    BY <1>3, <2>1, <2>2
<1>10. L[1] = l /\ L[a + b + 1] = m
  <2>1. 1 \in 1..(a + 1) /\ b + 1 \in 1..(b + 1) /\ a + (b + 1) = a + b + 1
    BY <1>3
  <2> QED
    BY <1>6, <1>7, <1>8, <2>1
<1> HIDE DEF a, b
<1>11. IsRun(L, p \o q, l, m, out, r)
  BY <1>4, <1>9, <1>10 DEF IsRun
<1> QED
  BY <1>11 DEF Runs

\* A sequence of sequences each of which keeps the label.
LEMMA RunsFlatten ==
  ASSUME NEW seqs, IsSeq(seqs), NEW l, NEW out, NEW r,
         \A i \in 1..Len(seqs) : IsSeq(seqs[i]) /\ Runs(seqs[i], l, l, out, r)
  PROVE  Runs(FlattenSeq(seqs), l, l, out, r)
<1> DEFINE S == UNION {ToSet(seqs[i]) : i \in 1..Len(seqs)}
           P == {p \in Seq(S) : Runs(p, l, l, out, r)}
<1>1. \A p \in Seq(S) : IsSeq(p)
  <2> SUFFICES ASSUME NEW p \in Seq(S) PROVE IsSeq(p)
    OBVIOUS
  <2>1. Len(p) \in Nat /\ p = [i \in 1..Len(p) |-> p[i]]
    OBVIOUS
  <2> QED
    BY <2>1, SeqFrom
<1>2. \A i \in 1..Len(seqs) : seqs[i] \in Seq(S)
  <2> SUFFICES ASSUME NEW i \in 1..Len(seqs) PROVE seqs[i] \in Seq(S)
    OBVIOUS
  <2>1. ToSet(seqs[i]) \subseteq S
    OBVIOUS
  <2>2. seqs[i] \in Seq(ToSet(seqs[i]))
    BY DEF IsSeq
  <2> HIDE DEF S
  <2> QED
    BY <2>1, <2>2
<1> HIDE DEF S
<1>3. <<>> \in P
  <2>1. IsSeq(<<>>) /\ ToSet(<<>>) = {}
    BY SeqEmpty DEF ToSet
  <2>2. Runs(<<>>, l, l, out, r)
    BY <2>1, RunsStay
  <2> QED
    BY <2>2
<1>4. \A i \in 1..Len(seqs) : seqs[i] \in P
  BY <1>2
<1>5. ASSUME NEW p \in P, NEW i \in 1..Len(seqs) PROVE p \o seqs[i] \in P
  <2>1. p \in Seq(S) /\ seqs[i] \in Seq(S)
    BY <1>2
  <2>2. p \o seqs[i] \in Seq(S)
    BY <2>1
  <2>3. IsSeq(p) /\ IsSeq(seqs[i])
    BY <1>1, <2>1
  <2>4. Runs(p, l, l, out, r) /\ Runs(seqs[i], l, l, out, r)
    OBVIOUS
  <2>5. Runs(p \o seqs[i], l, l, out, r)
    BY <2>3, <2>4, RunsConcat
  <2> QED
    BY <2>2, <2>5
<1>6. FlattenSeq(seqs) \in P
  <2> HIDE DEF P
  <2> QED
    BY <1>3, <1>4, <1>5, FlattenInduction
<1> QED
  BY <1>6

-----------------------------------------------------------------------------
(* What the statements that the lowering makes do to a label.               *)

\* A statement that is not about a relation keeps its label.
LEMMA Elsewhere ==
  ASSUME NEW s, NEW r, NEW e, NEW d, NEW n,
         ~ Emits(s, r), \A v \in Versions : ~ Changes(s, <<r, v>>)
  PROVE  After(Label(e, d, n), s, r) = Label(e, d, n)
<1>1. ~ Changes(s, <<r, "New">>) /\ ~ Changes(s, <<r, "Delta">>) /\ ~ Changes(s, <<r, "Total">>)
  BY DEF Versions
<1>2. ~ MergesDelta(s, r)
  BY <1>1 DEF MergesDelta, Changes, Fills
<1>3. ~ Empties(s, <<r, "New">>) /\ ~ Empties(s, <<r, "Delta">>)
  BY <1>1 DEF Changes
<1>4. EmitAfter(e, s, r) = e
  BY <1>1, <1>2 DEF EmitAfter
<1>5. ScratchAfter(d, s, <<r, "Delta">>) = d /\ ScratchAfter(n, s, <<r, "New">>) = n
  BY <1>1, <1>3 DEF ScratchAfter
<1> QED
  BY <1>4, <1>5, LabelParts DEF After

\* What the change of a Delta makes of the output's part of a label.
Fed(e) == IF e = "silent" THEN e ELSE IF e \in {"closed", "fed"} THEN "closed" ELSE "lost"

\* What the merge of a Delta into its Total makes of it.
Merged(e) ==
  IF e \in {"closed", "open", "merged"} THEN "merged" ELSE IF e \in {"sunk", "fed"} THEN "fed" ELSE e

\* What the sinks make of it.
Sunk(e) ==
  IF e \in {"closed", "open"} THEN "sunk" ELSE IF e \in {"merged", "fed"} THEN "fed" ELSE "lost"

\* Two keys are the same when relation and version are.
LEMMA SameKey == \A q, r, u, v : <<q, u>> = <<r, v>> <=> q = r /\ u = v
OBVIOUS

\* A statement that fills one version, other than the merge of a Delta into a
\* Total.
LEMMA AfterFill ==
  ASSUME NEW s, NEW q, NEW v \in {"Delta", "New"}, s.op \in {"insert", "merge"}, s.into = <<q, v>>,
         NEW r, NEW e, NEW d, NEW n
  PROVE  After(Label(e, d, n), s, r) =
           IF r # q THEN Label(e, d, n)
           ELSE IF v = "New" THEN Label(e, d, "dirty") ELSE Label(Fed(e), "dirty", n)
<1>1. s.op # "sources" /\ s.op # "purge" /\ s.op # "swap" /\ s.op # "sinks"
  OBVIOUS
<1>2. \A k : Changes(s, k) <=> k = <<q, v>>
  BY <1>1 DEF Changes, Fills, Empties, Swaps
<1>3. ~ Emits(s, r) /\ \A k : ~ Empties(s, k)
  BY <1>1 DEF Emits, Empties
<1>4. CASE r # q
  <2>1. \A u \in Versions : ~ Changes(s, <<r, u>>)
    BY <1>2, <1>4, SameKey
  <2> QED
    BY <1>3, <1>4, <2>1, Elsewhere
<1>5. CASE r = q
  <2>1. ~ MergesDelta(s, r) /\ ~ Changes(s, <<r, "Total">>)
    BY <1>2, SameKey DEF MergesDelta
  <2>2. CASE v = "New"
    <3>1. Changes(s, <<r, "New">>) /\ ~ Changes(s, <<r, "Delta">>)
      BY <1>2, <1>5, <2>2, SameKey
    <3>2. EmitAfter(e, s, r) = e
      BY <1>3, <2>1, <3>1 DEF EmitAfter
    <3>3. ScratchAfter(d, s, <<r, "Delta">>) = d /\ ScratchAfter(n, s, <<r, "New">>) = "dirty"
      BY <1>3, <3>1 DEF ScratchAfter
    <3> QED
      BY <1>5, <2>2, <3>2, <3>3, LabelParts DEF After
  <2>3. CASE v = "Delta"
    <3>1. Changes(s, <<r, "Delta">>) /\ ~ Changes(s, <<r, "New">>)
      BY <1>2, <1>5, <2>3, SameKey
    <3>2. EmitAfter(e, s, r) = Fed(e)
      BY <1>3, <2>1, <3>1 DEF EmitAfter, Fed
    <3>3. ScratchAfter(d, s, <<r, "Delta">>) = "dirty" /\ ScratchAfter(n, s, <<r, "New">>) = n
      BY <1>3, <3>1 DEF ScratchAfter
    <3> QED
      BY <1>5, <2>3, <3>2, <3>3, LabelParts DEF After
  <2> QED
    BY <2>2, <2>3
<1> QED
  BY <1>4, <1>5

\* The merge of a Delta into its Total.
LEMMA AfterMergeDelta ==
  ASSUME NEW q, NEW s, s = Merge(Key(q, "Delta"), Key(q, "Total")), NEW r, NEW e, NEW d, NEW n
  PROVE  /\ s.op = "merge"
         /\ After(Label(e, d, n), s, r) = IF r # q THEN Label(e, d, n) ELSE Label(Merged(e), d, n)
<1>1. s.op = "merge" /\ s.from = <<q, "Delta">> /\ s.into = <<q, "Total">>
  BY DEF Merge, Key
<1>2. s.op # "sources" /\ s.op # "purge" /\ s.op # "swap" /\ s.op # "sinks"
  BY <1>1
<1>3. \A k : Changes(s, k) <=> k = <<q, "Total">>
  BY <1>1, <1>2 DEF Changes, Fills, Empties, Swaps
<1>4. ~ Emits(s, r) /\ \A k : ~ Empties(s, k)
  BY <1>2 DEF Emits, Empties
<1>5. CASE r # q
  <2>1. \A u \in Versions : ~ Changes(s, <<r, u>>)
    BY <1>3, <1>5, SameKey
  <2> QED
    BY <1>1, <1>4, <1>5, <2>1, Elsewhere
<1>6. CASE r = q
  <2>1. MergesDelta(s, r)
    BY <1>1, <1>6 DEF MergesDelta
  <2>2. ~ Changes(s, <<r, "Delta">>) /\ ~ Changes(s, <<r, "New">>)
    BY <1>3, SameKey
  <2>3. EmitAfter(e, s, r) = Merged(e)
    BY <1>4, <2>1 DEF EmitAfter, Merged
  <2>4. ScratchAfter(d, s, <<r, "Delta">>) = d /\ ScratchAfter(n, s, <<r, "New">>) = n
    BY <1>4, <2>2 DEF ScratchAfter
  <2> QED
    BY <1>1, <1>6, <2>3, <2>4, LabelParts DEF After
<1> QED
  BY <1>5, <1>6

\* A purge of a scratch version.
LEMMA AfterPurge ==
  ASSUME NEW q, NEW v \in {"Delta", "New"}, NEW s, s = Purge(Key(q, v)), NEW r, NEW e, NEW d, NEW n
  PROVE  /\ s.op = "purge"
         /\ After(Label(e, d, n), s, r) =
              IF r # q THEN Label(e, d, n)
              ELSE IF v = "New" THEN Label(e, d, "clean") ELSE Label(Fed(e), "clean", n)
<1>1. s.op = "purge" /\ s.key = <<q, v>>
  BY DEF Purge, Key
<1>2. s.op # "sources" /\ s.op # "insert" /\ s.op # "merge" /\ s.op # "swap" /\ s.op # "sinks"
  BY <1>1
<1>3. \A k : (Changes(s, k) <=> k = <<q, v>>) /\ (Empties(s, k) <=> k = <<q, v>>)
  BY <1>1, <1>2 DEF Changes, Fills, Empties, Swaps
<1>4. ~ Emits(s, r) /\ ~ MergesDelta(s, r)
  BY <1>2 DEF Emits, MergesDelta
<1>5. CASE r # q
  <2>1. \A u \in Versions : ~ Changes(s, <<r, u>>)
    BY <1>3, <1>5, SameKey
  <2> QED
    BY <1>1, <1>4, <1>5, <2>1, Elsewhere
<1>6. CASE r = q
  <2>1. ~ Changes(s, <<r, "Total">>)
    BY <1>3, SameKey
  <2>2. CASE v = "New"
    <3>1. Empties(s, <<r, "New">>) /\ ~ Changes(s, <<r, "Delta">>) /\ ~ Empties(s, <<r, "Delta">>)
      BY <1>3, <1>6, <2>2, SameKey
    <3>2. EmitAfter(e, s, r) = e
      BY <1>4, <2>1, <3>1 DEF EmitAfter
    <3>3. ScratchAfter(d, s, <<r, "Delta">>) = d /\ ScratchAfter(n, s, <<r, "New">>) = "clean"
      BY <3>1 DEF ScratchAfter
    <3> QED
      BY <1>1, <1>6, <2>2, <3>2, <3>3, LabelParts DEF After
  <2>3. CASE v = "Delta"
    <3>1. /\ Changes(s, <<r, "Delta">>) /\ Empties(s, <<r, "Delta">>)
          /\ ~ Changes(s, <<r, "New">>) /\ ~ Empties(s, <<r, "New">>)
      BY <1>3, <1>6, <2>3, SameKey
    <3>2. EmitAfter(e, s, r) = Fed(e)
      BY <1>4, <2>1, <3>1 DEF EmitAfter, Fed
    <3>3. ScratchAfter(d, s, <<r, "Delta">>) = "clean" /\ ScratchAfter(n, s, <<r, "New">>) = n
      BY <3>1 DEF ScratchAfter
    <3> QED
      BY <1>1, <1>6, <2>3, <3>2, <3>3, LabelParts DEF After
  <2> QED
    BY <2>2, <2>3
<1> QED
  BY <1>5, <1>6

\* The swap that makes New the next Delta.
LEMMA AfterSwap ==
  ASSUME NEW q, NEW s, s = Swap(Key(q, "New"), Key(q, "Delta")), NEW r, NEW e, NEW d, NEW n
  PROVE  /\ s.op = "swap"
         /\ After(Label(e, d, n), s, r) = IF r # q THEN Label(e, d, n) ELSE Label(Fed(e), "dirty", "dirty")
<1>1. s.op = "swap" /\ s.left = <<q, "New">> /\ s.right = <<q, "Delta">>
  BY DEF Swap, Key
<1>2. s.op # "sources" /\ s.op # "insert" /\ s.op # "merge" /\ s.op # "purge" /\ s.op # "sinks"
  BY <1>1
<1>3. \A k : (Changes(s, k) <=> (k = <<q, "New">> \/ k = <<q, "Delta">>)) /\ ~ Empties(s, k)
  BY <1>1, <1>2 DEF Changes, Fills, Empties, Swaps
<1>4. ~ Emits(s, r) /\ ~ MergesDelta(s, r)
  BY <1>2 DEF Emits, MergesDelta
<1>5. CASE r # q
  <2>1. \A u \in Versions : ~ Changes(s, <<r, u>>)
    BY <1>3, <1>5, SameKey
  <2> QED
    BY <1>1, <1>4, <1>5, <2>1, Elsewhere
<1>6. CASE r = q
  <2>1. ~ Changes(s, <<r, "Total">>) /\ Changes(s, <<r, "Delta">>) /\ Changes(s, <<r, "New">>)
    BY <1>3, <1>6, SameKey
  <2>2. EmitAfter(e, s, r) = Fed(e)
    BY <1>4, <2>1 DEF EmitAfter, Fed
  <2>3. ScratchAfter(d, s, <<r, "Delta">>) = "dirty" /\ ScratchAfter(n, s, <<r, "New">>) = "dirty"
    BY <1>3, <2>1 DEF ScratchAfter
  <2> QED
    BY <1>1, <1>6, <2>2, <2>3, LabelParts DEF After
<1> QED
  BY <1>5, <1>6

\* The sinks of some relations.
LEMMA AfterSinks ==
  ASSUME NEW c, NEW s, s = Sinks(c), NEW r, NEW e, NEW d, NEW n
  PROVE  /\ s.op = "sinks"
         /\ After(Label(e, d, n), s, r) = IF r \in c THEN Label(Sunk(e), d, n) ELSE Label(e, d, n)
<1>1. s.op = "sinks" /\ s.relations = c
  BY DEF Sinks
<1>2. s.op # "sources" /\ s.op # "insert" /\ s.op # "merge" /\ s.op # "purge" /\ s.op # "swap"
  BY <1>1
<1>3. \A k : ~ Changes(s, k) /\ ~ Empties(s, k)
  BY <1>2 DEF Changes, Fills, Empties, Swaps
<1>4. CASE r \notin c
  <2>1. ~ Emits(s, r)
    BY <1>1, <1>4 DEF Emits
  <2> QED
    BY <1>1, <1>3, <1>4, <2>1, Elsewhere
<1>5. CASE r \in c
  <2>1. Emits(s, r)
    BY <1>1, <1>5 DEF Emits
  <2>2. EmitAfter(e, s, r) = Sunk(e)
    BY <2>1 DEF EmitAfter, Sunk
  <2>3. ScratchAfter(d, s, <<r, "Delta">>) = d /\ ScratchAfter(n, s, <<r, "New">>) = n
    BY <1>3 DEF ScratchAfter
  <2> QED
    BY <1>1, <1>5, <2>2, <2>3, LabelParts DEF After
<1> QED
  BY <1>4, <1>5

\* The exit of a loop.
LEMMA AfterExit ==
  ASSUME NEW c, NEW s, s = Exit({Key(q, "New") : q \in c}), NEW r, NEW e, NEW d, NEW n
  PROVE  /\ s.op = "exit"
         /\ After(Label(e, d, n), s, r) = Label(e, d, n)
         /\ Leaving(Label(e, d, n), s, r) = IF r \in c THEN Label(e, d, "clean") ELSE Label(e, d, n)
<1>1. s.op = "exit" /\ s.keys = {Key(q, "New") : q \in c}
  BY DEF Exit
<1>2. /\ s.op # "sources" /\ s.op # "insert" /\ s.op # "merge" /\ s.op # "purge" /\ s.op # "swap"
      /\ s.op # "sinks"
  BY <1>1
<1>3. ~ Emits(s, r) /\ \A v \in Versions : ~ Changes(s, <<r, v>>)
  BY <1>2 DEF Changes, Fills, Empties, Swaps, Emits
<1>4. After(Label(e, d, n), s, r) = Label(e, d, n)
  BY <1>3, Elsewhere
<1>5. (<<r, "New">> \in s.keys <=> r \in c) /\ <<r, "Delta">> \notin s.keys
  BY <1>1, SameKey DEF Key
<1>6. Leaving(Label(e, d, n), s, r) = IF r \in c THEN Label(e, d, "clean") ELSE Label(e, d, n)
  BY <1>5, LabelParts DEF Leaving
<1> QED
  BY <1>1, <1>4, <1>6

\* The sources.
LEMMA AfterSourcesLabel ==
  ASSUME NEW c, NEW s, s = Sources(c), NEW r, NEW e, NEW d, NEW n
  PROVE  /\ s.op = "sources"
         /\ After(Label(e, d, n), s, r) = IF r \in c THEN Label(Fed(e), "dirty", n) ELSE Label(e, d, n)
<1>1. s.op = "sources" /\ s.relations = c
  BY DEF Sources
<1>2. s.op # "sinks" /\ s.op # "insert" /\ s.op # "merge" /\ s.op # "purge" /\ s.op # "swap"
  BY <1>1
<1>3. \A q, v : (Changes(s, <<q, v>>) <=> v = "Delta" /\ q \in c) /\ ~ Empties(s, <<q, v>>)
  <2>1. \A q, v : <<q, v>>[1] = q /\ <<q, v>>[2] = v
    OBVIOUS
  <2> QED
    BY <1>1, <1>2, <2>1 DEF Changes, Fills, Empties, Swaps
<1>4. ~ Emits(s, r) /\ ~ MergesDelta(s, r)
  BY <1>2 DEF Emits, MergesDelta
<1>5. CASE r \notin c
  BY <1>1, <1>3, <1>4, <1>5, Elsewhere
<1>6. CASE r \in c
  <2>1. Changes(s, <<r, "Delta">>) /\ ~ Changes(s, <<r, "New">>) /\ ~ Changes(s, <<r, "Total">>)
    BY <1>3, <1>6
  <2>2. EmitAfter(e, s, r) = Fed(e)
    BY <1>4, <2>1 DEF EmitAfter, Fed
  <2>3. ScratchAfter(d, s, <<r, "Delta">>) = "dirty" /\ ScratchAfter(n, s, <<r, "New">>) = n
    BY <1>3, <2>1 DEF ScratchAfter
  <2> QED
    BY <1>1, <1>6, <2>2, <2>3, LabelParts DEF After
<1> QED
  BY <1>5, <1>6

-----------------------------------------------------------------------------
(* The strata run from label to label.                                      *)

\* Between strata Delta may hold facts and New is empty; inside a loop both
\* may hold some; between epochs neither does.
Calm(e)    == Label(e, "clean", "clean")
Busy(e)    == Label(e, "dirty", "clean")
Looping(e) == Label(e, "dirty", "dirty")

\* A statement that is not an exit and leaves what the next label covers.
LEMMA Leads ==
  ASSUME NEW l, NEW s, NEW m, NEW out, NEW r, s.op # "exit", s.op # "loop",
         Covers(m, After(l, s, r))
  PROVE  Follows(l, s, m, out, r)
BY DEF Follows, Passes

\* Rows written into Delta keep what is known and what was written the same.
LEMMA FillsDelta ==
  ASSUME NEW p, IsSeq(p), \A s \in ToSet(p) : \E q : IsInsert(s, q, "Delta"), NEW out, NEW r
  PROVE  Runs(p, Busy("closed"), Busy("closed"), out, r)
<1>1. ASSUME NEW s \in ToSet(p) PROVE Follows(Busy("closed"), s, Busy("closed"), out, r)
  <2>1. PICK q : IsInsert(s, q, "Delta")
    OBVIOUS
  <2>2. s.op = "insert" /\ s.into = <<q, "Delta">>
    BY <2>1 DEF IsInsert, Key
  <2>3. After(Busy("closed"), s, r) = Busy("closed")
    <3>1. "Delta" # "New" /\ Fed("closed") = "closed"
      BY DEF Fed
    <3> QED
      BY <2>2, <3>1, AfterFill DEF Busy
  <2> QED
    BY <2>2, <2>3, CoversOrder, Leads
<1> QED
  BY <1>1, RunsStay

\* Rows written into New do so in any case.
LEMMA FillsNew ==
  ASSUME NEW p, IsSeq(p), \A s \in ToSet(p) : \E q : IsInsert(s, q, "New"), NEW e, NEW out, NEW r
  PROVE  Runs(p, Looping(e), Looping(e), out, r)
<1>1. ASSUME NEW s \in ToSet(p) PROVE Follows(Looping(e), s, Looping(e), out, r)
  <2>1. PICK q : IsInsert(s, q, "New")
    OBVIOUS
  <2>2. s.op = "insert" /\ s.into = <<q, "New">>
    BY <2>1 DEF IsInsert, Key
  <2>3. After(Looping(e), s, r) = Looping(e)
    BY <2>2, AfterFill DEF Looping
  <2> QED
    BY <2>2, <2>3, CoversOrder, Leads
<1> QED
  BY <1>1, RunsStay

\* The merges of some Deltas into their Totals.
LEMMA MergesDeltas ==
  ASSUME NEW c, IsFiniteSet(c), NEW e, NEW d, NEW n, NEW out, NEW r
  PROVE  /\ r \notin c => Runs(MergeDelta(c), Label(e, d, n), Label(e, d, n), out, r)
         /\ r \in c => Runs(MergeDelta(c), Label(e, d, n), Label(Merged(e), d, n), out, r)
<1> DEFINE p == MergeDelta(c)
           S(q) == Merge(Key(q, "Delta"), Key(q, "Total"))
<1>1. IsSeq(p) /\ ToSet(p) = {S(q) : q \in c}
  BY MergeDeltaParts
<1>2. \A q, f : /\ S(q).op = "merge"
                /\ After(Label(f, d, n), S(q), r) = IF r # q THEN Label(f, d, n) ELSE Label(Merged(f), d, n)
  BY AfterMergeDelta
<1> HIDE DEF p, S
<1>3. \A q, f : r # q => Follows(Label(f, d, n), S(q), Label(f, d, n), out, r)
  BY <1>2, CoversOrder, Leads
<1>4. \A f : Follows(Label(f, d, n), S(r), Label(Merged(f), d, n), out, r)
  BY <1>2, CoversOrder, Leads
<1>5. CASE r \notin c
  BY <1>1, <1>3, <1>5, RunsStay DEF p
<1>6. CASE r \in c
  <2>1. Merged(Merged(e)) = Merged(e)
    BY DEF Merged
  <2>2. Follows(Label(Merged(e), d, n), S(r), Label(Merged(e), d, n), out, r)
    BY <1>4, <2>1
  <2>3. \A s \in ToSet(p) : \/ Follows(Label(e, d, n), s, Label(e, d, n), out, r)
                            \/ Follows(Label(e, d, n), s, Label(Merged(e), d, n), out, r)
    BY <1>1, <1>3, <1>4
  <2>4. \A s \in ToSet(p) : Follows(Label(Merged(e), d, n), s, Label(Merged(e), d, n), out, r)
    BY <1>1, <1>3, <2>2
  <2>5. \E s \in ToSet(p) : Follows(Label(e, d, n), s, Label(Merged(e), d, n), out, r)
    BY <1>1, <1>4, <1>6
  <2>6. Runs(p, Label(e, d, n), Label(Merged(e), d, n), out, r)
    BY <1>1, <2>3, <2>4, <2>5, RunsSwitch
  <2> QED
    BY <1>6, <2>6 DEF p
<1> QED
  BY <1>5, <1>6

\* The merges of some Totals back into their Deltas.
LEMMA MergesTotals ==
  ASSUME NEW c, IsFiniteSet(c), NEW out, NEW r
  PROVE  Runs(MergeTotal(c), Busy("closed"), Busy("closed"), out, r)
<1> DEFINE S(q) == Merge(Key(q, "Total"), Key(q, "Delta"))
<1>1. IsSeq(MergeTotal(c)) /\ ToSet(MergeTotal(c)) = {S(q) : q \in c}
  BY MergeTotalParts
<1>2. ASSUME NEW q \in c PROVE Follows(Busy("closed"), S(q), Busy("closed"), out, r)
  <2>1. S(q).op = "merge" /\ S(q).into = <<q, "Delta">>
    BY DEF Merge, Key
  <2>2. "Delta" # "New" /\ Fed("closed") = "closed"
    BY DEF Fed
  <2> HIDE DEF S
  <2>3. After(Busy("closed"), S(q), r) = Busy("closed")
    BY <2>1, <2>2, AfterFill DEF Busy
  <2> QED
    BY <2>1, <2>3, CoversOrder, Leads
<1> HIDE DEF S
<1>3. \A s \in ToSet(MergeTotal(c)) : Follows(Busy("closed"), s, Busy("closed"), out, r)
  BY <1>1, <1>2
<1> QED
  BY <1>1, <1>3, RunsStay

\* The purges of some Deltas.
LEMMA PurgesDeltas ==
  ASSUME NEW c, IsFiniteSet(c), NEW e \in {"silent", "closed"}, NEW out, NEW r,
         NEW p, p = ForEach(c, LAMBDA q : Purge(Key(q, "Delta")))
  PROVE  /\ Runs(p, Calm(e), Calm(e), out, r)
         /\ r \in c => Runs(p, Busy(e), Calm(e), out, r)
<1> DEFINE S(q) == Purge(Key(q, "Delta"))
<1>1. IsSeq(p) /\ ToSet(p) = {S(q) : q \in c}
  <2> DEFINE purges == ForEach(c, LAMBDA q : Purge(Key(q, "Delta")))
  <2>1. IsSeq(purges) /\ ToSet(purges) = {Purge(Key(q, "Delta")) : q \in c}
    BY PurgesParts
  <2> HIDE DEF purges
  <2>2. p = purges
    BY DEF purges
  <2> QED
    BY <2>1, <2>2
<1>2. "Delta" # "New" /\ Fed(e) = e
  BY DEF Fed
<1>3. \A q, d : /\ S(q).op = "purge"
                /\ After(Label(e, d, "clean"), S(q), r) =
                     IF r # q THEN Label(e, d, "clean") ELSE Label(e, "clean", "clean")
  BY <1>2, AfterPurge
<1> HIDE DEF S
<1>4. \A q : Follows(Calm(e), S(q), Calm(e), out, r)
  BY <1>3, CoversOrder, Leads DEF Calm
<1>5. \A q : q # r => Follows(Busy(e), S(q), Busy(e), out, r)
  BY <1>3, CoversOrder, Leads DEF Busy
<1>6. Follows(Busy(e), S(r), Calm(e), out, r)
  BY <1>3, CoversOrder, Leads DEF Busy, Calm
<1>7. Runs(p, Calm(e), Calm(e), out, r)
  BY <1>1, <1>4, RunsStay
<1>8. ASSUME r \in c PROVE Runs(p, Busy(e), Calm(e), out, r)
  <2>1. \A s \in ToSet(p) : \/ Follows(Busy(e), s, Busy(e), out, r)
                            \/ Follows(Busy(e), s, Calm(e), out, r)
    BY <1>1, <1>5, <1>6
  <2>2. \A s \in ToSet(p) : Follows(Calm(e), s, Calm(e), out, r)
    BY <1>1, <1>4
  <2>3. \E s \in ToSet(p) : Follows(Busy(e), s, Calm(e), out, r)
    BY <1>1, <1>6, <1>8
  <2> QED
    BY <1>1, <2>1, <2>2, <2>3, RunsSwitch
<1> QED
  BY <1>7, <1>8

\* The end of an epoch for the inputs.
LEMMA MergesInputs ==
  ASSUME NEW c, IsFiniteSet(c), NEW out, NEW r,
         NEW p, p = FlattenSeq(ForEach(c, MergeInput))
  PROVE  /\ Runs(p, Calm("silent"), Calm("silent"), out, r)
         /\ r \in c => Runs(p, Busy("silent"), Calm("silent"), out, r)
         /\ r \notin c => \A e, d, n : Runs(p, Label(e, d, n), Label(e, d, n), out, r)
<1> DEFINE M(q) == Merge(Key(q, "Delta"), Key(q, "Total"))
           P(q) == Purge(Key(q, "Delta"))
<1>1. /\ IsSeq(p) /\ \A s \in ToSet(p) : \E q \in c : s = M(q) \/ s = P(q)
      /\ \A q \in c : P(q) \in ToSet(p)
  BY MergeInputsParts
<1>2. "Delta" # "New" /\ Fed("silent") = "silent" /\ Merged("silent") = "silent"
  BY DEF Fed, Merged
<1>3. \A q, e, d, n : /\ M(q).op = "merge"
                      /\ After(Label(e, d, n), M(q), r) =
                           IF r # q THEN Label(e, d, n) ELSE Label(Merged(e), d, n)
  BY AfterMergeDelta
<1>4. \A q, e, d, n : /\ P(q).op = "purge"
                      /\ After(Label(e, d, n), P(q), r) =
                           IF r # q THEN Label(e, d, n) ELSE Label(Fed(e), "clean", n)
  BY <1>2, AfterPurge
<1> HIDE DEF M, P
<1>5. \A q, d : Follows(Label("silent", d, "clean"), M(q), Label("silent", d, "clean"), out, r)
  BY <1>2, <1>3, CoversOrder, Leads
<1>6. /\ \A q : Follows(Calm("silent"), P(q), Calm("silent"), out, r)
      /\ \A q : q # r => Follows(Busy("silent"), P(q), Busy("silent"), out, r)
      /\ Follows(Busy("silent"), P(r), Calm("silent"), out, r)
  BY <1>2, <1>4, CoversOrder, Leads DEF Calm, Busy
<1>7. Runs(p, Calm("silent"), Calm("silent"), out, r)
  <2>1. \A s \in ToSet(p) : Follows(Calm("silent"), s, Calm("silent"), out, r)
    BY <1>1, <1>5, <1>6 DEF Calm
  <2> QED
    BY <1>1, <2>1, RunsStay
<1>8. ASSUME r \in c PROVE Runs(p, Busy("silent"), Calm("silent"), out, r)
  <2>1. \A s \in ToSet(p) : \/ Follows(Busy("silent"), s, Busy("silent"), out, r)
                            \/ Follows(Busy("silent"), s, Calm("silent"), out, r)
    BY <1>1, <1>5, <1>6 DEF Busy
  <2>2. \A s \in ToSet(p) : Follows(Calm("silent"), s, Calm("silent"), out, r)
    BY <1>1, <1>5, <1>6 DEF Calm
  <2>3. \E s \in ToSet(p) : Follows(Busy("silent"), s, Calm("silent"), out, r)
    BY <1>1, <1>6, <1>8
  <2> QED
    BY <1>1, <2>1, <2>2, <2>3, RunsSwitch
<1>9. ASSUME r \notin c, NEW e, NEW d, NEW n PROVE Runs(p, Label(e, d, n), Label(e, d, n), out, r)
  <2>1. \A q \in c : /\ Follows(Label(e, d, n), M(q), Label(e, d, n), out, r)
                     /\ Follows(Label(e, d, n), P(q), Label(e, d, n), out, r)
    <3>1. \A q \in c : q # r
      BY <1>9
    <3> QED
      BY <1>3, <1>4, <3>1, CoversOrder, Leads
  <2>2. \A s \in ToSet(p) : Follows(Label(e, d, n), s, Label(e, d, n), out, r)
    BY <1>1, <2>1
  <2> QED
    BY <1>1, <2>2, RunsStay
<1> QED
  BY <1>7, <1>8, <1>9

\* No statement of a loop's body is a loop.
LEMMA NoLoopInside ==
  ASSUME NEW c, NEW s, IsOf(s, c)
  PROVE  s.op # "loop"
<1>1. CASE \E q \in c : IsInsert(s, q, "Delta") \/ IsInsert(s, q, "New")
  BY <1>1 DEF IsInsert
<1>2. CASE ~ \E q \in c : IsInsert(s, q, "Delta") \/ IsInsert(s, q, "New")
  BY <1>2 DEF IsOf, Merge, Purge, Swap, Sinks, Exit
<1> QED
  BY <1>1, <1>2

\* A stratum of other relations keeps every label.
LEMMA ElsewhereRuns ==
  ASSUME NEW c, NEW r, r \notin c, NEW e, NEW d, NEW n, NEW out
  PROVE  /\ \A s : IsOf(s, c) => Passes(Label(e, d, n), s, Label(e, d, n), Label(e, d, n), r)
         /\ \A p : IsStratum(p, c) => Runs(p, Label(e, d, n), Label(e, d, n), out, r)
<1> DEFINE l == Label(e, d, n)
<1>1. \A q \in c : r # q
  OBVIOUS
<1>2. ASSUME NEW s, IsOf(s, c)
      PROVE  After(l, s, r) = l /\ s.op # "loop" /\ (s.op = "exit" => Leaving(l, s, r) = l)
  <2>1. CASE \E q \in c : IsInsert(s, q, "Delta") \/ IsInsert(s, q, "New")
    <3>1. PICK q \in c, v \in {"Delta", "New"} : IsInsert(s, q, v)
      BY <2>1
    <3>2. s.op = "insert" /\ s.into = <<q, v>>
      BY <3>1 DEF IsInsert, Key
    <3> QED
      BY <1>1, <3>2, AfterFill
  <2>2. CASE \E q \in c : s = Merge(Key(q, "Delta"), Key(q, "Total"))
    BY <1>1, <2>2, AfterMergeDelta
  <2>3. CASE \E q \in c : s = Merge(Key(q, "Total"), Key(q, "Delta"))
    <3>1. PICK q \in c : s = Merge(Key(q, "Total"), Key(q, "Delta"))
      BY <2>3
    <3>2. s.op = "merge" /\ s.into = <<q, "Delta">>
      BY <3>1 DEF Merge, Key
    <3> QED
      BY <1>1, <3>2, AfterFill
  <2>4. CASE \E q \in c : s = Purge(Key(q, "New"))
    BY <1>1, <2>4, AfterPurge
  <2>5. CASE \E q \in c : s = Swap(Key(q, "New"), Key(q, "Delta"))
    BY <1>1, <2>5, AfterSwap
  <2>6. CASE s = Sinks(c)
    BY <2>6, AfterSinks
  <2>7. CASE s = Exit({Key(q, "New") : q \in c})
    BY SMTT(40), <2>7, AfterExit
  <2> QED
    BY <1>2, <2>1, <2>2, <2>3, <2>4, <2>5, <2>6, <2>7 DEF IsOf
<1> HIDE DEF l
<1>3. \A s : IsOf(s, c) => Passes(l, s, l, l, r)
  BY <1>2, CoversOrder DEF Passes
<1>4. ASSUME NEW s, IsLoopOf(s, c) PROVE Follows(l, s, l, out, r)
  <2> DEFINE B == [j \in 1..(Len(s.body) + 1) |-> l]
  <2>1. s.op = "loop"
    BY <1>4 DEF IsLoopOf, Loop
  <2>2. Len(s.body) \in Nat /\ \A j \in 1..Len(s.body) : IsOf(s.body[j], c)
    BY <1>4, SeqParts DEF IsLoopOf, AllOf
  <2>3. /\ 1 \in 1..(Len(s.body) + 1) /\ Len(s.body) + 1 \in 1..(Len(s.body) + 1)
        /\ \A j \in 1..Len(s.body) : j \in 1..(Len(s.body) + 1) /\ j + 1 \in 1..(Len(s.body) + 1)
    BY <2>2
  <2>4. \A j \in 1..(Len(s.body) + 1) : B[j] = l
    OBVIOUS
  <2> HIDE DEF B
  <2>5. IsLoop(B, s.body, l, l, r)
    BY <1>3, <2>2, <2>3, <2>4, CoversOrder DEF IsLoop
  <2> QED
    BY <2>1, <2>5 DEF Follows
<1>5. ASSUME NEW p, IsStratum(p, c) PROVE Runs(p, l, l, out, r)
  <2>1. \A s \in ToSet(p) : Follows(l, s, l, out, r)
    <3> SUFFICES ASSUME NEW s \in ToSet(p) PROVE Follows(l, s, l, out, r)
      OBVIOUS
    <3>1. CASE IsOf(s, c) /\ s.op # "exit"
      BY <1>2, <1>3, <3>1 DEF Follows, Passes
    <3>2. CASE IsLoopOf(s, c)
      BY <1>4, <3>2
    <3> QED
      BY <1>5, <3>1, <3>2 DEF IsStratum
  <2> QED
    BY <1>5, <2>1, RunsStay DEF IsStratum
<1> QED
  BY <1>3, <1>5 DEF l

\* The loop of a recursive stratum: it is entered with a Delta that is in the
\* output or not, in Total or not; when its exit is taken both have it.
LEMMA LoopRuns ==
  ASSUME NEW source, Proper(source), Writable(source), NEW c, IsFiniteSet(c),
         NEW stratum, stratum = StratumOf(source, c),
         NEW dynamic, IsSeq(dynamic), ToSet(dynamic) \subseteq ToSet(stratum.rules),
         NEW r \in c, NEW e \in {"closed", "merged"}, NEW out
  PROVE  Follows(Busy(e), Loop(LoopBody(stratum, dynamic)), Busy("closed"), out, r)
<1> DEFINE purges == ForEach(c, LAMBDA q : Purge(Key(q, "New")))
           inserts == LowerRules(dynamic, "New")
           sinks == <<Sinks(c)>>
           merges == MergeDelta(c)
           exit == <<Exit({Key(q, "New") : q \in c})>>
           swaps == ForEach(c, LAMBDA q : Swap(Key(q, "New"), Key(q, "Delta")))
           body == LoopBody(stratum, dynamic)
           done == Busy("closed")
<1>1. /\ stratum.relations = c
      /\ ToSet(dynamic) \subseteq ToSet(source.rules)
      /\ \A q \in ToSet(dynamic) : q.head.rel \in c
  BY StratumRules
<1>2. body = purges \o inserts \o sinks \o merges \o exit \o swaps
  BY <1>1 DEF LoopBody
<1>3. IsSeq(purges) /\ Runs(purges, Looping("open"), Looping("open"), done, r)
  <2> DEFINE S(q) == Purge(Key(q, "New"))
  <2>1. IsSeq(purges) /\ ToSet(purges) = {S(q) : q \in c}
    BY PurgesParts
  <2>2. \A q : /\ S(q).op = "purge"
               /\ After(Looping("open"), S(q), r) =
                    IF r # q THEN Looping("open") ELSE Label("open", "dirty", "clean")
    BY AfterPurge DEF Looping
  <2>3. Covers(Looping("open"), Label("open", "dirty", "clean")) /\ Covers(Looping("open"), Looping("open"))
    BY LabelParts DEF Covers, Looping
  <2> HIDE DEF S, purges, done
  <2>4. \A q : Follows(Looping("open"), S(q), Looping("open"), done, r)
    BY <2>2, <2>3, Leads
  <2>5. Runs(purges, Looping("open"), Looping("open"), done, r)
    BY <2>1, <2>4, RunsStay
  <2> QED
    BY <2>1, <2>5
<1>4. IsSeq(inserts) /\ Runs(inserts, Looping("open"), Looping("open"), done, r)
  <2>1. /\ IsSeq(inserts)
        /\ \A s \in ToSet(inserts) : \E q \in ToSet(dynamic) : IsInsert(s, q.head.rel, "New")
    BY <1>1, LowerRulesParts
  <2> HIDE DEF inserts, done
  <2>2. Runs(inserts, Looping("open"), Looping("open"), done, r)
    BY <2>1, FillsNew
  <2> QED
    BY <2>1, <2>2
<1>5. IsSeq(sinks) /\ Runs(sinks, Looping("open"), Looping("sunk"), done, r)
  <2>1. Sinks(c).op = "sinks" /\ After(Looping("open"), Sinks(c), r) = Looping("sunk")
    BY AfterSinks DEF Looping, Sunk
  <2>2. Follows(Looping("open"), Sinks(c), Looping("sunk"), done, r)
    BY <2>1, CoversOrder, Leads
  <2> QED
    BY <2>2, RunsOne, SeqOne
<1>6. IsSeq(merges) /\ Runs(merges, Looping("sunk"), Looping("fed"), done, r)
  <2>1. Merged("sunk") = "fed"
    BY DEF Merged
  <2>2. IsSeq(merges)
    BY MergeDeltaParts
  <2>3. Runs(merges, Label("sunk", "dirty", "dirty"), Label("fed", "dirty", "dirty"), done, r)
    BY <2>1, MergesDeltas
  <2> QED
    BY <2>2, <2>3 DEF Looping
<1>7. IsSeq(exit) /\ Runs(exit, Looping("fed"), Looping("closed"), done, r)
  <2> DEFINE s == Exit({Key(q, "New") : q \in c})
  <2>1. s.op = "exit" /\ After(Looping("fed"), s, r) = Looping("fed")
        /\ Leaving(Looping("fed"), s, r) = Label("fed", "dirty", "clean")
    BY AfterExit DEF Looping
  <2>2. Covers(Looping("closed"), Looping("fed")) /\ Covers(done, Label("fed", "dirty", "clean"))
    BY LabelParts DEF Covers, Looping, Busy
  <2> HIDE DEF s, done
  <2>3. Follows(Looping("fed"), s, Looping("closed"), done, r)
    BY <2>1, <2>2 DEF Follows, Passes
  <2>4. IsSeq(<<s>>) /\ Runs(<<s>>, Looping("fed"), Looping("closed"), done, r)
    BY <2>3, RunsOne, SeqOne
  <2> QED
    BY <2>4 DEF s
<1>8. IsSeq(swaps) /\ Runs(swaps, Looping("closed"), Looping("closed"), done, r)
  <2> DEFINE S(q) == Swap(Key(q, "New"), Key(q, "Delta"))
  <2>1. IsSeq(swaps) /\ ToSet(swaps) = {S(q) : q \in c}
    BY SwapsParts
  <2>2. \A q : S(q).op = "swap" /\ After(Looping("closed"), S(q), r) = Looping("closed")
    <3>1. Fed("closed") = "closed"
      BY DEF Fed
    <3> QED
      BY <3>1, AfterSwap DEF Looping
  <2> HIDE DEF S, swaps, done
  <2>3. \A q : Follows(Looping("closed"), S(q), Looping("closed"), done, r)
    BY <2>2, CoversOrder, Leads
  <2>4. Runs(swaps, Looping("closed"), Looping("closed"), done, r)
    BY <2>1, <2>3, RunsStay
  <2> QED
    BY <2>1, <2>4
<1>9. AllOf(body, c)
  BY LoopBodyParts
<1>10. Loop(body).op = "loop" /\ Loop(body).body = body
  BY DEF Loop
<1>11. Covers(Looping("open"), Busy(e)) /\ Covers(Looping("open"), Looping("closed"))
  BY LabelParts DEF Covers, Looping, Busy
<1> HIDE DEF purges, inserts, sinks, merges, exit, swaps, body, done
<1>12. IsSeq(purges \o inserts) /\ Runs(purges \o inserts, Looping("open"), Looping("open"), done, r)
  BY <1>3, <1>4, RunsConcat, SeqConcat
<1>13. /\ IsSeq(purges \o inserts \o sinks)
       /\ Runs(purges \o inserts \o sinks, Looping("open"), Looping("sunk"), done, r)
  BY <1>5, <1>12, RunsConcat, SeqConcat
<1>14. /\ IsSeq(purges \o inserts \o sinks \o merges)
       /\ Runs(purges \o inserts \o sinks \o merges, Looping("open"), Looping("fed"), done, r)
  BY <1>6, <1>13, RunsConcat, SeqConcat
<1>15. /\ IsSeq(purges \o inserts \o sinks \o merges \o exit)
       /\ Runs(purges \o inserts \o sinks \o merges \o exit, Looping("open"), Looping("closed"), done, r)
  BY <1>7, <1>14, RunsConcat, SeqConcat
<1>16. Runs(body, Looping("open"), Looping("closed"), done, r)
  BY <1>2, <1>8, <1>15, RunsConcat
<1>17. PICK B : IsRun(B, body, Looping("open"), Looping("closed"), done, r)
  BY <1>16 DEF Runs
<1>18. ASSUME NEW j \in 1..Len(body) PROVE Passes(B[j], body[j], B[j + 1], done, r)
  <2>1. body[j].op # "loop"
    <3>1. IsOf(body[j], c)
      BY <1>9, SeqParts DEF AllOf
    <3> QED
      BY <3>1, NoLoopInside
  <2> QED
    BY <1>17, <2>1 DEF IsRun, Follows
<1>19. IsLoop(B, body, Busy(e), done, r)
  BY <1>11, <1>17, <1>18 DEF IsRun, IsLoop
<1> QED
  BY <1>10, <1>19 DEF Follows, body, done

\* A stratum ends with its relations' facts all written, as it started.
LEMMA StratumRuns ==
  ASSUME NEW source, Proper(source), Writable(source), NEW c, IsFiniteSet(c),
         NEW stratum, stratum = StratumOf(source, c), NEW r \in c, NEW out
  PROVE  Runs(LowerStratum(stratum), Busy("closed"), Busy("closed"), out, r)
<1>1. /\ stratum.relations = c /\ IsSeq(stratum.rules)
      /\ ToSet(stratum.rules) \subseteq ToSet(source.rules)
      /\ \A q \in ToSet(stratum.rules) : q.head.rel \in c
      /\ IsFiniteSet(stratum.facts) /\ stratum.facts \subseteq source.facts
      /\ \A f \in stratum.facts : f.rel \in c
  BY StratumRules
<1> DEFINE l == Busy("closed")
           m == Busy("merged")
           Run(p, a, b) == IsSeq(p) /\ Runs(p, a, b, out, r)
           facts == LowerFacts(stratum.facts)
           feeds == MergeTotal(c)
<1>2. Run(facts, l, l)
  <2>1. IsSeq(facts) /\ \A s \in ToSet(facts) : \E f \in stratum.facts : IsInsert(s, f.rel, "Delta")
    BY <1>1, LowerFactsParts DEF Writable
  <2> HIDE DEF facts, l
  <2> QED
    BY <2>1, FillsDelta DEF l
<1>3. ASSUME NEW rules, IsSeq(rules), ToSet(rules) \subseteq ToSet(stratum.rules),
             \A q \in ToSet(rules) : \A a \in ToSet(q.pos) : a.rel \notin c
      PROVE  Run(LowerRules(rules, "Delta"), l, l)
  <2>1. \A q \in ToSet(rules) : \A a \in ToSet(q.pos) : a.rel # q.head.rel
    BY <1>1, <1>3
  <2>2. /\ IsSeq(LowerRules(rules, "Delta"))
        /\ \A s \in ToSet(LowerRules(rules, "Delta")) :
             \E q \in ToSet(rules) : IsInsert(s, q.head.rel, "Delta")
    BY <1>1, <1>3, <2>1, LowerRulesParts
  <2> QED
    BY <2>2, FillsDelta
<1>4. Run(feeds, l, l)
  BY MergesTotals, MergeTotalParts
<1>5. Merged("closed") = "merged"
  BY DEF Merged
<1>6. ASSUME NEW d, d \subseteq c
      PROVE  IF r \in d THEN Run(MergeDelta(d), l, m) ELSE Run(MergeDelta(d), l, l)
  <2>1. IsFiniteSet(d)
    BY <1>6, FS_Subset
  <2>2. IsSeq(MergeDelta(d))
    BY <2>1, MergeDeltaParts
  <2>3. /\ r \notin d => Runs(MergeDelta(d), Label("closed", "dirty", "clean"),
                              Label("closed", "dirty", "clean"), out, r)
        /\ r \in d => Runs(MergeDelta(d), Label("closed", "dirty", "clean"),
                           Label("merged", "dirty", "clean"), out, r)
    BY <1>5, <2>1, MergesDeltas
  <2> QED
    BY <2>2, <2>3 DEF Busy
<1>7. ASSUME NEW p, NEW q, NEW a, NEW b, NEW k, Run(p, a, b), Run(q, b, k) PROVE Run(p \o q, a, k)
  BY <1>7, RunsConcat, SeqConcat
<1>8. CASE ~ stratum.recursive
  <2> DEFINE rules == LowerRules(stratum.rules, "Delta")
             merges == MergeDelta(c)
             sinks == <<Sinks(c)>>
  <2>1. LowerStratum(stratum) = facts \o rules \o merges \o sinks \o feeds
    BY <1>1, <1>8 DEF LowerStratum, LowerFlatStratum
  <2>2. \A q \in ToSet(stratum.rules) : \A a \in ToSet(q.pos) : a.rel \notin c
    BY <1>8, StratumRules
  <2>3. Run(rules, l, l) /\ Run(merges, l, m)
    BY <1>1, <1>3, <1>6, <2>2
  <2>4. Run(sinks, m, l)
    <3>1. Sinks(c).op = "sinks" /\ After(m, Sinks(c), r) = Busy("fed")
      BY AfterSinks DEF Busy, Sunk
    <3>2. Covers(l, Busy("fed"))
      BY LabelParts DEF Covers, Busy
    <3>3. Follows(m, Sinks(c), l, out, r)
      BY <3>1, <3>2, Leads
    <3> HIDE DEF l, m
    <3> QED
      BY <3>3, RunsOne, SeqOne
  <2> HIDE DEF Run, facts, rules, merges, sinks, feeds, l, m
  <2>5. Run(facts \o rules, l, l)
    BY <1>2, <1>7, <2>3
  <2>6. Run(facts \o rules \o merges, l, m)
    BY <1>7, <2>3, <2>5
  <2>7. Run(facts \o rules \o merges \o sinks, l, l)
    BY <1>7, <2>4, <2>6
  <2>8. Run(facts \o rules \o merges \o sinks \o feeds, l, l)
    BY <1>4, <1>7, <2>7
  <2> QED
    BY <2>1, <2>8 DEF Run, l
<1>9. CASE stratum.recursive
  <2> DEFINE inside == {q \in ToSet(stratum.rules) : IsDynamic(q, stratum)}
             dynamic == Keep(stratum.rules, inside)
             static == Keep(stratum.rules, ToSet(stratum.rules) \ inside)
             rules == LowerRules(static, "Delta")
             heads == {q.head.rel : q \in ToSet(static)}
             merges == MergeDelta(heads)
             loop == <<Loop(LoopBody(stratum, dynamic))>>
             entry == IF r \in heads THEN m ELSE l
  <2>1. LowerStratum(stratum) = facts \o rules \o merges \o loop \o feeds
    BY <1>1, <1>9 DEF LowerStratum, LowerRecursiveStratum
  <2>2. stratum.rules \in Seq(ToSet(stratum.rules))
    BY <1>1 DEF IsSeq
  <2>3. /\ IsSeq(dynamic) /\ ToSet(dynamic) = ToSet(stratum.rules) \cap inside
        /\ IsSeq(static) /\ ToSet(static) = ToSet(stratum.rules) \cap (ToSet(stratum.rules) \ inside)
    <3> HIDE DEF inside
    <3> QED
      BY <2>2, KeepType, KeepRange DEF IsSeq
  <2>4. \A q \in ToSet(static) : \A a \in ToSet(q.pos) : a.rel \notin c
    BY <1>1, <2>3 DEF IsDynamic
  <2>5. ToSet(static) \subseteq ToSet(stratum.rules) /\ ToSet(dynamic) \subseteq ToSet(stratum.rules)
    BY <2>3
  <2> HIDE DEF inside, dynamic, static
  <2>6. heads \subseteq c
    BY <1>1, <2>5
  <2>7. Run(rules, l, l)
    BY <1>3, <2>3, <2>4, <2>5
  <2>8. Run(merges, l, entry)
    <3> HIDE DEF heads, Run
    <3> QED
      BY <1>6, <2>6
  <2>9. Run(loop, entry, l)
    <3> DEFINE e == IF r \in heads THEN "merged" ELSE "closed"
               s == Loop(LoopBody(stratum, dynamic))
    <3>1. e \in {"closed", "merged"} /\ entry = Busy(e)
      OBVIOUS
    <3> HIDE DEF e, entry
    <3>2. Follows(Busy(e), s, l, out, r)
      BY <2>3, <2>5, <3>1, LoopRuns
    <3> HIDE DEF s, l
    <3>3. IsSeq(<<s>>) /\ Runs(<<s>>, entry, l, out, r)
      BY <3>1, <3>2, RunsOne, SeqOne
    <3> QED
      BY <3>3 DEF s
  <2> HIDE DEF Run, facts, rules, merges, loop, feeds, l, m, entry, heads
  <2>10. Run(facts \o rules, l, l)
    BY <1>2, <1>7, <2>7
  <2>11. Run(facts \o rules \o merges, l, entry)
    BY <1>7, <2>8, <2>10
  <2>12. Run(facts \o rules \o merges \o loop, l, l)
    BY <1>7, <2>9, <2>11
  <2>13. Run(facts \o rules \o merges \o loop \o feeds, l, l)
    BY <1>4, <1>7, <2>12
  <2> QED
    BY <2>1, <2>13 DEF Run, l
<1> QED
  BY <1>8, <1>9

\* The label of a relation between two epochs.
Home(source, r) == Calm(IF r \in source.idb THEN "closed" ELSE "silent")

\* A lowered program leads from the labels between two epochs back to them.
LEMMA CodeRuns ==
  ASSUME NEW source, Proper(source), Writable(source), NEW strata \in StrataOrders(source),
         NEW r, NEW out
  PROVE  Runs(LowerToRam(source, strata), Home(source, r), Home(source, r), out, r)
<1> DEFINE sources == <<Sources(source.edb)>>
           body == FlattenSeq(LoweredStrata(strata))
           inputs == FlattenSeq(ForEach(source.edb, MergeInput))
           purges == ForEach(source.idb, LAMBDA q : Purge(Key(q, "Delta")))
           code == LowerToRam(source, strata)
           e == IF r \in source.idb THEN "closed" ELSE "silent"
           home == Home(source, r)
           begun == IF r \in source.edb \cup source.idb THEN Busy(e) ELSE home
           fed == IF r \in source.idb THEN Busy(e) ELSE home
           Run(p, a, b) == IsSeq(p) /\ Runs(p, a, b, out, r)
<1>1. code = sources \o body \o inputs \o purges
  BY DEF LowerToRam, LoweredStrata
<1>2. IsFiniteSet(source.edb) /\ IsFiniteSet(source.idb) /\ source.edb \cap source.idb = {}
  BY FS_Subset DEF Proper
<1>3. home = Calm(e) /\ e \in {"silent", "closed"}
  BY DEF Home
<1>4. Run(sources, home, begun)
  <2> DEFINE s == Sources(source.edb)
  <2>1. Fed(e) = e
    BY DEF Fed
  <2>2. /\ s.op = "sources"
        /\ After(Label(e, "clean", "clean"), s, r) =
             IF r \in source.edb THEN Label(Fed(e), "dirty", "clean") ELSE Label(e, "clean", "clean")
    BY AfterSourcesLabel
  <2>3. Covers(Label(e, "dirty", "clean"), Label(e, "clean", "clean"))
    BY LabelParts DEF Covers
  <2>4. Covers(begun, After(home, s, r))
    BY <1>3, <2>1, <2>2, <2>3, CoversOrder DEF Busy, Calm
  <2> HIDE DEF s, begun, home
  <2>5. Follows(home, s, begun, out, r)
    BY <2>2, <2>4, Leads
  <2> QED
    BY <2>5, RunsOne, SeqOne DEF s
<1>5. Run(body, begun, begun)
  <2> DEFINE seqs == LoweredStrata(strata)
  <2>1. /\ IsSeq(seqs) /\ Len(seqs) = Len(strata)
        /\ \A i \in 1..Len(strata) :
             \E c \in Components(source) :
               /\ strata[i] = StratumOf(source, c)
               /\ seqs[i] = LowerStratum(strata[i])
               /\ IsStratum(seqs[i], c)
    BY LoweredStrataParts
  <2> HIDE DEF seqs
  <2>2. ASSUME NEW i \in 1..Len(seqs) PROVE Run(seqs[i], begun, begun)
    <3>1. PICK c \in Components(source) :
            strata[i] = StratumOf(source, c) /\ seqs[i] = LowerStratum(strata[i]) /\ IsStratum(seqs[i], c)
      BY <2>1
    <3>2. c \subseteq source.idb /\ IsFiniteSet(c)
      BY ComponentOutputs
    <3>3. CASE r \in c
      <4>1. begun = Busy("closed")
        BY <3>2, <3>3
      <4>2. Runs(seqs[i], Busy("closed"), Busy("closed"), out, r)
        BY <3>1, <3>2, <3>3, StratumRuns
      <4> QED
        BY <3>1, <4>1, <4>2 DEF IsStratum
    <3>4. CASE r \notin c
      <4>1. begun = Label(begun.emit, begun.delta, begun.new)
        <5>1. \A f, d, n : LET k == Label(f, d, n) IN k = Label(k.emit, k.delta, k.new)
          BY LabelParts
        <5> QED
          BY <1>3, <5>1 DEF Busy, Calm
      <4> HIDE DEF begun
      <4>2. Runs(seqs[i], Label(begun.emit, begun.delta, begun.new),
                 Label(begun.emit, begun.delta, begun.new), out, r)
        BY <3>1, <3>4, ElsewhereRuns
      <4> QED
        BY <3>1, <4>1, <4>2 DEF IsStratum
    <3> QED
      BY <3>3, <3>4
  <2> HIDE DEF begun
  <2>3. Runs(FlattenSeq(seqs), begun, begun, out, r)
    BY <2>1, <2>2, RunsFlatten
  <2>4. IsSeq(FlattenSeq(seqs))
    BY <2>1, <2>2, FlattenRange
  <2> QED
    BY <2>3, <2>4 DEF seqs
<1>6. Run(inputs, begun, fed)
  <2>1. IsSeq(inputs)
    BY <1>2, MergeInputsParts
  <2>2. /\ Runs(inputs, Calm("silent"), Calm("silent"), out, r)
        /\ r \in source.edb => Runs(inputs, Busy("silent"), Calm("silent"), out, r)
        /\ r \notin source.edb => \A f, d, n : Runs(inputs, Label(f, d, n), Label(f, d, n), out, r)
    BY <1>2, MergesInputs
  <2> HIDE DEF inputs
  <2>3. CASE r \in source.edb
    BY <1>2, <1>3, <2>1, <2>2, <2>3
  <2>4. CASE r \in source.idb
    <3>1. Runs(inputs, Busy(e), Busy(e), out, r)
      BY <1>2, <2>2, <2>4 DEF Busy
    <3> QED
      BY <2>1, <2>4, <3>1
  <2>5. CASE r \notin source.edb \cup source.idb
    BY <1>3, <2>1, <2>2, <2>5
  <2> QED
    BY <2>3, <2>4, <2>5
<1>7. Run(purges, fed, home)
  <2>0. IsFiniteSet(source.idb)
    BY <1>2
  <2>1. IsSeq(purges) /\ ToSet(purges) = {Purge(Key(q, "Delta")) : q \in source.idb}
    BY ONLY <2>0, PurgesParts
  <2> HIDE DEF e
  <2>2. /\ Runs(purges, Calm(e), Calm(e), out, r)
        /\ r \in source.idb => Runs(purges, Busy(e), Calm(e), out, r)
    BY <1>2, <1>3, PurgesDeltas
  <2> HIDE DEF purges
  <2> QED
    BY <1>3, <2>1, <2>2
<1>8. ASSUME NEW p, NEW q, NEW a, NEW b, NEW k, Run(p, a, b), Run(q, b, k) PROVE Run(p \o q, a, k)
  BY <1>8, RunsConcat, SeqConcat
<1> HIDE DEF sources, body, inputs, purges, code, e, home, begun, fed, Run
<1>9. Run(sources \o body, home, begun)
  BY <1>4, <1>5, <1>8
<1>10. Run(sources \o body \o inputs, home, fed)
  BY <1>6, <1>8, <1>9
<1>11. Run(sources \o body \o inputs \o purges, home, home)
  BY <1>7, <1>8, <1>10
<1> QED
  BY <1>1, <1>11 DEF Run, code, home

-----------------------------------------------------------------------------
(* The labels along the code that the machine runs.                         *)

\* The labels between the statements of a program, those inside its loops, and
\* the one at a position of pc.
LabelsOf(n, r) ==
  LET home == Home(Ast[n].source, r)
  IN  CHOOSE L : IsRun(L, Programs[n], home, home, home, r)

LoopLabels(n, i, r) ==
  CHOOSE B : IsLoop(B, Programs[n][i].body, LabelsOf(n, r)[i], LabelsOf(n, r)[i + 1], r)

LabelAt(n, outer, inner, r) ==
  IF Programs[n][outer + 1].op = "loop" THEN LoopLabels(n, outer + 1, r)[inner + 1]
  ELSE LabelsOf(n, r)[outer + 1]

\* What is known of each relation at the statement that is next.
LabelInv == \A r \in Relations : Holds(LabelAt(program, pc.outer, pc.inner, r), r)

\* A remainder below the modulus.
LEMMA Wraps ==
  ASSUME NEW n \in Nat \ {0}, NEW a \in 1..n
  PROVE  a % n = IF a = n THEN 0 ELSE a
OBVIOUS

\* A program's labels are a run from the labels between two epochs to
\* themselves, with loops where it has loops.
LEMMA LabelsRun ==
  ASSUME NEW n \in DOMAIN Programs, NEW r
  PROVE  LET code == Programs[n]
             L == LabelsOf(n, r)
             home == Home(Ast[n].source, r)
         IN  /\ WellFormed(code)
             /\ L[1] = home /\ L[Len(code) + 1] = home
             /\ \A i \in 1..Len(code) :
                  /\ code[i].op # "loop" => Passes(L[i], code[i], L[i + 1], home, r)
                  /\ code[i].op = "loop" => IsLoop(LoopLabels(n, i, r), code[i].body, L[i], L[i + 1], r)
<1> DEFINE code == Programs[n]
           L == LabelsOf(n, r)
           home == Home(Ast[n].source, r)
<1>1. Runs(code, home, home, home, r)
  BY ProgramsFit, CodeRuns DEF Fits
<1>2. IsRun(L, code, home, home, home, r)
  BY <1>1 DEF Runs, LabelsOf
<1>3. WellFormed(code)
  BY ProgramAssumption
<1>4. ASSUME NEW i \in 1..Len(code), code[i].op = "loop"
      PROVE  IsLoop(LoopLabels(n, i, r), code[i].body, L[i], L[i + 1], r)
  <2>1. \E B : IsLoop(B, code[i].body, L[i], L[i + 1], r)
    BY <1>2, <1>4 DEF IsRun, Follows
  <2> QED
    BY <2>1 DEF LoopLabels
<1>5. ASSUME NEW i \in 1..Len(code), code[i].op # "loop"
      PROVE  Passes(L[i], code[i], L[i + 1], home, r)
  BY <1>2, <1>5 DEF IsRun, Follows
<1>6. L[1] = home /\ L[Len(code) + 1] = home
  BY <1>2 DEF IsRun
<1> QED
  BY <1>3, <1>4, <1>5, <1>6

\* The label where the next statement is entered covers the label after the
\* statement that was left.
LEMMA Entering ==
  ASSUME NEW n \in DOMAIN Programs, NEW r, NEW o \in 1..Len(Programs[n]),
         NEW next, next = o % Len(Programs[n])
  PROVE  Covers(LabelAt(n, next, IF Programs[n][next + 1].op = "loop" /\ next # 0 THEN 0 ELSE None, r),
                LabelsOf(n, r)[o + 1])
<1> DEFINE code == Programs[n]
           L == LabelsOf(n, r)
           j == IF code[next + 1].op = "loop" /\ next # 0 THEN 0 ELSE None
<1>1. /\ Len(code) \in Nat \ {0} /\ code[1].op = "sources"
      /\ L[1] = L[Len(code) + 1]
      /\ \A i \in 1..Len(code) :
           code[i].op = "loop" => IsLoop(LoopLabels(n, i, r), code[i].body, L[i], L[i + 1], r)
  BY LabelsRun DEF WellFormed
<1> HIDE DEF code
<1>2. o \in 1..Len(code)
  BY DEF code
<1>3. next = IF o = Len(code) THEN 0 ELSE o
  BY <1>1, <1>2, Wraps DEF code
<1>4. CASE o = Len(code)
  <2>1. next = 0 /\ next + 1 = 1 /\ code[next + 1].op # "loop"
    BY <1>1, <1>3, <1>4
  <2>2. LabelAt(n, next, j, r) = L[1]
    BY <2>1 DEF LabelAt, code
  <2>3. Covers(LabelAt(n, next, j, r), L[o + 1])
    BY <1>1, <1>4, <2>2, CoversOrder
  <2> QED
    BY <2>3 DEF code
<1>5. CASE o # Len(code) /\ code[o + 1].op = "loop"
  <2>1. next = o /\ o # 0 /\ o + 1 \in 1..Len(code)
    BY <1>1, <1>2, <1>3, <1>5
  <2>2. j = 0
    BY <1>5, <2>1
  <2>3. LabelAt(n, next, j, r) = LoopLabels(n, o + 1, r)[1]
    BY <1>5, <2>1, <2>2 DEF LabelAt, code
  <2>4. Covers(LabelAt(n, next, j, r), L[o + 1])
    BY <1>1, <1>5, <2>1, <2>3 DEF IsLoop
  <2> QED
    BY <2>4 DEF code
<1>6. CASE o # Len(code) /\ code[o + 1].op # "loop"
  <2>1. next = o
    BY <1>3, <1>6
  <2>2. LabelAt(n, next, j, r) = L[o + 1]
    BY <1>6, <2>1 DEF LabelAt, code
  <2>3. Covers(LabelAt(n, next, j, r), L[o + 1])
    BY <2>2, CoversOrder
  <2> QED
    BY <2>3 DEF code
<1> QED
  BY <1>4, <1>5, <1>6

\* Inside a loop the next label covers what a statement leaves.
LEMMA Circling ==
  ASSUME NEW body, Len(body) \in Nat \ {0}, NEW B, NEW l, NEW m, NEW r, IsLoop(B, body, l, m, r),
         NEW i \in 0..(Len(body) - 1)
  PROVE  Covers(B[((i + 1) % Len(body)) + 1], After(B[i + 1], body[i + 1], r))
<1>1. i + 1 \in 1..Len(body)
  OBVIOUS
<1>2. Covers(B[(i + 1) + 1], After(B[i + 1], body[i + 1], r)) /\ Covers(B[1], B[Len(body) + 1])
  BY <1>1 DEF IsLoop, Passes
<1>3. CASE i + 1 = Len(body)
  <2>1. (i + 1) % Len(body) = 0 /\ 0 + 1 = 1
    BY <1>1, <1>3, Wraps
  <2> QED
    BY <1>2, <1>3, <2>1, CoversOrder
<1>4. CASE i + 1 # Len(body)
  <2>1. (i + 1) % Len(body) = i + 1
    BY <1>1, <1>4, Wraps
  <2> QED
    BY <1>2, <2>1
<1> QED
  BY <1>3, <1>4

\* A label that covers one that holds after a step holds.
LEMMA CoversNext ==
  ASSUME NEW r, NEW k, NEW m, Holds(k, r)', Covers(m, k)
  PROVE  Holds(m, r)'
<1> DEFINE S == Written(r)'
           T == rel'[<<r, "Total">>]
           D == rel'[<<r, "Delta">>]
<1>1. EmitHolds(k.emit, S, T, D)
  BY DEF Holds
<1> HIDE DEF S, T, D
<1>2. EmitHolds(m.emit, S, T, D)
  BY <1>1, CoversHolds
<1>3. (m.delta = "clean" => k.delta = "clean") /\ (m.new = "clean" => k.new = "clean")
  BY DEF Covers
<1> QED
  BY <1>2, <1>3 DEF Holds, S, T, D

\* A step that goes on leads from label to label.
LEMMA StepGoesOn ==
  ASSUME IInv, Step, NEW r \in Relations, NEW l, l = LabelAt(program, pc.outer, pc.inner, r),
         Holds(l, r), Continue(pc.inner)
  PROVE  Holds(LabelAt(program, pc.outer, pc.inner, r), r)'
<1> DEFINE n == program
           o == pc.outer + 1
           L == LabelsOf(n, r)
<1>1. PICK m : m = After(l, Current, r)
  OBVIOUS
<1>2. Holds(m, r)'
  BY <1>1, AfterHolds
<1>3. PICK k : k = LabelAt(program', pc'.outer, pc'.inner, r)
  OBVIOUS
<1>4. SUFFICES Covers(k, m)
  <2>1. ASSUME Covers(k, m) PROVE Holds(k, r)'
    BY <1>2, <2>1, CoversNext
  <2> QED
    BY <1>3, <2>1
<1>5. /\ n \in DOMAIN Programs /\ program' = n /\ pc' = StepPc(pc.inner) /\ Code = Programs[n]
      /\ o \in 1..Len(Programs[n]) /\ Outer = Programs[n][o]
  BY AtStatement DEF IInv, TypeOK, Continue, Code, Outer
<1>6. CASE Outer.op # "loop"
  <2>1. pc.inner = None /\ Current = Outer /\ l = L[o]
    BY <1>5, <1>6 DEF IInv, Control, PcOK, Current, LabelAt
  <2>2. Covers(L[o + 1], m)
    BY <1>1, <1>5, <1>6, <2>1, LabelsRun DEF Passes
  <2> DEFINE next == o % Len(Programs[n])
  <2>3. pc'.outer = next /\ pc'.inner = IF Programs[n][next + 1].op = "loop" /\ next # 0 THEN 0 ELSE None
    BY <1>5, <2>1 DEF StepPc
  <2> HIDE DEF next
  <2>4. Covers(LabelAt(n, next, IF Programs[n][next + 1].op = "loop" /\ next # 0 THEN 0 ELSE None, r),
               L[o + 1])
    BY <1>5, Entering DEF next
  <2>5. Covers(k, L[o + 1])
    BY <1>3, <1>5, <2>3, <2>4
  <2> QED
    BY <2>2, <2>5, CoversOrder
<1>7. CASE Outer.op = "loop"
  <2> DEFINE body == Outer.body
             B == LoopLabels(n, o, r)
             i == pc.inner
  <2>1. Len(body) \in Nat \ {0} /\ i \in 0..(Len(body) - 1) /\ i # None
    <3>1. Len(body) \in Nat \ {0} /\ i \in Nat /\ i + 1 \in 1..Len(body)
      BY <1>7, AtStatement
    <3> QED
      BY <3>1, ConstantAssumption
  <2>2. Current = body[i + 1] /\ l = B[i + 1]
    BY <1>5, <1>7 DEF Current, LabelAt
  <2>3. pc'.outer = pc.outer /\ pc'.inner = (i + 1) % Len(body)
    BY <1>5, <2>1 DEF StepPc
  <2>4. IsLoop(B, body, L[o], L[o + 1], r)
    BY <1>5, <1>7, LabelsRun
  <2>5. k = B[((i + 1) % Len(body)) + 1]
    BY <1>3, <1>5, <1>7, <2>3 DEF LabelAt
  <2> HIDE DEF B, body
  <2> QED
    BY <1>1, <2>1, <2>2, <2>4, <2>5, Circling
<1> QED
  BY <1>6, <1>7

\* A step that leaves a loop does.
LEMMA StepLeaves ==
  ASSUME IInv, HandleExit, NEW r \in Relations, NEW l, l = LabelAt(program, pc.outer, pc.inner, r),
         Holds(l, r), \A k \in Current.keys : rel[k] = {}
  PROVE  Holds(LabelAt(program, pc.outer, pc.inner, r), r)'
<1> DEFINE n == program
           o == pc.outer + 1
           L == LabelsOf(n, r)
           B == LoopLabels(n, o, r)
           next == o % Len(Programs[n])
<1>1. /\ n \in DOMAIN Programs /\ program' = n /\ pc' = StepPc(None) /\ Code = Programs[n]
      /\ o \in 1..Len(Programs[n]) /\ Outer = Programs[n][o]
  <2>1. Continue(None)
    BY DEF HandleExit
  <2> QED
    BY <2>1, AtStatement DEF IInv, TypeOK, Continue, Code, Outer
<1>2. Current.op = "exit"
  BY DEF HandleExit, At
<1>3. Outer.op = "loop"
  <2>1. Outer.op # "loop" => Outer.op # "exit"
    BY <1>1, AtStatement DEF WellFormed
  <2> QED
    BY <1>2, <2>1 DEF Current
<1>4. Current = Outer.body[pc.inner + 1] /\ l = B[pc.inner + 1] /\ pc.inner + 1 \in 1..Len(Outer.body)
  BY <1>1, <1>3, AtStatement DEF Current, LabelAt
<1>5. IsLoop(B, Outer.body, L[o], L[o + 1], r)
  BY <1>1, <1>3, LabelsRun
<1>6. Covers(L[o + 1], Leaving(l, Current, r))
  BY <1>2, <1>4, <1>5 DEF IsLoop, Passes
<1>7. PICK m : m = Leaving(l, Current, r)
  OBVIOUS
<1>8. Holds(m, r)'
  <2>1. rel' = rel /\ sunk' = sunk
    BY DEF HandleExit, store
  <2>2. /\ m.emit = l.emit
        /\ m.delta = IF <<r, "Delta">> \in Current.keys THEN "clean" ELSE l.delta
        /\ m.new = IF <<r, "New">> \in Current.keys THEN "clean" ELSE l.new
    BY <1>7, LabelParts DEF Leaving
  <2> QED
    BY <2>1, <2>2 DEF Holds, Written
<1>9. PICK k : k = LabelAt(program', pc'.outer, pc'.inner, r)
  OBVIOUS
<1>10. pc'.outer = next /\ pc'.inner = IF Programs[n][next + 1].op = "loop" /\ next # 0 THEN 0 ELSE None
  BY <1>1 DEF StepPc
<1> HIDE DEF next
<1>11. Covers(LabelAt(n, next, IF Programs[n][next + 1].op = "loop" /\ next # 0 THEN 0 ELSE None, r),
              L[o + 1])
  BY <1>1, Entering DEF next
<1>12. Covers(k, m)
  <2>1. Covers(k, L[o + 1])
    BY <1>1, <1>9, <1>10, <1>11
  <2> QED
    BY <1>6, <1>7, <2>1, CoversOrder
<1>13. Holds(k, r)'
  BY <1>8, <1>12, CoversNext
<1> QED
  BY <1>9, <1>13

\* An epoch that has nothing to do changes nothing.
LEMMA SourcesStop ==
  ASSUME IInv, HandleSources, ~ Continue(pc.inner)
  PROVE  rel' = rel /\ UNCHANGED <<program, pc, sunk>>
<1>1. input = <<>> /\ UNCHANGED <<program, pc, sunk>>
  BY DEF HandleSources
<1>2. \A q : Given(q) = {}
  BY <1>1 DEF Given
<1>3. \A k \in Keys : rel'[k] = rel[k]
  BY <1>2 DEF HandleSources
<1>4. rel \in [Keys -> SUBSET Facts] /\ rel' = [k \in Keys |-> rel'[k]]
  BY DEF IInv, TypeOK, HandleSources
<1> QED
  BY <1>1, <1>3, <1>4

\* The labels hold at the start ...
LEMMA InitLabel == Init => LabelInv
<1> SUFFICES ASSUME Init, NEW r \in Relations PROVE Holds(LabelAt(program, pc.outer, pc.inner, r), r)
  BY DEF LabelInv
<1> DEFINE home == Home(Ast[program].source, r)
<1>1. program \in DOMAIN Programs /\ pc = [outer |-> 0, inner |-> None]
  BY DEF Init
<1>2. LabelsOf(program, r)[1] = home /\ Programs[program][1].op = "sources"
  BY <1>1, LabelsRun DEF WellFormed
<1>3. LabelAt(program, pc.outer, pc.inner, r) = home
  BY <1>1, <1>2 DEF LabelAt
<1>4. rel[<<r, "New">>] = {} /\ rel[<<r, "Delta">>] = {} /\ rel[<<r, "Total">>] = {}
  BY DEF Init, Keys, Versions
<1>5. Written(r) = {}
  BY DEF Init, Written
<1>6. home.emit \in {"silent", "closed"}
  BY LabelParts DEF Home, Calm
<1>7. Holds(home, r)
  BY <1>4, <1>5, <1>6 DEF Holds, EmitHolds
<1> QED
  BY <1>3, <1>7

\* ... and every step keeps them.
LEMMA NextLabel == IInv /\ LabelInv /\ [Next]_vars => LabelInv'
<1> SUFFICES ASSUME IInv, LabelInv, [Next]_vars, NEW r \in Relations
             PROVE  Holds(LabelAt(program, pc.outer, pc.inner, r), r)'
  BY DEF LabelInv
<1>1. Holds(LabelAt(program, pc.outer, pc.inner, r), r)
  BY DEF LabelInv
<1>2. PICK l : l = LabelAt(program, pc.outer, pc.inner, r)
  OBVIOUS
<1>3. Holds(l, r)
  BY <1>1, <1>2
<1>4. ASSUME rel' = rel, UNCHANGED <<program, pc, sunk>>
      PROVE  Holds(LabelAt(program, pc.outer, pc.inner, r), r)'
  <2>1. l = LabelAt(program', pc'.outer, pc'.inner, r)
    BY <1>2, <1>4
  <2>2. Holds(l, r)'
    BY <1>3, <1>4 DEF Holds, Written
  <2> QED
    BY <2>1, <2>2
<1>5. CASE Step
  <2>1. CASE Continue(pc.inner)
    BY <1>2, <1>3, <1>5, <2>1, StepGoesOn
  <2>2. CASE HandleSources /\ ~ Continue(pc.inner)
    BY <1>4, <2>2, SourcesStop
  <2>3. CASE HandleExit /\ ~ Continue(pc.inner)
    <3>1. \A k \in Current.keys : rel[k] = {}
      BY <2>3 DEF HandleExit
    <3> QED
      BY <1>2, <1>3, <2>3, <3>1, StepLeaves
  <2>4. CASE HandleInsert \/ HandleMerge \/ HandleSwap \/ HandlePurge \/ HandleSinks
    <3>1. Continue(pc.inner)
      BY <2>4 DEF HandleInsert, HandleMerge, HandleSwap, HandlePurge, HandleSinks
    <3> QED
      BY <2>1, <3>1
  <2> QED
    BY <1>5, <2>1, <2>2, <2>3, <2>4 DEF Step
<1>6. CASE \E f \in Facts : Push(f)
  BY <1>4, <1>6 DEF Push, store
<1>7. CASE \E f \in Facts : Pop(f)
  BY <1>4, <1>7 DEF Pop
<1>8. CASE StartEpoch
  BY <1>4, <1>8 DEF StartEpoch, store
<1>9. CASE UNCHANGED vars
  BY <1>4, <1>9 DEF vars
<1> QED
  BY <1>5, <1>6, <1>7, <1>8, <1>9 DEF Next

\* The labels hold wherever the machine is: the loop's labels are what makes
\* the sinks and the merges of an iteration add up to what the next one needs.
THEOREM LabelsHold == Spec => []LabelInv
<1>1. Init => IInv /\ LabelInv
  BY InitInv, InitLabel
<1>2. IInv /\ LabelInv /\ [Next]_vars => (IInv /\ LabelInv)'
  BY NextInv, NextLabel
<1> QED
  BY <1>1, <1>2, PTL DEF Spec

\* Between two epochs the labels are those a program starts from.
LEMMA LabelsAtRest ==
  ASSUME IInv, LabelInv, phase = "idle", NEW r \in Relations
  PROVE  /\ rel[<<r, "Delta">>] = {} /\ rel[<<r, "New">>] = {}
         /\ Written(r) = IF r \in Source.idb THEN rel[<<r, "Total">>] ELSE {}
<1> DEFINE home == Home(Ast[program].source, r)
<1>1. program \in DOMAIN Programs /\ pc.outer = 0
  BY DEF IInv, TypeOK, Control, IdleOK
<1>2. LabelsOf(program, r)[1] = home /\ Programs[program][1].op = "sources"
  BY <1>1, LabelsRun DEF WellFormed
<1>3. LabelAt(program, pc.outer, pc.inner, r) = home
  BY <1>1, <1>2 DEF LabelAt
<1>4. Holds(home, r)
  BY <1>3 DEF LabelInv
<1>5. /\ home.emit = IF r \in Source.idb THEN "closed" ELSE "silent"
      /\ home.delta = "clean" /\ home.new = "clean"
  BY LabelParts DEF Home, Calm, Source
<1> HIDE DEF home
<1> QED
  BY <1>4, <1>5 DEF Holds, EmitHolds

\* Nothing that one epoch derived is news to the next: between epochs every
\* New and every Delta is empty, however the loops ended, for every program
\* (the purges and exits of lower_to_ram.rs, handle_exit in vm.rs).
THEOREM NothingIsLeftOver == Spec => []ScratchIsEmpty
<1>1. IInv /\ LabelInv => ScratchIsEmpty
  BY LabelsAtRest DEF ScratchIsEmpty
<1> QED
  BY Invariance, LabelsHold, <1>1, PTL

\* By the end of an epoch the sinks have been given exactly the facts that are
\* known of the outputs: each one reached a Delta in front of its sinks before
\* or as it reached Total, in a loop and out of it (lower_to_ram.rs, the order
\* of sinks, merges, exit and swaps; sinks.rs).
THEOREM EmitsWhatItDerives == Spec => []EmittedIsDerived
<1>1. IInv /\ LabelInv => EmittedIsDerived
  <2> SUFFICES ASSUME IInv, LabelInv, phase = "idle"
               PROVE  {f \in Facts : sunk[f] # <<>>} = UNION {rel[<<r, "Total">>] : r \in Source.idb}
    BY DEF EmittedIsDerived, TotalOf
  <2>1. Source.idb \subseteq Relations
    BY ProgramsFit DEF IInv, TypeOK, Source, Fits
  <2>2. \A r \in Relations : Written(r) = IF r \in Source.idb THEN rel[<<r, "Total">>] ELSE {}
    BY LabelsAtRest
  <2>3. \A f \in Facts : f.rel \in Relations
    BY ConstantAssumption
  <2>4. ASSUME NEW f \in Facts, sunk[f] # <<>>
        PROVE  f.rel \in Source.idb /\ f \in rel[<<f.rel, "Total">>]
    <3>1. f \in Written(f.rel)
      BY <2>4 DEF Written
    <3> QED
      BY <2>2, <2>3, <3>1
  <2>5. ASSUME NEW r \in Source.idb, NEW f \in rel[<<r, "Total">>] PROVE f \in Facts /\ sunk[f] # <<>>
    <3>1. f \in Written(r)
      BY <2>1, <2>2
    <3> QED
      BY <3>1 DEF Written
  <2> QED
    BY <2>4, <2>5
<1> QED
  BY Invariance, LabelsHold, <1>1, PTL

=============================================================================
