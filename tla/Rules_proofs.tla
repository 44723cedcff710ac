---------------------------- MODULE Rules_proofs ----------------------------
(***************************************************************************)
(* Lemmas about the lowering of a single rule: its rewrites, the order of   *)
(* the terms of each, and what the rows of the statements ask for.  They    *)
(* hold of every rule that the builder lets through.                        *)
(***************************************************************************)
EXTENDS LowerToRam, Selecting_proofs

-----------------------------------------------------------------------------
(* Sequences of any elements.                                               *)

\* The elements of a sequence and their places.
LEMMA SeqParts ==
  ASSUME NEW p, IsSeq(p)
  PROVE  /\ Len(p) \in Nat /\ DOMAIN p = 1..Len(p)
         /\ \A i \in 1..Len(p) : p[i] \in ToSet(p)
         /\ \A x \in ToSet(p) : \E i \in 1..Len(p) : x = p[i]
<1>1. Len(p) \in Nat /\ DOMAIN p = 1..Len(p)
  BY DEF IsSeq
<1> QED
  BY <1>1 DEF ToSet

\* A function on 1..n is a sequence.
LEMMA SeqFrom ==
  ASSUME NEW n \in Nat, NEW f, f = [i \in 1..n |-> f[i]]
  PROVE  IsSeq(f) /\ Len(f) = n
<1>1. \A i \in 1..n : f[i] \in ToSet(f)
  BY DEF ToSet
<1>2. f \in [1..n -> ToSet(f)]
  BY <1>1
<1> QED
  BY <1>2 DEF IsSeq

\* A sequence mapped is a sequence of the same length.
LEMMA SeqMap ==
  ASSUME NEW q, IsSeq(q), NEW f, f = [i \in DOMAIN q |-> f[i]]
  PROVE  IsSeq(f) /\ Len(f) = Len(q) /\ DOMAIN f = 1..Len(q)
<1>1. Len(q) \in Nat /\ DOMAIN q = 1..Len(q)
  BY SeqParts
<1>2. f = [i \in 1..Len(q) |-> f[i]]
  BY <1>1
<1>3. IsSeq(f) /\ Len(f) = Len(q)
  BY <1>1, <1>2, SeqFrom
<1> QED
  BY <1>3, SeqParts

\* Nothing, one element, and one sequence after another.
LEMMA SeqEmpty == IsSeq(<<>>) /\ Len(<<>>) = 0
<1>1. <<>> \in Seq(ToSet(<<>>))
  OBVIOUS
<1> QED
  BY <1>1 DEF IsSeq

\* The sequence of one element.
LEMMA SeqOne ==
  ASSUME NEW x
  PROVE  IsSeq(<<x>>) /\ Len(<<x>>) = 1 /\ <<x>>[1] = x /\ ToSet(<<x>>) = {x}
<1>1. Len(<<x>>) = 1 /\ <<x>>[1] = x /\ DOMAIN <<x>> = 1..1
  OBVIOUS
<1>2. ToSet(<<x>>) = {x}
  BY <1>1 DEF ToSet
<1>3. <<x>> \in Seq({x})
  OBVIOUS
<1> QED
  BY <1>1, <1>2, <1>3 DEF IsSeq

\* The length, the places and the elements of two sequences in a row.
LEMMA SeqConcat ==
  ASSUME NEW p, NEW q, IsSeq(p), IsSeq(q)
  PROVE  /\ IsSeq(p \o q)
         /\ Len(p \o q) = Len(p) + Len(q)
         /\ \A i \in 1..Len(p) : (p \o q)[i] = p[i]
         /\ \A i \in 1..Len(q) : (p \o q)[Len(p) + i] = q[i]
         /\ ToSet(p \o q) = ToSet(p) \cup ToSet(q)
<1> DEFINE S == ToSet(p) \cup ToSet(q)
           r == p \o q
<1>1. p \in Seq(S) /\ q \in Seq(S)
  <2>1. p \in Seq(ToSet(p)) /\ q \in Seq(ToSet(q))
    BY DEF IsSeq
  <2> QED
    BY <2>1
<1> HIDE DEF S
<1>2. /\ r \in Seq(S) /\ Len(r) = Len(p) + Len(q)
      /\ Len(p) \in Nat /\ Len(q) \in Nat
      /\ \A i \in 1..Len(p) : r[i] = p[i]
      /\ \A i \in 1..Len(q) : r[Len(p) + i] = q[i]
  BY <1>1
<1> HIDE DEF r
<1>3. DOMAIN r = 1..(Len(p) + Len(q)) /\ DOMAIN p = 1..Len(p) /\ DOMAIN q = 1..Len(q)
  BY <1>1, <1>2
<1>4. ToSet(r) \subseteq ToSet(p) \cup ToSet(q)
  <2> SUFFICES ASSUME NEW i \in 1..(Len(p) + Len(q)) PROVE r[i] \in ToSet(p) \cup ToSet(q)
    BY <1>3 DEF ToSet
  <2>1. CASE i \in 1..Len(p)
    BY <1>2, <1>3, <2>1 DEF ToSet
  <2>2. CASE i \notin 1..Len(p)
    <3>1. i - Len(p) \in 1..Len(q) /\ Len(p) + (i - Len(p)) = i
      BY <1>2, <2>2
    <3>2. r[i] = q[i - Len(p)]
      BY <1>2, <3>1
    <3> QED
      BY <1>3, <3>1, <3>2 DEF ToSet
  <2> QED
    BY <2>1, <2>2
<1>5. ToSet(p) \subseteq ToSet(r)
  <2> SUFFICES ASSUME NEW i \in 1..Len(p) PROVE p[i] \in ToSet(r)
    BY <1>3 DEF ToSet
  <2>1. i \in 1..(Len(p) + Len(q)) /\ r[i] = p[i]
    BY <1>2
  <2> QED
    BY <1>3, <2>1 DEF ToSet
<1>6. ToSet(q) \subseteq ToSet(r)
  <2> SUFFICES ASSUME NEW i \in 1..Len(q) PROVE q[i] \in ToSet(r)
    BY <1>3 DEF ToSet
  <2>1. Len(p) + i \in 1..(Len(p) + Len(q)) /\ r[Len(p) + i] = q[i]
    BY <1>2
  <2> QED
    BY <1>3, <2>1 DEF ToSet
<1>7. r \in Seq(ToSet(r))
  <2>1. ToSet(r) = S
    BY <1>4, <1>5, <1>6 DEF S
  <2> QED
    BY <1>2, <2>1
<1> QED
  BY <1>2, <1>4, <1>5, <1>6, <1>7 DEF r, IsSeq

-----------------------------------------------------------------------------
(* The order of the terms of a rule.                                        *)

AtLeast(p, q) == p[1] > q[1] \/ (p[1] = q[1] /\ p[2] >= q[2])

\* Of finitely many places one has the highest priority and is the last that
\* has it.
LEMMA Highest ==
  ASSUME NEW p, NEW n \in Nat, NEW R \in SUBSET (1..n), R # {},
         \A i \in R : p[i][1] \in Int /\ p[i][2] \in Int
  PROVE  \E i \in R : \A j \in R : AtLeast(p[i], p[j]) /\ (AtLeast(p[j], p[i]) => j <= i)
<1> DEFINE Top(Q, i) == \A j \in Q : AtLeast(p[i], p[j]) /\ (AtLeast(p[j], p[i]) => j <= i)
           N == {m \in Nat : \A Q \in SUBSET (1..m) :
                   Q # {} /\ Q \subseteq R => \E i \in Q : Top(Q, i)}
<1>1. 0 \in N
  <2>1. \A Q \in SUBSET (1..0) : Q = {}
    OBVIOUS
  <2> QED
    BY <2>1
<1>2. ASSUME NEW m \in Nat, m \in N PROVE m + 1 \in N
  <2> SUFFICES ASSUME NEW Q \in SUBSET (1..(m + 1)), Q # {}, Q \subseteq R
               PROVE  \E i \in Q : Top(Q, i)
    OBVIOUS
  <2> DEFINE W == Q \ {m + 1}
  <2>1. W \in SUBSET (1..m) /\ W \subseteq R
    OBVIOUS
  <2>2. CASE m + 1 \notin Q
    <3>1. W = Q
      BY <2>2
    <3> QED
      BY <1>2, <2>1, <3>1
  <2>3. CASE m + 1 \in Q /\ W = {}
    <3>1. \A j \in Q : j = m + 1
      BY <2>3
    <3>2. Top(Q, m + 1)
      BY <2>3, <3>1 DEF AtLeast
    <3> QED
      BY <2>3, <3>2
  <2>4. CASE m + 1 \in Q /\ W # {}
    <3>1. PICK i \in W : Top(W, i)
      BY <1>2, <2>1, <2>4
    <3>2. \A j \in Q : j = m + 1 \/ j \in W
      OBVIOUS
    <3>3. \A j \in Q : p[j][1] \in Int /\ p[j][2] \in Int
      OBVIOUS
    <3>4. \A j \in W : j <= m + 1
      BY <2>1
    <3>5. CASE AtLeast(p[m + 1], p[i])
      <4>1. \A j \in Q : AtLeast(p[m + 1], p[j])
        BY <2>4, <3>1, <3>2, <3>3, <3>5 DEF AtLeast
      <4>2. \A j \in Q : j <= m + 1
        OBVIOUS
      <4>3. Top(Q, m + 1)
        BY <4>1, <4>2
      <4> QED
        BY <2>4, <4>3
    <3>6. CASE ~ AtLeast(p[m + 1], p[i])
      <4>1. AtLeast(p[i], p[m + 1])
        BY <2>4, <3>3, <3>6 DEF AtLeast
      <4>2. Top(Q, i)
        BY <3>1, <3>2, <3>6, <4>1
      <4> QED
        BY <4>2
    <3> QED
      BY <3>5, <3>6
  <2> QED
    BY <2>2, <2>3, <2>4
<1>3. Nat \subseteq N
  <2> HIDE DEF N
  <2> QED
    BY <1>1, <1>2, NatSet
<1>4. n \in N
  BY <1>3
<1> QED
  BY <1>4

\* A set of positions has a first one.
LEMMA FirstOf ==
  ASSUME NEW n \in Nat, NEW S \in SUBSET (1..n), S # {}
  PROVE  \E i \in S : \A j \in S : i <= j
<1> DEFINE p == [i \in 1..n |-> <<0 - i, 0>>]
<1>1. \A i \in 1..n : p[i][1] = 0 - i /\ p[i][2] = 0
  OBVIOUS
<1> HIDE DEF p
<1>2. \A i \in S : p[i][1] \in Int /\ p[i][2] \in Int
  BY <1>1
<1>3. PICK i \in S : \A j \in S : AtLeast(p[i], p[j]) /\ (AtLeast(p[j], p[i]) => j <= i)
  BY <1>2, Highest
<1>4. ASSUME NEW j \in S PROVE i <= j
  <2>1. 0 - i > 0 - j \/ 0 - i = 0 - j
    BY <1>1, <1>3 DEF AtLeast
  <2> QED
    BY <2>1
<1> QED
  BY <1>4

\* The elements of a sequence are finitely many.
LEMMA SeqFinite == ASSUME NEW q, IsSeq(q) PROVE IsFiniteSet(ToSet(q))
  BY ToSetFinite DEF IsSeq

\* The variables of an atom are finitely many.
LEMMA VarsFinite ==
  ASSUME NEW rule, NEW a, NEW relations, IsAtom(a, relations)
  PROVE  IsFiniteSet(VarsOf(rule, a))
<1> DEFINE values == {a.args[c] : c \in DOMAIN a.args}
           f == [c \in DOMAIN a.args |-> a.args[c]]
<1>1. f \in Surjection(DOMAIN a.args, values) /\ IsFiniteSet(DOMAIN a.args)
  BY DEF Surjection, IsAtom
<1>2. IsFiniteSet(values)
  <2> HIDE DEF f, values
  <2> QED
    BY <1>1, FS_Surjection
<1>3. VarsOf(rule, a) \in SUBSET values
  BY DEF VarsOf
<1> QED
  <2> HIDE DEF values
  <2> QED
  BY <1>2, <1>3, FS_Subset

\* What a term of a rewrite is.
IsTerm(t, rule, versions) ==
  \/ t.kind = "pred" /\ t.at \in DOMAIN rule.preds
  \/ t.kind = "neg" /\ t.at \in DOMAIN rule.neg
  \/ t.kind = "agg" /\ t.at \in DOMAIN rule.aggs
  \/ t.kind = "rel" /\ t.at \in DOMAIN versions /\ t.version = versions[t.at]

\* A rewrite has a version for each relational predicate.
IsRewrite(rule, versions) ==
  IsSeq(versions) /\ DOMAIN versions = DOMAIN rule.pos /\ ToSet(versions) \subseteq {"Delta", "Total"}

\* The semi-naive rewrites of a rule (lower_to_ram.rs) have that shape.
LEMMA RewriteParts ==
  ASSUME NEW rule, IsSeq(rule.pos)
  PROVE  IsSeq(SemiNaiveRewrites(rule)) /\ \A v \in ToSet(SemiNaiveRewrites(rule)) : IsRewrite(rule, v)
<1> DEFINE n == Len(rule.pos)
<1>1. n \in Nat /\ DOMAIN rule.pos = 1..n
  BY SeqParts
<1>2. CASE n = 0
  <2>1. SemiNaiveRewrites(rule) = <<(<<>>)>>
    BY <1>2 DEF SemiNaiveRewrites
  <2>2. ToSet(SemiNaiveRewrites(rule)) = {<<>>} /\ IsSeq(SemiNaiveRewrites(rule))
    BY <2>1, SeqOne
  <2>3. IsRewrite(rule, <<>>)
    <3>1. DOMAIN (<<>>) = 1..0
      OBVIOUS
    <3> QED
      BY <1>1, <1>2, <3>1, SeqEmpty, ToSetEmpty DEF IsRewrite
  <2> QED
    BY <2>2, <2>3
<1>3. CASE n # 0
  <2> DEFINE m == 2^n - 1
             Bit(mask, i) == (mask \div 2^(i - 1)) % 2
             V(mask) == [i \in 1..n |-> IF Bit(mask, i) = 1 THEN "Delta" ELSE "Total"]
             f == [mask \in 1..m |-> V(mask)]
  <2>1. SemiNaiveRewrites(rule) = f
    BY <1>3 DEF SemiNaiveRewrites
  <2>2. m \in Nat
    <3> DEFINE S == SUBSET (1..n)
    <3>1. Cardinality(1..n) = n /\ IsFiniteSet(1..n)
      <4>1. 1 \in Int /\ n \in Int
        BY <1>1
      <4>2. IsFiniteSet(1..n) /\ Cardinality(1..n) = IF 1 > n THEN 0 ELSE n - 1 + 1
        BY <4>1, FS_Interval
      <4> HIDE DEF n
      <4> QED
        BY <1>1, <4>2
    <3>2. IsFiniteSet(S) /\ Cardinality(S) = 2^n
      BY <3>1, FS_SUBSET
    <3>3. S # {}
      OBVIOUS
    <3> HIDE DEF S
    <3>4. Cardinality(S) \in Nat /\ Cardinality(S) # 0
      BY <3>2, <3>3, FS_CardinalityType, FS_EmptySet
    <3> QED
      BY <3>2, <3>4
  <2> HIDE DEF m, Bit
  <2>3. IsSeq(f)
    <3>1. f = [mask \in 1..m |-> f[mask]]
      OBVIOUS
    <3> QED
      BY <2>2, <3>1, SeqFrom
  <2>4. ASSUME NEW mask \in 1..m PROVE IsRewrite(rule, V(mask))
    <3>1. V(mask) = [i \in 1..n |-> V(mask)[i]]
      OBVIOUS
    <3>2. IsSeq(V(mask)) /\ DOMAIN V(mask) = 1..n
      BY <1>1, <3>1, SeqFrom
    <3>3. ToSet(V(mask)) \subseteq {"Delta", "Total"}
      BY DEF ToSet
    <3> QED
      BY <1>1, <3>2, <3>3 DEF IsRewrite
  <2>5. \A v \in ToSet(f) : \E mask \in 1..m : v = V(mask)
    BY DEF ToSet
  <2> QED
    BY <2>1, <2>3, <2>4, <2>5
<1> QED
  BY <1>2, <1>3

\* The terms of a rewrite are terms.
LEMMA TermsParts ==
  ASSUME NEW rule, NEW D, NEW O, ProperRule(rule, D, O), NEW versions, IsRewrite(rule, versions)
  PROVE  /\ IsSeq(Terms(rule, versions))
         /\ \A t \in ToSet(Terms(rule, versions)) : IsTerm(t, rule, versions)
<1> DEFINE preds == [i \in DOMAIN rule.preds |-> [kind |-> "pred", at |-> i, version |-> "none"]]
           negs == [i \in DOMAIN rule.neg |-> [kind |-> "neg", at |-> i, version |-> "none"]]
           aggs == [i \in DOMAIN rule.aggs |-> [kind |-> "agg", at |-> i, version |-> "none"]]
           rels == [i \in DOMAIN versions |-> [kind |-> "rel", at |-> i, version |-> versions[i]]]
<1>1. Terms(rule, versions) = preds \o negs \o aggs \o rels
  BY DEF Terms
<1>2. IsSeq(rule.preds) /\ IsSeq(rule.neg) /\ IsSeq(rule.aggs) /\ IsSeq(versions)
  BY DEF ProperRule, IsRewrite
<1>3. IsSeq(preds) /\ \A t \in ToSet(preds) : IsTerm(t, rule, versions)
  <2>1. preds = [i \in DOMAIN rule.preds |-> preds[i]]
    OBVIOUS
  <2>2. ASSUME NEW t \in ToSet(preds) PROVE IsTerm(t, rule, versions)
    <3>1. PICK i \in DOMAIN rule.preds : t = [kind |-> "pred", at |-> i, version |-> "none"]
      BY DEF ToSet
    <3>2. t.kind = "pred" /\ t.at = i
      BY <3>1
    <3> QED
      BY <3>2 DEF IsTerm
  <2> HIDE DEF preds
  <2> QED
    BY <1>2, <2>1, <2>2, SeqMap
<1>4. IsSeq(negs) /\ \A t \in ToSet(negs) : IsTerm(t, rule, versions)
  <2>1. negs = [i \in DOMAIN rule.neg |-> negs[i]]
    OBVIOUS
  <2>2. ASSUME NEW t \in ToSet(negs) PROVE IsTerm(t, rule, versions)
    <3>1. PICK i \in DOMAIN rule.neg : t = [kind |-> "neg", at |-> i, version |-> "none"]
      BY DEF ToSet
    <3>2. t.kind = "neg" /\ t.at = i
      BY <3>1
    <3> QED
      BY <3>2 DEF IsTerm
  <2> HIDE DEF negs
  <2> QED
    BY <1>2, <2>1, <2>2, SeqMap
<1>5. IsSeq(aggs) /\ \A t \in ToSet(aggs) : IsTerm(t, rule, versions)
  <2>1. aggs = [i \in DOMAIN rule.aggs |-> aggs[i]]
    OBVIOUS
  <2>2. ASSUME NEW t \in ToSet(aggs) PROVE IsTerm(t, rule, versions)
    <3>1. PICK i \in DOMAIN rule.aggs : t = [kind |-> "agg", at |-> i, version |-> "none"]
      BY DEF ToSet
    <3>2. t.kind = "agg" /\ t.at = i
      BY <3>1
    <3> QED
      BY <3>2 DEF IsTerm
  <2> HIDE DEF aggs
  <2> QED
    BY <1>2, <2>1, <2>2, SeqMap
<1>6. IsSeq(rels) /\ \A t \in ToSet(rels) : IsTerm(t, rule, versions)
  <2>1. rels = [i \in DOMAIN versions |-> rels[i]]
    OBVIOUS
  <2>2. \A t \in ToSet(rels) : IsTerm(t, rule, versions)
    BY DEF ToSet, IsTerm
  <2> HIDE DEF rels
  <2> QED
    BY <1>2, <2>1, <2>2, SeqMap
<1> HIDE DEF preds, negs, aggs, rels
<1>7. IsSeq(preds \o negs) /\ ToSet(preds \o negs) = ToSet(preds) \cup ToSet(negs)
  BY <1>3, <1>4, SeqConcat
<1>8. /\ IsSeq(preds \o negs \o aggs)
      /\ ToSet(preds \o negs \o aggs) = ToSet(preds \o negs) \cup ToSet(aggs)
  BY <1>5, <1>7, SeqConcat
<1>9. /\ IsSeq(preds \o negs \o aggs \o rels)
      /\ ToSet(preds \o negs \o aggs \o rels) = ToSet(preds \o negs \o aggs) \cup ToSet(rels)
  BY <1>6, <1>8, SeqConcat
<1> QED
  BY <1>1, <1>3, <1>4, <1>5, <1>6, <1>7, <1>8, <1>9

\* Priorities are pairs of numbers.
LEMMA PriorityParts ==
  ASSUME NEW rule, NEW D, NEW O, ProperRule(rule, D, O), NEW versions, IsRewrite(rule, versions),
         NEW t, IsTerm(t, rule, versions), NEW bound
  PROVE  Priority(rule, t, bound)[1] \in Int /\ Priority(rule, t, bound)[2] \in Int
<1> DEFINE V == TermVars(rule, t)
<1>1. CASE t.kind = "pred"
  <2>1. rule.preds[t.at] \in ToSet(rule.preds)
    BY <1>1 DEF IsTerm, ToSet
  <2>2. IsSeq(rule.preds[t.at].vars)
    BY <2>1 DEF ProperRule
  <2>3. Len(rule.preds[t.at].vars) \in Nat
    BY <2>2, SeqParts
  <2>4. Priority(rule, t, bound) = <<3, Len(rule.preds[t.at].vars)>>
    BY <1>1 DEF Priority
  <2> QED
    BY <2>3, <2>4
<1>2. CASE t.kind # "pred"
  <2>1. IsFiniteSet(V)
    <3>1. CASE t.kind = "neg"
      <4>1. rule.neg[t.at] \in ToSet(rule.neg)
        BY <3>1 DEF IsTerm, ToSet
      <4>2. IsAtom(rule.neg[t.at], D)
        BY <4>1 DEF ProperRule
      <4>3. V = VarsOf(rule, rule.neg[t.at])
        BY <3>1 DEF TermVars
      <4> QED
        BY <4>2, <4>3, VarsFinite
    <3>2. CASE t.kind = "rel"
      <4>1. rule.pos[t.at] \in ToSet(rule.pos)
        BY <3>2 DEF IsTerm, IsRewrite, ToSet
      <4>2. IsAtom(rule.pos[t.at], D)
        BY <4>1 DEF ProperRule
      <4>3. V = VarsOf(rule, rule.pos[t.at])
        BY <3>2 DEF TermVars
      <4> QED
        BY <4>2, <4>3, VarsFinite
    <3>3. CASE t.kind = "agg"
      <4>1. rule.aggs[t.at] \in ToSet(rule.aggs)
        BY <3>3 DEF IsTerm, ToSet
      <4>2. IsSeq(rule.aggs[t.at].vars)
        BY <4>1 DEF ProperRule
      <4>3. V = ToSet(rule.aggs[t.at].vars)
        BY <3>3 DEF TermVars
      <4> QED
        BY <4>2, <4>3, SeqFinite
    <3> QED
      BY <1>2, <3>1, <3>2, <3>3 DEF IsTerm
  <2> HIDE DEF V
  <2>2. IsFiniteSet(V \cap bound)
    <3>1. V \cap bound \in SUBSET V
      OBVIOUS
    <3> QED
      BY <2>1, <3>1, FS_Subset
  <2>3. Cardinality(V) \in Nat /\ Cardinality(V \cap bound) \in Nat
    BY <2>1, <2>2, FS_CardinalityType
  <2>4. CASE t.kind = "neg"
    <3>1. Priority(rule, t, bound) = <<4, Cardinality(V)>>
      BY <2>4 DEF Priority, V
    <3> QED
      BY <2>3, <3>1
  <2>5. CASE t.kind = "rel"
    <3>1. Priority(rule, t, bound)
            = <<IF t.version = "Delta" THEN 2 ELSE 1, Cardinality(V \cap bound)>>
      BY <2>5 DEF Priority, V
    <3> QED
      BY <2>3, <3>1
  <2>6. CASE t.kind = "agg"
    <3>1. Priority(rule, t, bound) = <<0, Cardinality(V \cap bound)>>
      BY <2>6 DEF Priority, V
    <3> QED
      BY <2>3, <3>1
  <2> QED
    BY <1>2, <2>4, <2>5, <2>6 DEF IsTerm
<1> QED
  BY <1>1, <1>2

\* A term that is selected is a ready one of those left.
LEMMA SelectedPlace ==
  ASSUME NEW rule, NEW D, NEW O, ProperRule(rule, D, O), NEW versions, IsRewrite(rule, versions),
         NEW left \in Seq(ToSet(Terms(rule, versions))), NEW bound,
         \E i \in DOMAIN left : Ready(rule, left[i], bound)
  PROVE  LET i == Selected(rule, left, bound)
         IN  i \in DOMAIN left /\ Ready(rule, left[i], bound)
<1> DEFINE R == {i \in DOMAIN left : Ready(rule, left[i], bound)}
           p == [i \in DOMAIN left |-> Priority(rule, left[i], bound)]
           n == Len(left)
<1>1. n \in Nat /\ DOMAIN left = 1..n /\ \A i \in 1..n : left[i] \in ToSet(Terms(rule, versions))
  OBVIOUS
<1>2. \A i \in 1..n : p[i] = Priority(rule, left[i], bound)
  BY <1>1
<1>3. \A i \in R : p[i][1] \in Int /\ p[i][2] \in Int
  <2> SUFFICES ASSUME NEW i \in 1..n PROVE p[i][1] \in Int /\ p[i][2] \in Int
    BY <1>1
  <2>1. IsTerm(left[i], rule, versions)
    BY <1>1, TermsParts
  <2> QED
    BY <1>2, <2>1, PriorityParts
<1>4. R \in SUBSET (1..n) /\ R # {}
  BY <1>1
<1> HIDE DEF p, n
<1>5. PICK i \in R : \A j \in R : AtLeast(p[i], p[j]) /\ (AtLeast(p[j], p[i]) => j <= i)
  <2> HIDE DEF R
  <2> QED
    BY <1>1, <1>3, <1>4, Highest
<1> DEFINE best == {k \in R : \A j \in R : AtLeast(p[k], p[j])}
<1>6. i \in best /\ \A j \in best : j <= i
  BY <1>5
<1>7. best = {k \in R : \A j \in R :
                AtLeast(Priority(rule, left[k], bound), Priority(rule, left[j], bound))}
  BY <1>1, <1>2, <1>4
<1>8. Selected(rule, left, bound) = CHOOSE k \in best : \A j \in best : j <= k
  BY <1>7 DEF Selected, AtLeast
<1>9. Selected(rule, left, bound) \in best
  <2> HIDE DEF best
  <2> QED
    BY <1>6, <1>8
<1> QED
  BY <1>9

\* One step of order_terms.
OrderStep(rule, s) ==
  IF \A i \in DOMAIN s.left : ~ Ready(rule, s.left[i], s.bound) THEN s
  ELSE LET i == Selected(rule, s.left, s.bound)
       IN  [left    |-> RemoveAt(s.left, i),
            ordered |-> Append(s.ordered, s.left[i]),
            bound   |-> s.bound \cup Binds(rule, s.left[i])]

Orders(f, rule, terms, n) ==
  f = [k \in 0..n |-> IF k = 0 THEN [left |-> terms, ordered |-> <<>>, bound |-> {}]
                      ELSE OrderStep(rule, f[k - 1])]

\* The recursion in OrderTerms has a solution.
LEMMA OrdersExists ==
  ASSUME NEW rule, NEW terms, NEW n \in Nat
  PROVE  \E f : Orders(f, rule, terms, n)
<1> DEFINE N == {k \in Nat : \E f : Orders(f, rule, terms, k)}
           start == [left |-> terms, ordered |-> <<>>, bound |-> {}]
<1>1. 0 \in N
  <2>1. Orders([i \in 0..0 |-> start], rule, terms, 0)
    BY DEF Orders
  <2> QED
    BY <2>1
<1>2. ASSUME NEW k \in Nat, k \in N PROVE k + 1 \in N
  <2>1. PICK f : Orders(f, rule, terms, k)
    BY <1>2
  <2> DEFINE g == [i \in 0..(k + 1) |-> IF i <= k THEN f[i] ELSE OrderStep(rule, f[i - 1])]
  <2>2. ASSUME NEW i \in 0..(k + 1)
        PROVE g[i] = IF i = 0 THEN start ELSE OrderStep(rule, g[i - 1])
    <3>1. i # 0 => i - 1 \in 0..k /\ g[i - 1] = f[i - 1]
      OBVIOUS
    <3>2. CASE i <= k
      <4>1. g[i] = f[i] /\ i \in 0..k
        BY <3>2
      <4> QED
        BY <2>1, <3>1, <4>1 DEF Orders
    <3>3. CASE ~ (i <= k)
      BY <3>1, <3>3
    <3> QED
      BY <3>2, <3>3
  <2>3. Orders(g, rule, terms, k + 1)
    BY <2>2 DEF Orders
  <2> QED
    BY <2>3
<1>3. Nat \subseteq N
  <2> HIDE DEF N
  <2> QED
    BY <1>1, <1>2, NatSet
<1> QED
  BY <1>3

\* The terms include every search, every predicate and every aggregation.
LEMMA AllTerms ==
  ASSUME NEW rule, NEW D, NEW O, ProperRule(rule, D, O), NEW versions, IsRewrite(rule, versions)
  PROVE  /\ \A i \in DOMAIN versions :
              [kind |-> "rel", at |-> i, version |-> versions[i]] \in ToSet(Terms(rule, versions))
         /\ \A i \in DOMAIN rule.preds :
              [kind |-> "pred", at |-> i, version |-> "none"] \in ToSet(Terms(rule, versions))
         /\ \A i \in DOMAIN rule.aggs :
              [kind |-> "agg", at |-> i, version |-> "none"] \in ToSet(Terms(rule, versions))
<1> DEFINE preds == [i \in DOMAIN rule.preds |-> [kind |-> "pred", at |-> i, version |-> "none"]]
           negs == [i \in DOMAIN rule.neg |-> [kind |-> "neg", at |-> i, version |-> "none"]]
           aggs == [i \in DOMAIN rule.aggs |-> [kind |-> "agg", at |-> i, version |-> "none"]]
           rels == [i \in DOMAIN versions |-> [kind |-> "rel", at |-> i, version |-> versions[i]]]
<1>1. Terms(rule, versions) = preds \o negs \o aggs \o rels
  BY DEF Terms
<1>2. IsSeq(rule.preds) /\ IsSeq(rule.neg) /\ IsSeq(rule.aggs) /\ IsSeq(versions)
  BY DEF ProperRule, IsRewrite
<1>3. IsSeq(preds)
  <2>1. preds = [i \in DOMAIN rule.preds |-> preds[i]]
    OBVIOUS
  <2> HIDE DEF preds
  <2> QED
    BY <1>2, <2>1, SeqMap
<1>4. IsSeq(negs)
  <2>1. negs = [i \in DOMAIN rule.neg |-> negs[i]]
    OBVIOUS
  <2> HIDE DEF negs
  <2> QED
    BY <1>2, <2>1, SeqMap
<1>5. IsSeq(aggs)
  <2>1. aggs = [i \in DOMAIN rule.aggs |-> aggs[i]]
    OBVIOUS
  <2> HIDE DEF aggs
  <2> QED
    BY <1>2, <2>1, SeqMap
<1>6. IsSeq(rels)
  <2>1. rels = [i \in DOMAIN versions |-> rels[i]]
    OBVIOUS
  <2> HIDE DEF rels
  <2> QED
    BY <1>2, <2>1, SeqMap
<1>7. /\ \A i \in DOMAIN versions : [kind |-> "rel", at |-> i, version |-> versions[i]] \in ToSet(rels)
      /\ \A i \in DOMAIN rule.preds : [kind |-> "pred", at |-> i, version |-> "none"] \in ToSet(preds)
      /\ \A i \in DOMAIN rule.aggs : [kind |-> "agg", at |-> i, version |-> "none"] \in ToSet(aggs)
  BY DEF ToSet
<1> HIDE DEF preds, negs, aggs, rels
<1>8. IsSeq(preds \o negs) /\ ToSet(preds \o negs) = ToSet(preds) \cup ToSet(negs)
  BY <1>3, <1>4, SeqConcat
<1>9. /\ IsSeq(preds \o negs \o aggs)
      /\ ToSet(preds \o negs \o aggs) = ToSet(preds \o negs) \cup ToSet(aggs)
  BY <1>5, <1>8, SeqConcat
<1>10. ToSet(preds \o negs \o aggs \o rels) = ToSet(preds \o negs \o aggs) \cup ToSet(rels)
  BY <1>6, <1>9, SeqConcat
<1> QED
  BY <1>1, <1>7, <1>8, <1>9, <1>10

\* What removing an element leaves.
LEMMA RemoveAtParts ==
  ASSUME NEW T, NEW q \in Seq(T), NEW i \in DOMAIN q
  PROVE  /\ RemoveAt(q, i) \in Seq(T) /\ Len(RemoveAt(q, i)) = Len(q) - 1
         /\ ToSet(q) \subseteq ToSet(RemoveAt(q, i)) \cup {q[i]}
<1> DEFINE r == RemoveAt(q, i)
           n == Len(q)
           u == SubSeq(q, 1, i - 1)
           w == SubSeq(q, i + 1, n)
<1>1. i \in 1..n /\ n \in Nat /\ DOMAIN q = 1..n
  OBVIOUS
<1>2. u \in Seq(T) /\ Len(u) = i - 1 /\ \A j \in 1..(i - 1) : u[j] = q[j]
  BY <1>1
<1>3. w \in Seq(T) /\ Len(w) = n - i /\ \A j \in 1..(n - i) : w[j] = q[i + j]
  BY <1>1
<1>4. r = u \o w
  BY DEF RemoveAt
<1> HIDE DEF r, u, w, n
<1>5. /\ r \in Seq(T) /\ Len(r) = n - 1
      /\ \A j \in 1..(n - 1) : r[j] = IF j <= i - 1 THEN u[j] ELSE w[j - (i - 1)]
  <2>1. \A a, b \in Seq(T) : a \o b \in Seq(T) /\ Len(a \o b) = Len(a) + Len(b)
    OBVIOUS
  <2>2. r \in Seq(T) /\ Len(r) = Len(u) + Len(w)
    BY <1>2, <1>3, <1>4, <2>1
  <2>3. (i - 1) + (n - i) = n - 1
    BY <1>1
  <2>4. Len(r) = n - 1
    BY <1>2, <1>3, <2>2, <2>3
  <2>5. \A a, b \in Seq(T) : \A j \in 1..(Len(a) + Len(b)) :
          (a \o b)[j] = IF j <= Len(a) THEN a[j] ELSE b[j - Len(a)]
    OBVIOUS
  <2>6. ASSUME NEW j \in 1..(n - 1) PROVE r[j] = IF j <= i - 1 THEN u[j] ELSE w[j - (i - 1)]
    BY <1>2, <1>3, <1>4, <2>2, <2>4, <2>5
  <2> QED
    BY <2>2, <2>4, <2>6
<1>6. DOMAIN r = 1..(n - 1)
  BY <1>5
<1>7. ASSUME NEW j \in 1..n, j # i PROVE \E k \in DOMAIN r : r[k] = q[j]
  <2>1. CASE j < i
    <3>1. j \in 1..(n - 1) /\ j <= i - 1 /\ j \in 1..(i - 1)
      BY <1>1, <2>1
    <3>2. r[j] = q[j]
      BY <1>2, <1>5, <3>1
    <3> QED
      BY <1>6, <3>1, <3>2
  <2>2. CASE i < j
    <3>1. j - 1 \in 1..(n - 1) /\ ~ (j - 1 <= i - 1) /\ (j - 1) - (i - 1) = j - i /\ j - i \in 1..(n - i)
          /\ i + (j - i) = j
      BY <1>1, <2>2
    <3>2. r[j - 1] = q[j]
      BY <1>3, <1>5, <3>1
    <3> QED
      BY <1>6, <3>1, <3>2
  <2> QED
    BY <1>1, <1>7, <2>1, <2>2
<1>8. ASSUME NEW x \in ToSet(q) PROVE x \in ToSet(r) \cup {q[i]}
  <2>1. PICK j \in 1..n : x = q[j]
    BY <1>1 DEF ToSet
  <2> QED
    BY <1>7, <2>1 DEF ToSet
<1> QED
  BY <1>5, <1>8 DEF r, n

\* Of the terms, some are ordered and the rest are left.
Shared(s, T, n) ==
  /\ s.left \in Seq(T) /\ s.ordered \in Seq(T) /\ Len(s.left) + Len(s.ordered) = n
  /\ T \subseteq ToSet(s.left) \cup ToSet(s.ordered)

\* A step of order_terms moves one.
LEMMA OrderStepShares ==
  ASSUME NEW rule, NEW D, NEW O, ProperRule(rule, D, O), NEW versions, IsRewrite(rule, versions),
         NEW n \in Nat, NEW s, Shared(s, ToSet(Terms(rule, versions)), n)
  PROVE  Shared(OrderStep(rule, s), ToSet(Terms(rule, versions)), n)
<1> DEFINE T == ToSet(Terms(rule, versions))
           i == Selected(rule, s.left, s.bound)
           r == RemoveAt(s.left, i)
           t == OrderStep(rule, s)
<1>1. /\ s.left \in Seq(T) /\ s.ordered \in Seq(T) /\ Len(s.left) + Len(s.ordered) = n
      /\ T \subseteq ToSet(s.left) \cup ToSet(s.ordered)
  BY DEF Shared
<1>2. CASE \A j \in DOMAIN s.left : ~ Ready(rule, s.left[j], s.bound)
  <2>1. t = s
    BY <1>2 DEF OrderStep
  <2> QED
    BY <2>1
<1>3. CASE \E j \in DOMAIN s.left : Ready(rule, s.left[j], s.bound)
  <2>1. i \in DOMAIN s.left
    BY <1>1, <1>3, SelectedPlace
  <2>2. t = [left |-> r, ordered |-> Append(s.ordered, s.left[i]), bound |-> s.bound \cup Binds(rule, s.left[i])]
    BY <1>3 DEF OrderStep
  <2>3. t.left = r /\ t.ordered = Append(s.ordered, s.left[i])
    BY <2>2
  <2>4. r \in Seq(T) /\ Len(r) = Len(s.left) - 1 /\ ToSet(s.left) \subseteq ToSet(r) \cup {s.left[i]}
    BY <1>1, <2>1, RemoveAtParts
  <2>5. s.left[i] \in T
    BY <1>1, <2>1
  <2> HIDE DEF T, r, i, t
  <2> DEFINE o == Append(s.ordered, s.left[i])
  <2>6. o \in Seq(T) /\ Len(o) = Len(s.ordered) + 1
    BY <1>1, <2>5
  <2>7. ToSet(s.ordered) \cup {s.left[i]} \subseteq ToSet(o)
    <3>1. /\ \A j \in DOMAIN s.ordered : o[j] = s.ordered[j] /\ j \in DOMAIN o
          /\ o[Len(s.ordered) + 1] = s.left[i] /\ Len(s.ordered) + 1 \in DOMAIN o
      BY <1>1, <2>5
    <3> HIDE DEF o
    <3> QED
      BY <3>1 DEF ToSet
  <2>8. Len(s.left) \in Nat /\ Len(s.ordered) \in Nat
    BY <1>1
  <2> HIDE DEF o
  <2>9. t.left \in Seq(T) /\ t.ordered \in Seq(T) /\ Len(t.left) + Len(t.ordered) = n
    <3>1. Len(t.left) = Len(s.left) - 1 /\ Len(t.ordered) = Len(s.ordered) + 1
      BY <2>3, <2>4, <2>6 DEF o
    <3>2. \A a, b \in Nat : (a - 1) + (b + 1) = a + b
      OBVIOUS
    <3>3. Len(t.left) + Len(t.ordered) = n
      BY <1>1, <2>8, <3>1, <3>2
    <3> QED
      BY <2>3, <2>4, <2>6, <3>3 DEF o
  <2>10. T \subseteq ToSet(t.left) \cup ToSet(t.ordered)
    BY <1>1, <2>3, <2>4, <2>7 DEF o
  <2> QED
    BY <2>9, <2>10 DEF Shared, T, t
<1> QED
  BY <1>2, <1>3

\* Each formula is placed after the terms that bind what it reads.
WellPlaced(rule, s) ==
  /\ s.bound = BoundBefore(rule, s.ordered, Len(s.ordered) + 1)
  /\ \A i \in DOMAIN s.ordered : s.ordered[i].kind \in {"pred", "neg"} =>
       TermVars(rule, s.ordered[i]) \subseteq BoundBefore(rule, s.ordered, i)

\* What one more term binds.
LEMMA BoundAppend ==
  ASSUME NEW rule, NEW S, NEW o \in Seq(S), NEW x \in S
  PROVE  /\ \A j \in 1..(Len(o) + 1) : BoundBefore(rule, Append(o, x), j) = BoundBefore(rule, o, j)
         /\ BoundBefore(rule, Append(o, x), Len(o) + 2)
              = BoundBefore(rule, o, Len(o) + 1) \cup Binds(rule, x)
<1> DEFINE w == Append(o, x)
           n == Len(o)
<1>1. n \in Nat /\ (\A k \in 1..n : w[k] = o[k]) /\ w[n + 1] = x
  OBVIOUS
<1> HIDE DEF w, n
<1>2. ASSUME NEW j \in 1..(n + 1) PROVE BoundBefore(rule, w, j) = BoundBefore(rule, o, j)
  <2>1. \A k \in 1..(j - 1) : Binds(rule, w[k]) = Binds(rule, o[k])
    BY <1>1
  <2> QED
    BY <2>1 DEF BoundBefore
<1>3. BoundBefore(rule, w, n + 2) = BoundBefore(rule, o, n + 1) \cup Binds(rule, x)
  <2>1. (n + 2) - 1 = n + 1 /\ (n + 1) - 1 = n /\ 1..(n + 1) = 1..n \cup {n + 1}
    BY <1>1
  <2>2. BoundBefore(rule, w, n + 2) = UNION {Binds(rule, w[k]) : k \in 1..n \cup {n + 1}}
    BY <2>1 DEF BoundBefore
  <2>3. UNION {Binds(rule, w[k]) : k \in 1..n} = UNION {Binds(rule, o[k]) : k \in 1..n}
    BY <1>1
  <2>4. BoundBefore(rule, o, n + 1) = UNION {Binds(rule, o[k]) : k \in 1..n}
    BY <2>1 DEF BoundBefore
  <2>5. Binds(rule, w[n + 1]) = Binds(rule, x)
    BY <1>1
  <2> QED
    BY <2>2, <2>3, <2>4, <2>5
<1> QED
  BY <1>2, <1>3 DEF w, n

\* A step of order_terms places its term.
LEMMA OrderStepPlaces ==
  ASSUME NEW rule, NEW D, NEW O, ProperRule(rule, D, O), NEW versions, IsRewrite(rule, versions),
         NEW n, NEW s, Shared(s, ToSet(Terms(rule, versions)), n), WellPlaced(rule, s)
  PROVE  WellPlaced(rule, OrderStep(rule, s))
<1> DEFINE T == ToSet(Terms(rule, versions))
           i == Selected(rule, s.left, s.bound)
           x == s.left[i]
           t == OrderStep(rule, s)
<1>1. s.left \in Seq(T) /\ s.ordered \in Seq(T)
  BY DEF Shared
<1>2. CASE \A j \in DOMAIN s.left : ~ Ready(rule, s.left[j], s.bound)
  <2>1. t = s
    BY <1>2 DEF OrderStep
  <2> QED
    BY <2>1
<1>3. CASE \E j \in DOMAIN s.left : Ready(rule, s.left[j], s.bound)
  <2>1. i \in DOMAIN s.left /\ Ready(rule, x, s.bound)
    BY <1>1, <1>3, SelectedPlace
  <2>2. t = [left |-> RemoveAt(s.left, i), ordered |-> Append(s.ordered, x),
             bound |-> s.bound \cup Binds(rule, x)]
    BY <1>3 DEF OrderStep
  <2>3. t.ordered = Append(s.ordered, x) /\ t.bound = s.bound \cup Binds(rule, x)
    BY <2>2
  <2>4. x \in T
    BY <1>1, <2>1
  <2> HIDE DEF T, i, x, t
  <2> DEFINE o == s.ordered
             m == Len(o)
             w == Append(o, x)
  <2>5. /\ \A j \in 1..(m + 1) : BoundBefore(rule, w, j) = BoundBefore(rule, o, j)
        /\ BoundBefore(rule, w, m + 2) = BoundBefore(rule, o, m + 1) \cup Binds(rule, x)
    <3> HIDE DEF o, m, w
    <3>1. o \in Seq(T)
      BY <1>1 DEF o
    <3>2. /\ \A j \in 1..(Len(o) + 1) : BoundBefore(rule, Append(o, x), j) = BoundBefore(rule, o, j)
          /\ BoundBefore(rule, Append(o, x), Len(o) + 2)
               = BoundBefore(rule, o, Len(o) + 1) \cup Binds(rule, x)
      BY <2>4, <3>1, BoundAppend
    <3> QED
      BY <3>2 DEF m, w
  <2>6. /\ m \in Nat /\ DOMAIN o = 1..m /\ DOMAIN w = 1..(m + 1) /\ Len(w) = m + 1
        /\ (\A j \in 1..m : w[j] = o[j]) /\ w[m + 1] = x
    BY <1>1, <2>4
  <2> HIDE DEF w, m
  <2>7. t.bound = BoundBefore(rule, w, Len(w) + 1)
    <3>1. s.bound = BoundBefore(rule, o, m + 1)
      BY DEF WellPlaced, m
    <3>2. Len(w) + 1 = m + 2
      BY <2>6
    <3> QED
      BY <2>3, <2>5, <3>1, <3>2
  <2>8. ASSUME NEW j \in 1..(m + 1), w[j].kind \in {"pred", "neg"}
        PROVE  TermVars(rule, w[j]) \subseteq BoundBefore(rule, w, j)
    <3>1. BoundBefore(rule, w, j) = BoundBefore(rule, o, j)
      BY <2>5
    <3>2. CASE j \in 1..m
      <4>1. w[j] = o[j] /\ j \in DOMAIN o
        BY <2>6, <3>2
      <4> QED
        BY <2>8, <3>1, <4>1 DEF WellPlaced
    <3>3. CASE j = m + 1
      <4>1. w[j] = x /\ TermVars(rule, x) \subseteq s.bound
        BY <2>1, <2>6, <2>8, <3>3 DEF Ready
      <4>2. s.bound = BoundBefore(rule, o, m + 1)
        BY DEF WellPlaced, m
      <4> QED
        BY <3>1, <3>3, <4>1, <4>2
    <3> QED
      BY <2>6, <3>2, <3>3
  <2>9. t.ordered = w
    BY <2>3 DEF w
  <2> QED
    BY <2>6, <2>7, <2>8, <2>9 DEF WellPlaced, t
<1> QED
  BY <1>2, <1>3

\* The stages of order_terms.
LEMMA OrderSteps ==
  ASSUME NEW rule, NEW D, NEW O, ProperRule(rule, D, O), NEW versions, IsRewrite(rule, versions),
         NEW n, n = Len(Terms(rule, versions))
  PROVE  \E f : /\ OrderTerms(rule, versions) = f[n].ordered
                /\ f[0] = [left |-> Terms(rule, versions), ordered |-> <<>>, bound |-> {}]
                /\ \A k \in 0..n : Shared(f[k], ToSet(Terms(rule, versions)), n) /\ WellPlaced(rule, f[k])
                /\ \A k \in 0..(n - 1) : f[k + 1] = OrderStep(rule, f[k])
<1> DEFINE terms == Terms(rule, versions)
           T == ToSet(terms)
           f == CHOOSE f : Orders(f, rule, terms, n)
<1>1. IsSeq(terms) /\ n \in Nat
  BY TermsParts, SeqParts
<1>2. Orders(f, rule, terms, n)
  BY <1>1, OrdersExists
<1>3. OrderTerms(rule, versions) = f[n].ordered
  BY DEF OrderTerms, Orders, OrderStep
<1> HIDE DEF f
<1>4. f[0] = [left |-> terms, ordered |-> <<>>, bound |-> {}]
  BY <1>1, <1>2 DEF Orders
<1>5. ASSUME NEW k \in 0..(n - 1) PROVE f[k + 1] = OrderStep(rule, f[k])
  <2>1. k + 1 \in 0..n /\ k + 1 # 0 /\ (k + 1) - 1 = k
    BY <1>1
  <2> QED
    BY <1>2, <2>1 DEF Orders
<1> DEFINE N == {k \in Nat : k <= n => Shared(f[k], T, n) /\ WellPlaced(rule, f[k])}
<1>6. 0 \in N
  <2>1. f[0].left = terms /\ f[0].ordered = <<>> /\ f[0].bound = {} /\ terms \in Seq(T)
    BY <1>1, <1>4 DEF IsSeq
  <2>2. <<>> \in Seq(T) /\ Len(<<>>) = 0 /\ DOMAIN <<>> = {}
    OBVIOUS
  <2> HIDE DEF terms, T
  <2>3. Shared(f[0], T, n)
    BY <1>1, <2>1, <2>2 DEF Shared, T, terms
  <2>4. BoundBefore(rule, <<>>, 0 + 1) = {}
    BY DEF BoundBefore
  <2>5. WellPlaced(rule, f[0])
    BY <2>1, <2>2, <2>4 DEF WellPlaced
  <2> QED
    BY <2>3, <2>5
<1>7. ASSUME NEW k \in Nat, k \in N PROVE k + 1 \in N
  <2> SUFFICES ASSUME k + 1 <= n PROVE Shared(f[k + 1], T, n) /\ WellPlaced(rule, f[k + 1])
    OBVIOUS
  <2>1. k \in 0..(n - 1) /\ Shared(f[k], T, n) /\ WellPlaced(rule, f[k])
    BY <1>1, <1>7
  <2>2. f[k + 1] = OrderStep(rule, f[k])
    BY <1>5, <2>1
  <2> QED
    BY <1>1, <2>1, <2>2, OrderStepShares, OrderStepPlaces
<1>8. Nat \subseteq N
  <2> HIDE DEF N
  <2> QED
    BY <1>6, <1>7, NatSet
<1>9. \A k \in 0..n : Shared(f[k], T, n) /\ WellPlaced(rule, f[k])
  BY <1>1, <1>8
<1> QED
  BY <1>3, <1>4, <1>5, <1>9

\* An order is made of the terms.
LEMMA OrderParts ==
  ASSUME NEW rule, NEW D, NEW O, ProperRule(rule, D, O), NEW versions, IsRewrite(rule, versions)
  PROVE  OrderTerms(rule, versions) \in Seq(ToSet(Terms(rule, versions)))
<1> DEFINE T == ToSet(Terms(rule, versions))
           n == Len(Terms(rule, versions))
<1>1. n \in Nat
  BY TermsParts, SeqParts
<1> HIDE DEF n, T
<1>2. PICK f : OrderTerms(rule, versions) = f[n].ordered /\ \A k \in 0..n : Shared(f[k], T, n)
  BY OrderSteps DEF n, T
<1>3. Shared(f[n], T, n)
  BY <1>1, <1>2
<1> QED
  BY <1>2, <1>3 DEF Shared, T

\* As long as terms are left, one of them is ready: when there is no search
\* left, all the variables of the searches are bound.
LEMMA LeftIsReady ==
  ASSUME NEW rule, NEW D, NEW O, ProperRule(rule, D, O), SafeRule(rule),
         NEW versions, IsRewrite(rule, versions),
         NEW n, NEW s, Shared(s, ToSet(Terms(rule, versions)), n), WellPlaced(rule, s), s.left # <<>>
  PROVE  \E i \in DOMAIN s.left : Ready(rule, s.left[i], s.bound)
<1> SUFFICES ASSUME \A i \in DOMAIN s.left : ~ Ready(rule, s.left[i], s.bound) PROVE FALSE
  OBVIOUS
<1> DEFINE T == ToSet(Terms(rule, versions))
<1>1. s.left \in Seq(T) /\ s.ordered \in Seq(T) /\ T \subseteq ToSet(s.left) \cup ToSet(s.ordered)
  BY DEF Shared
<1>2. \A t \in T : IsTerm(t, rule, versions)
  BY TermsParts
<1>3. \A i \in DOMAIN versions :
        [kind |-> "rel", at |-> i, version |-> versions[i]] \in T
  BY AllTerms
<1> HIDE DEF T
<1>4. \A i \in DOMAIN s.left : s.left[i].kind \in {"pred", "neg"}
  BY DEF Ready
<1>5. SearchedVars(rule) \subseteq s.bound
  <2> SUFFICES ASSUME NEW k \in DOMAIN rule.pos PROVE VarsOf(rule, rule.pos[k]) \subseteq s.bound
    BY DEF SearchedVars
  <2> DEFINE t == [kind |-> "rel", at |-> k, version |-> versions[k]]
  <2>1. t \in T
    BY <1>3 DEF IsRewrite
  <2>2. t.kind = "rel" /\ t.at = k
    OBVIOUS
  <2> HIDE DEF t
  <2>3. t \notin ToSet(s.left)
    BY <1>4, <2>2 DEF ToSet
  <2>4. PICK j \in DOMAIN s.ordered : s.ordered[j] = t
    BY <1>1, <2>1, <2>3 DEF ToSet
  <2>5. Binds(rule, t) = VarsOf(rule, rule.pos[k])
    BY <2>2 DEF Binds
  <2>6. j \in 1..((Len(s.ordered) + 1) - 1)
    BY <1>1
  <2>7. Binds(rule, s.ordered[j]) \subseteq BoundBefore(rule, s.ordered, Len(s.ordered) + 1)
    BY <2>6 DEF BoundBefore
  <2> QED
    BY <2>4, <2>5, <2>7 DEF WellPlaced
<1>6. 1 \in DOMAIN s.left
  BY <1>1
<1> DEFINE x == s.left[1]
<1>7. IsTerm(x, rule, versions) /\ x.kind \in {"pred", "neg"}
  BY <1>1, <1>2, <1>4, <1>6
<1> HIDE DEF x
<1>8. TermVars(rule, x) \subseteq SearchedVars(rule)
  <2>1. CASE x.kind = "pred"
    <3>1. rule.preds[x.at] \in ToSet(rule.preds)
      BY <1>7, <2>1 DEF IsTerm, ToSet
    <3>2. TermVars(rule, x) = ToSet(rule.preds[x.at].vars)
      BY <2>1 DEF TermVars
    <3> QED
      BY <3>1, <3>2 DEF SafeRule
  <2>2. CASE x.kind = "neg"
    <3>1. rule.neg[x.at] \in ToSet(rule.neg)
      BY <1>7, <2>2 DEF IsTerm, ToSet
    <3>2. TermVars(rule, x) = VarsOf(rule, rule.neg[x.at])
      BY <2>2 DEF TermVars
    <3> QED
      BY <3>1, <3>2 DEF SafeRule
  <2> QED
    BY <1>7, <2>1, <2>2
<1>9. Ready(rule, x, s.bound)
  BY <1>5, <1>8 DEF Ready
<1> QED
  BY <1>6, <1>9 DEF x

\* order_terms places every term of a safe rule, and each formula after what
\* it reads.
LEMMA SafeOrder ==
  ASSUME NEW rule, NEW D, NEW O, ProperRule(rule, D, O), SafeRule(rule),
         NEW versions, IsRewrite(rule, versions), NEW order, order = OrderTerms(rule, versions)
  PROVE  /\ ~ Stuck(rule, versions)
         /\ ToSet(Terms(rule, versions)) \subseteq ToSet(order)
         /\ \A i \in DOMAIN order : order[i].kind \in {"pred", "neg"} =>
              TermVars(rule, order[i]) \subseteq BoundBefore(rule, order, i)
<1> DEFINE T == ToSet(Terms(rule, versions))
           n == Len(Terms(rule, versions))
<1>1. n \in Nat
  BY TermsParts, SeqParts
<1> HIDE DEF n, T
<1>2. PICK f : /\ order = f[n].ordered
               /\ f[0] = [left |-> Terms(rule, versions), ordered |-> <<>>, bound |-> {}]
               /\ \A k \in 0..n : Shared(f[k], T, n) /\ WellPlaced(rule, f[k])
               /\ \A k \in 0..(n - 1) : f[k + 1] = OrderStep(rule, f[k])
  BY OrderSteps DEF n, T
<1> DEFINE N == {k \in Nat : k <= n => Len(f[k].ordered) = k}
<1>3. 0 \in N
  <2>1. f[0].ordered = <<>>
    BY <1>2
  <2> QED
    BY <2>1
<1>4. ASSUME NEW k \in Nat, k \in N PROVE k + 1 \in N
  <2> SUFFICES ASSUME k + 1 <= n PROVE Len(f[k + 1].ordered) = k + 1
    OBVIOUS
  <2> DEFINE s == f[k]
             i == Selected(rule, s.left, s.bound)
  <2>1. /\ k \in 0..n /\ k \in 0..(n - 1) /\ Len(s.ordered) = k
        /\ Shared(s, T, n) /\ WellPlaced(rule, s) /\ f[k + 1] = OrderStep(rule, s)
    BY <1>1, <1>2, <1>4
  <2>2. s.left \in Seq(T) /\ s.ordered \in Seq(T) /\ Len(s.left) + Len(s.ordered) = n
    BY <2>1 DEF Shared
  <2>3. s.left # <<>>
    <3>1. Len(s.left) # 0
      BY <1>1, <2>1, <2>2
    <3> QED
      BY <3>1
  <2> HIDE DEF s
  <2>4. \E j \in DOMAIN s.left : Ready(rule, s.left[j], s.bound)
    BY <2>1, <2>3, LeftIsReady DEF T
  <2>5. i \in DOMAIN s.left
    BY <2>2, <2>4, SelectedPlace DEF T
  <2>6. OrderStep(rule, s) = [left    |-> RemoveAt(s.left, i),
                              ordered |-> Append(s.ordered, s.left[i]),
                              bound   |-> s.bound \cup Binds(rule, s.left[i])]
    BY <2>4 DEF OrderStep
  <2>7. f[k + 1].ordered = Append(s.ordered, s.left[i])
    BY <2>1, <2>6
  <2>8. s.left[i] \in T
    BY <2>2, <2>5
  <2> HIDE DEF i
  <2>9. Len(Append(s.ordered, s.left[i])) = Len(s.ordered) + 1
    BY <2>2, <2>8
  <2> QED
    BY <2>1, <2>7, <2>9
<1>5. Nat \subseteq N
  <2> HIDE DEF N
  <2> QED
    BY <1>3, <1>4, NatSet
<1>6. Len(order) = n
  BY <1>1, <1>2, <1>5
<1>7. Shared(f[n], T, n) /\ WellPlaced(rule, f[n])
  BY <1>1, <1>2
<1>8. ~ Stuck(rule, versions)
  BY <1>1, <1>6 DEF Stuck, n
<1>9. ToSet(f[n].left) = {}
  <2> DEFINE s == f[n]
  <2>1. s.left \in Seq(T) /\ Len(s.left) + Len(s.ordered) = n /\ Len(s.ordered) = n
    BY <1>2, <1>6, <1>7 DEF Shared
  <2> HIDE DEF s
  <2>2. Len(s.left) = 0
    BY <1>1, <2>1
  <2>3. ToSet(s.left) = {}
    BY <2>1, <2>2 DEF ToSet
  <2> QED
    BY <2>3 DEF s
<1>10. T \subseteq ToSet(order)
  BY <1>2, <1>7, <1>9 DEF Shared
<1> QED
  BY <1>2, <1>7, <1>8, <1>10 DEF WellPlaced, T

\* In the end the searches and the aggregations have bound their variables.
LEMMA SafeBinds ==
  ASSUME NEW rule, NEW D, NEW O, ProperRule(rule, D, O), SafeRule(rule),
         NEW versions, IsRewrite(rule, versions), NEW order, order = OrderTerms(rule, versions)
  PROVE  BoundVars(rule) \subseteq BoundBefore(rule, order, Len(order) + 1)
<1> DEFINE T == ToSet(Terms(rule, versions))
           B == BoundBefore(rule, order, Len(order) + 1)
<1>1. T \subseteq ToSet(order) /\ order \in Seq(T)
  BY SafeOrder, OrderParts
<1>2. /\ \A i \in DOMAIN versions : [kind |-> "rel", at |-> i, version |-> versions[i]] \in T
      /\ \A i \in DOMAIN rule.aggs : [kind |-> "agg", at |-> i, version |-> "none"] \in T
  BY AllTerms
<1> HIDE DEF T
<1>3. ASSUME NEW t \in T PROVE Binds(rule, t) \subseteq B
  <2>1. PICK j \in DOMAIN order : t = order[j]
    BY <1>1 DEF ToSet
  <2>2. j \in 1..((Len(order) + 1) - 1)
    BY <1>1, <2>1
  <2> QED
    BY <2>1, <2>2 DEF BoundBefore
<1> HIDE DEF B
<1>4. ASSUME NEW k \in DOMAIN rule.pos PROVE VarsOf(rule, rule.pos[k]) \subseteq B
  <2> DEFINE t == [kind |-> "rel", at |-> k, version |-> versions[k]]
  <2>1. t \in T /\ t.kind = "rel" /\ t.at = k
    BY <1>2 DEF IsRewrite
  <2> HIDE DEF t
  <2>2. Binds(rule, t) = VarsOf(rule, rule.pos[k])
    BY <2>1 DEF Binds
  <2> QED
    BY <1>3, <2>1, <2>2
<1>5. ASSUME NEW k \in DOMAIN rule.aggs PROVE rule.aggs[k].target \in B
  <2> DEFINE t == [kind |-> "agg", at |-> k, version |-> "none"]
  <2>1. t \in T /\ t.kind = "agg" /\ t.at = k
    BY <1>2
  <2> HIDE DEF t
  <2>2. Binds(rule, t) = {rule.aggs[k].target}
    BY <2>1 DEF Binds
  <2> QED
    BY <1>3, <2>1, <2>2
<1> QED
  BY <1>4, <1>5 DEF BoundVars, SearchedVars, Targets, B

\* A search of a rewrite looks for a relational predicate of the rule, in Delta
\* or in Total.
LEMMA OrderedSearches ==
  ASSUME NEW rule, NEW D, NEW O, ProperRule(rule, D, O), NEW versions, IsRewrite(rule, versions),
         NEW i \in DOMAIN OrderTerms(rule, versions), OrderTerms(rule, versions)[i].kind = "rel"
  PROVE  /\ OrderTerms(rule, versions)[i].at \in DOMAIN rule.pos
         /\ OrderTerms(rule, versions)[i].version \in {"Delta", "Total"}
<1> DEFINE t == OrderTerms(rule, versions)[i]
<1>1. t \in ToSet(Terms(rule, versions))
  BY OrderParts
<1>2. IsTerm(t, rule, versions)
  BY <1>1, TermsParts
<1>3. t.at \in DOMAIN versions /\ t.version = versions[t.at]
  BY <1>2 DEF IsTerm
<1> QED
  BY <1>3 DEF IsRewrite, ToSet

-----------------------------------------------------------------------------
(* Powers of two and the bits of a mask.                                    *)

\* The powers of two, by the number of subsets.
LEMMA Powers ==
  ASSUME NEW n \in Nat
  PROVE  2^0 = 1 /\ 2^n \in Nat \ {0} /\ 2^(n + 1) = 2 * 2^n
<1>1. \A k \in Nat : /\ IsFiniteSet(1..k) /\ IsFiniteSet(SUBSET (1..k))
                     /\ Cardinality(SUBSET (1..k)) = 2^k /\ 2^k \in Nat \ {0}
  <2> SUFFICES ASSUME NEW k \in Nat
               PROVE  /\ IsFiniteSet(1..k) /\ IsFiniteSet(SUBSET (1..k))
                      /\ Cardinality(SUBSET (1..k)) = 2^k /\ 2^k \in Nat \ {0}
    OBVIOUS
  <2> DEFINE S == SUBSET (1..k)
  <2>1. 1 \in Int /\ k \in Int
    OBVIOUS
  <2>2. IsFiniteSet(1..k) /\ Cardinality(1..k) = IF 1 > k THEN 0 ELSE k - 1 + 1
    BY <2>1, FS_Interval
  <2>3. Cardinality(1..k) = k
    BY <2>2
  <2>4. IsFiniteSet(S) /\ Cardinality(S) = 2^k
    BY <2>2, <2>3, FS_SUBSET
  <2>5. S # {}
    OBVIOUS
  <2> HIDE DEF S
  <2>6. Cardinality(S) \in Nat /\ Cardinality(S) # 0
    BY <2>4, <2>5, FS_CardinalityType, FS_EmptySet
  <2> QED
    BY <2>2, <2>4, <2>6 DEF S
<1>2. 2^0 = 1
  <2>1. SUBSET (1..0) = {{}}
    OBVIOUS
  <2>2. Cardinality(SUBSET (1..0)) = 1
    BY <2>1, FS_Singleton
  <2> QED
    BY <1>1, <2>2
<1>3. 2^(n + 1) = 2 * 2^n
  <2> DEFINE m == n + 1
             A == SUBSET (1..n)
             B == {T \cup {m} : T \in A}
             f == [T \in A |-> T \cup {m}]
  <2>1. m \in Nat /\ m \notin 1..n /\ 1..m = (1..n) \cup {m}
    OBVIOUS
  <2> HIDE DEF m
  <2>2. f \in Bijection(A, B)
    <3>1. f \in [A -> B]
      OBVIOUS
    <3>2. ASSUME NEW T \in A, NEW U \in A, f[T] = f[U] PROVE T = U
      <4>1. T \cup {m} = U \cup {m} /\ m \notin T /\ m \notin U
        BY <2>1, <3>2
      <4> QED
        BY <4>1
    <3>3. \A y \in B : \E T \in A : f[T] = y
      OBVIOUS
    <3> HIDE DEF f, A, B
    <3> QED
      BY <3>1, <3>2, <3>3 DEF Bijection, Injection, Surjection, IsInjective
  <2>3. IsFiniteSet(A) /\ Cardinality(A) = 2^n
    BY <1>1
  <2>4. IsFiniteSet(B) /\ Cardinality(B) = 2^n
    <3>1. ExistsBijection(A, B)
      BY <2>2 DEF ExistsBijection
    <3> HIDE DEF A, B
    <3> QED
      BY <2>3, <3>1, FS_Bijection
  <2>5. A \cap B = {}
    BY <2>1
  <2>6. A \cup B = SUBSET (1..m)
    <3>1. A \cup B \subseteq SUBSET (1..m)
      BY <2>1
    <3>2. ASSUME NEW U \in SUBSET (1..m) PROVE U \in A \cup B
      <4>1. CASE m \in U
        <5>1. U \ {m} \in A /\ U = (U \ {m}) \cup {m}
          BY <2>1, <4>1
        <5> QED
          BY <5>1
      <4>2. CASE m \notin U
        BY <2>1, <4>2
      <4> QED
        BY <4>1, <4>2
    <3> QED
      BY <3>1, <3>2
  <2> HIDE DEF A, B
  <2>7. Cardinality(A \cup B) = 2^n + 2^n - Cardinality({})
    BY <2>3, <2>4, <2>5, FS_Union
  <2>8. Cardinality(SUBSET (1..m)) = 2^m /\ 2^n \in Nat
    BY <1>1, <2>1
  <2>9. 2^m = 2^n + 2^n
    <3> DEFINE p == 2^n
    <3>1. Cardinality({}) = 0
      BY FS_EmptySet
    <3>2. 2^m = p + p - 0 /\ p \in Nat
      BY <2>6, <2>7, <2>8, <3>1
    <3> HIDE DEF p
    <3>3. 2^m = p + p
      BY <3>2
    <3> QED
      BY <3>3 DEF p
  <2> QED
    BY <2>8, <2>9 DEF m
<1> QED
  BY <1>1, <1>2, <1>3

\* A quotient, by what is left.
LEMMA Quotient ==
  ASSUME NEW a \in Nat, NEW d \in Nat \ {0}
  PROVE  /\ a \div d \in Nat
         /\ \E r \in 0..(d - 1) : a = d * (a \div d) + r
         /\ \A q \in Nat, r \in 0..(d - 1) : a = d * q + r => a \div d = q
<1>1. a \div d \in Nat /\ a % d \in 0..(d - 1) /\ a = d * (a \div d) + (a % d)
  BY Z3
<1>2. \A q \in Nat, r \in 0..(d - 1) : a = d * q + r => a \div d = q
  BY Z3
<1> QED
  BY <1>1, <1>2

\* A digit further to the left of a number is one of its half.
LEMMA Halves ==
  ASSUME NEW a \in Nat, NEW d \in Nat \ {0}, NEW b \in {0, 1}
  PROVE  (2 * a + b) \div (2 * d) = a \div d
<1> DEFINE q == a \div d
           x == d * q
<1>1. q \in Nat
  BY Quotient
<1>2. PICK r \in 0..(d - 1) : a = d * q + r
  BY Quotient
<1> HIDE DEF q
<1>3. x \in Nat /\ (2 * d) * q = 2 * x
  BY <1>1
<1>4. a = x + r
  BY <1>2
<1> HIDE DEF x
<1>5. 2 * a + b = (2 * d) * q + (2 * r + b) /\ 2 * r + b \in 0..(2 * d - 1)
  BY <1>3, <1>4
<1>6. 2 * a + b \in Nat /\ 2 * d \in Nat \ {0}
  OBVIOUS
<1>7. (2 * a + b) \div (2 * d) = q
  BY <1>1, <1>5, <1>6, Quotient
<1> QED
  BY <1>7 DEF q

\* semi_naive_rewrites: the i-th bit of a mask.
Bit(mask, i) == (mask \div 2^(i - 1)) % 2

\* Every set of places is that of the ones of a mask.
LEMMA Masks ==
  ASSUME NEW n \in Nat
  PROVE  \A Q \in SUBSET (1..n) :
           \E mask \in 0..(2^n - 1) : \A i \in 1..n : Bit(mask, i) = 1 <=> i \in Q
<1> DEFINE Has(k) == \A Q \in SUBSET (1..k) :
                       \E mask \in 0..(2^k - 1) : \A i \in 1..k : Bit(mask, i) = 1 <=> i \in Q
           N == {k \in Nat : Has(k)}
<1>1. 0 \in N
  <2>1. 0 \in 0..(2^0 - 1)
    BY Powers
  <2> QED
    BY <2>1
<1>2. ASSUME NEW k \in Nat, k \in N PROVE k + 1 \in N
  <2> SUFFICES ASSUME NEW Q \in SUBSET (1..(k + 1))
               PROVE  \E mask \in 0..(2^(k + 1) - 1) :
                        \A i \in 1..(k + 1) : Bit(mask, i) = 1 <=> i \in Q
    OBVIOUS
  <2> DEFINE P == {i \in 1..k : i + 1 \in Q}
             b == IF 1 \in Q THEN 1 ELSE 0
  <2>1. PICK m \in 0..(2^k - 1) : \A i \in 1..k : Bit(m, i) = 1 <=> i \in P
    <3>1. P \in SUBSET (1..k)
      OBVIOUS
    <3> HIDE DEF P
    <3> QED
      BY <1>2, <3>1
  <2> DEFINE mask == 2 * m + b
  <2>2. 2^k \in Nat \ {0} /\ 2^(k + 1) = 2 * 2^k /\ m \in Nat /\ b \in {0, 1}
    BY Powers
  <2>3. mask \in 0..(2^(k + 1) - 1)
    BY <2>2
  <2>4. ASSUME NEW i \in 1..(k + 1) PROVE Bit(mask, i) = 1 <=> i \in Q
    <3>1. CASE i = 1
      <4>1. 2^(i - 1) = 1
        BY <3>1, Powers
      <4>2. mask \in Nat /\ mask = 1 * mask + 0
        BY <2>2
      <4>3. mask \div 1 = mask
        <5> HIDE DEF mask
        <5>1. 1 \in Nat \ {0} /\ 0 \in 0..(1 - 1)
          OBVIOUS
        <5> QED
          BY <4>2, <5>1, Quotient
      <4>4. Bit(mask, i) = mask % 2
        BY <4>1, <4>3 DEF Bit
      <4>5. mask % 2 = b
        BY <2>2
      <4> QED
        BY <3>1, <4>4, <4>5
    <3>2. CASE i # 1
      <4> DEFINE j == i - 1
                 d == 2^(j - 1)
      <4>1. j \in 1..k /\ j - 1 \in Nat /\ (j - 1) + 1 = i - 1 /\ j + 1 = i
        BY <3>2
      <4>2. d \in Nat \ {0} /\ 2^(i - 1) = 2 * d
        BY <4>1, Powers
      <4> HIDE DEF d
      <4>3. mask \div (2 * d) = m \div d
        BY <2>2, <4>2, Halves
      <4>4. Bit(mask, i) = Bit(m, j)
        BY <4>2, <4>3 DEF Bit, d
      <4>5. j \in P <=> i \in Q
        BY <4>1
      <4> QED
        BY <2>1, <4>1, <4>4, <4>5
    <3> QED
      BY <3>1, <3>2
  <2> QED
    BY <2>3, <2>4
<1>3. Nat \subseteq N
  <2> HIDE DEF N
  <2> QED
    BY <1>1, <1>2, NatSet
<1> QED
  BY <1>3

\* Every choice of versions with a Delta in it is one of the rewrites
\* (semi_naive_rewrites), and so is the empty one of a rule without searches.
LEMMA RewriteFor ==
  ASSUME NEW rule, IsSeq(rule.pos), NEW Q \in SUBSET DOMAIN rule.pos,
         Q # {} \/ Len(rule.pos) = 0
  PROVE  \E v \in ToSet(SemiNaiveRewrites(rule)) :
           \A i \in DOMAIN rule.pos : v[i] = IF i \in Q THEN "Delta" ELSE "Total"
<1> DEFINE n == Len(rule.pos)
<1>1. n \in Nat /\ DOMAIN rule.pos = 1..n
  BY SeqParts
<1>2. CASE n = 0
  <2>1. SemiNaiveRewrites(rule) = <<(<<>>)>>
    BY <1>2 DEF SemiNaiveRewrites
  <2>2. ToSet(SemiNaiveRewrites(rule)) = {<<>>}
    BY <2>1, SeqOne
  <2> QED
    BY <1>1, <1>2, <2>2
<1>3. CASE n # 0
  <2> DEFINE top == 2^n - 1
             V(mask) == [i \in 1..n |-> IF Bit(mask, i) = 1 THEN "Delta" ELSE "Total"]
             f == [mask \in 1..top |-> V(mask)]
  <2>1. SemiNaiveRewrites(rule) = f
    BY <1>3 DEF SemiNaiveRewrites, Bit
  <2>2. PICK mask \in 0..(2^n - 1) : \A i \in 1..n : Bit(mask, i) = 1 <=> i \in Q
    BY <1>1, Masks
  <2>3. mask # 0
    <3> SUFFICES ASSUME mask = 0 PROVE FALSE
      OBVIOUS
    <3>1. PICK i \in 1..n : i \in Q
      BY <1>1, <1>3
    <3>2. i - 1 \in Nat /\ 2^(i - 1) \in Nat \ {0}
      BY <3>1, Powers
    <3> DEFINE d == 2^(i - 1)
    <3>3. 0 = d * 0 + 0 /\ 0 \in 0..(d - 1)
      BY <3>2
    <3>4. 0 \div d = 0
      BY <3>2, <3>3, Quotient
    <3>5. Bit(0, i) = 0
      <4>1. Bit(0, i) = 0 % 2
        BY <3>4 DEF Bit
      <4> QED
        BY <4>1
    <3> QED
      BY <2>2, <3>1, <3>5
  <2>4. mask \in 1..top /\ mask \in DOMAIN f
    BY <2>2, <2>3
  <2>5. V(mask) \in ToSet(f)
    BY <2>4 DEF ToSet
  <2>6. \A i \in 1..n : V(mask)[i] = IF i \in Q THEN "Delta" ELSE "Total"
    BY <2>2
  <2> QED
    BY <1>1, <2>1, <2>5, <2>6
<1> QED
  BY <1>2, <1>3

-----------------------------------------------------------------------------
(* What a rewrite asks for an instance of its rule.                         *)

\* A pattern with some of the columns of another.
Part(w, p) ==
  /\ w.rel = p.rel /\ DOMAIN w.args \subseteq DOMAIN p.args
  /\ \A c \in DOMAIN w.args : w.args[c] = p.args[c]

\* What matches a pattern matches every part of it.
LEMMA PartMatches ==
  ASSUME NEW w, NEW p, Part(w, p), NEW f, Matches(f, p)
  PROVE  Matches(f, w)
BY DEF Part, Matches

\* The instance of an atom, column by column.
LEMMA ResolveParts ==
  ASSUME NEW a, a = Atom(a.rel, a.args), NEW b
  PROVE  /\ Resolve(a, b).rel = a.rel /\ DOMAIN Resolve(a, b).args = DOMAIN a.args
         /\ \A c \in DOMAIN a.args : Resolve(a, b).args[c] =
              IF a.args[c] \in DOMAIN b THEN b[a.args[c]] ELSE a.args[c]
<1> DEFINE g == [c \in DOMAIN a.args |-> IF a.args[c] \in DOMAIN b THEN b[a.args[c]] ELSE a.args[c]]
<1>1. a = [rel |-> a.rel, args |-> a.args]
  BY DEF Atom
<1>2. Resolve(a, b) = [a EXCEPT !.args = g]
  BY DEF Resolve
<1>3. DOMAIN g = DOMAIN a.args /\ \A c \in DOMAIN a.args : g[c] =
        IF a.args[c] \in DOMAIN b THEN b[a.args[c]] ELSE a.args[c]
  OBVIOUS
<1> HIDE DEF g
<1>4. Resolve(a, b).rel = a.rel /\ Resolve(a, b).args = g
  BY <1>1, <1>2
<1> QED
  BY <1>3, <1>4

\* The instance of some columns is that part of the instance.
LEMMA ResolvePart ==
  ASSUME NEW a, a = Atom(a.rel, a.args), NEW w, w = Atom(w.rel, w.args), Part(w, a), NEW b
  PROVE  Part(Resolve(w, b), Resolve(a, b))
<1>1. /\ Resolve(a, b).rel = a.rel /\ DOMAIN Resolve(a, b).args = DOMAIN a.args
      /\ \A c \in DOMAIN a.args : Resolve(a, b).args[c] =
           IF a.args[c] \in DOMAIN b THEN b[a.args[c]] ELSE a.args[c]
  BY ResolveParts
<1>2. /\ Resolve(w, b).rel = w.rel /\ DOMAIN Resolve(w, b).args = DOMAIN w.args
      /\ \A c \in DOMAIN w.args : Resolve(w, b).args[c] =
           IF w.args[c] \in DOMAIN b THEN b[w.args[c]] ELSE w.args[c]
  BY ResolveParts
<1> QED
  BY <1>1, <1>2 DEF Part

\* A search looks for the instance of its predicate, or for some columns of it.
LEMMA ConstrainedPart ==
  ASSUME NEW rule, NEW order, NEW i, NEW b, NEW a, a = rule.pos[order[i].at], a = Atom(a.rel, a.args)
  PROVE  Part(Resolve(Constrained(rule, order, i), b), Resolve(a, b))
<1> DEFINE free == DOMAIN rule.vars \ BoundBefore(rule, order, i)
           Same(c) == {d \in DOMAIN a.args : a.args[d] = a.args[c]}
           Binder(c) == CHOOSE d \in Same(c) : d # "cid" \/ Same(c) = {"cid"}
           kept == {c \in DOMAIN a.args : a.args[c] \in free => c = Binder(c)}
           g == [c \in kept |-> a.args[c]]
           w == Constrained(rule, order, i)
<1>1. w = [a EXCEPT !.args = g]
  BY SMTT(40) DEF Constrained
<1>2. DOMAIN g \subseteq DOMAIN a.args /\ \A c \in DOMAIN g : g[c] = a.args[c]
  OBVIOUS
<1>3. a = [rel |-> a.rel, args |-> a.args]
  BY DEF Atom
<1> HIDE DEF w, g
<1>4. w = [rel |-> a.rel, args |-> g]
  BY <1>1, <1>3
<1>5. w = Atom(w.rel, w.args) /\ Part(w, a)
  BY <1>2, <1>4 DEF Atom, Part
<1>6. Part(Resolve(w, b), Resolve(a, b))
  BY <1>5, ResolvePart
<1> QED
  BY <1>6 DEF w

\* The statements that a rule is lowered to, one for each rewrite.
LEMMA LoweredInserts ==
  ASSUME NEW rule, IsSeq(rule.pos), NEW version
  PROVE  /\ IsSeq(LowerRule(rule, version))
         /\ \A s \in ToSet(LowerRule(rule, version)) :
              \E v \in ToSet(SemiNaiveRewrites(rule)) : s = LowerRewrite(rule, v, version)
         /\ \A v \in ToSet(SemiNaiveRewrites(rule)) :
              LowerRewrite(rule, v, version) \in ToSet(LowerRule(rule, version))
<1> DEFINE rewrites == SemiNaiveRewrites(rule)
           q == LowerRule(rule, version)
<1>1. IsSeq(rewrites)
  BY RewriteParts
<1>2. q = [i \in DOMAIN rewrites |-> LowerRewrite(rule, rewrites[i], version)]
  BY DEF LowerRule
<1>3. q = [i \in DOMAIN rewrites |-> q[i]]
  BY <1>2
<1> HIDE DEF q, rewrites
<1>4. IsSeq(q) /\ DOMAIN q = DOMAIN rewrites
  BY <1>1, <1>3, SeqMap, SeqParts
<1> QED
  BY <1>2, <1>4 DEF ToSet, q, rewrites

\* A statement for one rewrite, and the rows of the bindings it keeps.
LEMMA RewriteRows ==
  ASSUME NEW rule, NEW versions, NEW version
  PROVE  LET s == LowerRewrite(rule, versions, version)
             order == OrderTerms(rule, versions)
         IN  /\ s.op = "insert" /\ s.into = Key(rule.head.rel, version) /\ s.ground = FALSE
             /\ s.rows = {LowerRow(rule, order, b) : b \in {c \in Bindings(rule) :
                            \A p \in Formulae(order, "pred") : PredicateHolds(rule.preds[p], c)}}
BY DEF LowerRewrite, Insert

\* The terms of an order, by their kinds.
LEMMA OrderedTerms ==
  ASSUME NEW rule, NEW D, NEW O, ProperRule(rule, D, O), NEW versions, IsRewrite(rule, versions),
         NEW order, order = OrderTerms(rule, versions)
  PROVE  /\ IsSeq(order)
         /\ \A i \in DOMAIN order : IsTerm(order[i], rule, versions)
<1>1. order \in Seq(ToSet(Terms(rule, versions)))
  BY OrderParts
<1>2. DOMAIN order = 1..Len(order) /\ Len(order) \in Nat
      /\ \A i \in DOMAIN order : order[i] \in ToSet(Terms(rule, versions))
  BY <1>1
<1>3. order = [i \in 1..Len(order) |-> order[i]]
  BY <1>1
<1>4. IsSeq(order)
  BY <1>2, <1>3, SeqFrom
<1> QED
  BY <1>2, <1>4, TermsParts

\* A row that asks for no more of an instance than its predicates, those in Q
\* in Delta and the others in Total, its negated ones in neither, and its head
\* not in Total.
Row(row, j, Q) ==
  /\ row.head = j.head /\ row.aggs = {}
  /\ \A q \in row.search : \E p \in j.pos :
       Part(q[1], p) /\ q[2] = IF p \in Q THEN "Delta" ELSE "Total"
  /\ row.absent \subseteq (j.neg \X {"Delta", "Total"}) \cup {<<j.head, "Total">>}

\* For an instance of a rule without aggregations and any choice of its
\* predicates that are to be news, some statement has such a row
\* (lower_to_ram.rs, semi_naive_rewrites, order_terms and
\* lower_rule_body_to_ram).
LEMMA RewriteFinds ==
  ASSUME NEW rule, NEW D, NEW O, ProperRule(rule, D, O), rule.aggs = <<>>,
         NEW j \in Instances(rule), NEW Q \in SUBSET j.pos, Q # {} \/ j.pos = {}, NEW version
  PROVE  \E s \in ToSet(LowerRule(rule, version)) : \E row \in s.rows : Row(row, j, Q)
<1> DEFINE Kept(b) == \A p \in ToSet(rule.preds) : PredicateHolds(p, b)
<1>1. PICK b \in Bindings(rule) : Kept(b) /\ j = Ground(rule, b)
  BY DEF Instances
<1>2. /\ j.head = Resolve(rule.head, b)
      /\ j.pos = {Resolve(a, b) : a \in ToSet(rule.pos)}
      /\ j.neg = {Resolve(a, b) : a \in ToSet(rule.neg)}
  BY <1>1 DEF Ground
<1>3. /\ IsSeq(rule.pos) /\ IsSeq(rule.neg) /\ IsSeq(rule.preds)
      /\ \A a \in ToSet(rule.pos) \cup ToSet(rule.neg) : IsAtom(a, D)
  BY DEF ProperRule
<1> DEFINE R == {i \in DOMAIN rule.pos : Resolve(rule.pos[i], b) \in Q}
<1>4. /\ DOMAIN rule.pos = 1..Len(rule.pos) /\ Len(rule.pos) \in Nat
      /\ \A i \in DOMAIN rule.pos : rule.pos[i] \in ToSet(rule.pos)
      /\ \A a \in ToSet(rule.pos) : \E i \in DOMAIN rule.pos : a = rule.pos[i]
  BY <1>3, SeqParts
<1>5. R # {} \/ Len(rule.pos) = 0
  <2>1. CASE Q # {}
    <3>1. PICK p \in Q : TRUE
      BY <2>1
    <3>2. PICK a \in ToSet(rule.pos) : p = Resolve(a, b)
      BY <1>2, <3>1
    <3> QED
      BY <1>4, <3>2
  <2>2. CASE j.pos = {}
    <3>1. ASSUME NEW a \in ToSet(rule.pos) PROVE FALSE
      <4>1. Resolve(a, b) \in j.pos
        BY <1>2
      <4> QED
        BY <2>2, <4>1
    <3>2. Len(rule.pos) # 0 => 1 \in DOMAIN rule.pos
      BY <1>4
    <3> QED
      BY <1>4, <3>1, <3>2
  <2> QED
    BY <2>1, <2>2
<1>6. R \in SUBSET DOMAIN rule.pos
  OBVIOUS
<1> HIDE DEF R
<1>7. PICK versions \in ToSet(SemiNaiveRewrites(rule)) :
        \A i \in DOMAIN rule.pos : versions[i] = IF i \in R THEN "Delta" ELSE "Total"
  BY <1>3, <1>5, <1>6, RewriteFor
<1>8. IsRewrite(rule, versions)
  BY <1>3, RewriteParts
<1> DEFINE order == OrderTerms(rule, versions)
           s == LowerRewrite(rule, versions, version)
           row == LowerRow(rule, order, b)
<1>9. IsSeq(order) /\ \A i \in DOMAIN order : IsTerm(order[i], rule, versions)
  BY <1>8, OrderedTerms
<1> HIDE DEF order
<1>10. s \in ToSet(LowerRule(rule, version))
  BY <1>3, LoweredInserts
<1>11. \A p \in Formulae(order, "pred") : PredicateHolds(rule.preds[p], b)
  <2> SUFFICES ASSUME NEW i \in DOMAIN order, order[i].kind = "pred"
               PROVE  PredicateHolds(rule.preds[order[i].at], b)
    BY DEF Formulae
  <2>1. order[i].at \in DOMAIN rule.preds
    BY <1>9 DEF IsTerm
  <2>2. rule.preds[order[i].at] \in ToSet(rule.preds)
    BY <2>1 DEF ToSet
  <2> QED
    BY <1>1, <2>2
<1>12. row \in s.rows
  <2> DEFINE kept == {c \in Bindings(rule) :
                        \A p \in Formulae(order, "pred") : PredicateHolds(rule.preds[p], c)}
  <2>1. s.rows = {LowerRow(rule, order, c) : c \in kept}
    BY RewriteRows DEF order
  <2>2. b \in kept
    BY <1>11
  <2> HIDE DEF kept, s
  <2> QED
    BY <2>1, <2>2
<1>13. /\ row.head = j.head
       /\ row.search = Searches(rule, order, b)
       /\ row.absent = (NotIn(rule, order, b) \X {"Delta", "Total"}) \cup HeadGuard(rule, b)
       /\ row.aggs = {GroundAgg(rule, rule.aggs[order[i].at], BoundBefore(rule, order, i), b) :
                        i \in {k \in DOMAIN order : order[k].kind = "agg"}}
  BY <1>2 DEF LowerRow
<1> HIDE DEF row, s
<1>14. row.aggs = {}
  <2>1. \A i \in DOMAIN order : order[i].kind # "agg"
    <3> SUFFICES ASSUME NEW i \in DOMAIN order, order[i].kind = "agg" PROVE FALSE
      OBVIOUS
    <3>1. order[i].at \in DOMAIN rule.aggs
      BY <1>9 DEF IsTerm
    <3>2. DOMAIN rule.aggs = 1..0
      OBVIOUS
    <3> QED
      BY <3>1, <3>2
  <2> QED
    BY <1>13, <2>1
<1>15. ASSUME NEW q \in row.search
       PROVE  \E p \in j.pos : Part(q[1], p) /\ q[2] = IF p \in Q THEN "Delta" ELSE "Total"
  <2>1. PICK i \in DOMAIN order : order[i].kind = "rel"
          /\ q = <<Resolve(Constrained(rule, order, i), b), order[i].version>>
    BY <1>13 DEF Searches
  <2> DEFINE a == rule.pos[order[i].at]
             p == Resolve(a, b)
  <2>2. order[i].at \in DOMAIN versions /\ order[i].version = versions[order[i].at]
    BY <1>9, <2>1 DEF IsTerm
  <2>3. order[i].at \in DOMAIN rule.pos
    BY <1>8, <2>2 DEF IsRewrite
  <2>4. a \in ToSet(rule.pos) /\ a = Atom(a.rel, a.args)
    BY <1>3, <1>4, <2>3 DEF IsAtom
  <2>5. p \in j.pos
    BY <1>2, <2>4
  <2>6. order[i].version = IF p \in Q THEN "Delta" ELSE "Total"
    BY <1>7, <2>2, <2>3 DEF R
  <2>7. Part(Resolve(Constrained(rule, order, i), b), p)
    BY <2>4, ConstrainedPart
  <2>8. q[1] = Resolve(Constrained(rule, order, i), b) /\ q[2] = order[i].version
    BY <2>1
  <2> HIDE DEF p
  <2> QED
    BY <2>5, <2>6, <2>7, <2>8
<1>16. row.absent \subseteq (j.neg \X {"Delta", "Total"}) \cup {<<j.head, "Total">>}
  <2>1. NotIn(rule, order, b) \subseteq j.neg
    <3> SUFFICES ASSUME NEW i \in DOMAIN order, order[i].kind = "neg"
                 PROVE  Resolve(rule.neg[order[i].at], b) \in j.neg
      BY DEF NotIn, Formulae
    <3>1. order[i].at \in DOMAIN rule.neg
      BY <1>9 DEF IsTerm
    <3>2. rule.neg[order[i].at] \in ToSet(rule.neg)
      BY <3>1 DEF ToSet
    <3> QED
      BY <1>2, <3>2
  <2>2. HeadGuard(rule, b) \subseteq {<<j.head, "Total">>}
    BY <1>2 DEF HeadGuard
  <2> QED
    BY <1>13, <2>1, <2>2
<1>17. Row(row, j, Q)
  BY <1>13, <1>14, <1>15, <1>16 DEF Row
<1> QED
  BY <1>10, <1>12, <1>17

\* In a rule without aggregations every formula is evaluated.
LEMMA AllEvaluated ==
  ASSUME NEW order, IsSeq(order), \A i \in DOMAIN order : order[i].kind # "agg", NEW i \in DOMAIN order
  PROVE  Evaluated(order, i)
<1> DEFINE next == {j \in DOMAIN order : j > i /\ order[j].kind \in {"rel", "agg"}}
           first == CHOOSE j \in next : \A k \in next : j <= k
<1>1. DOMAIN order = 1..Len(order) /\ Len(order) \in Nat
  BY SeqParts
<1>2. ASSUME next # {} PROVE order[first].kind = "rel"
  <2>1. \E j \in next : \A k \in next : j <= k
    <3>1. next \in SUBSET (1..Len(order))
      BY <1>1
    <3> HIDE DEF next
    <3> QED
      BY <1>1, <1>2, <3>1, FirstOf
  <2>2. first \in next
    <3> HIDE DEF next
    <3> QED
      BY <2>1
  <2> HIDE DEF first
  <2> QED
    BY <2>2
<1> QED
  BY <1>2 DEF Evaluated

\* The atoms of a rule in which no variable stands in two columns: a search
\* constrains only one of those that it binds.
ReadsOnce(rule) ==
  \A a \in ToSet(rule.pos) : \A c, d \in DOMAIN a.args :
    a.args[c] = a.args[d] /\ a.args[c] \in DOMAIN rule.vars => c = d

\* A search of such an atom finds nothing that its instance does not.
LEMMA ConstrainedAll ==
  ASSUME NEW rule, NEW order, NEW i, NEW b, NEW a, a = rule.pos[order[i].at], a = Atom(a.rel, a.args),
         \A c, d \in DOMAIN a.args : a.args[c] = a.args[d] /\ a.args[c] \in DOMAIN rule.vars => c = d
  PROVE  Part(Resolve(a, b), Resolve(Constrained(rule, order, i), b))
<1> DEFINE free == DOMAIN rule.vars \ BoundBefore(rule, order, i)
           Same(c) == {d \in DOMAIN a.args : a.args[d] = a.args[c]}
           Binder(c) == CHOOSE d \in Same(c) : d # "cid" \/ Same(c) = {"cid"}
           kept == {c \in DOMAIN a.args : a.args[c] \in free => c = Binder(c)}
           g == [c \in kept |-> a.args[c]]
           w == Constrained(rule, order, i)
<1>1. kept = DOMAIN a.args
  <2> SUFFICES ASSUME NEW c \in DOMAIN a.args, a.args[c] \in free PROVE c = Binder(c)
    OBVIOUS
  <2>1. Same(c) = {c}
    OBVIOUS
  <2>2. c # "cid" \/ {c} = {"cid"}
    BY SMTT(40)
  <2>3. Binder(c) = CHOOSE d \in {c} : d # "cid" \/ {c} = {"cid"}
    BY <2>1
  <2> QED
    BY ZenonT(60), <2>2, <2>3
<1>2. w = [a EXCEPT !.args = g]
  BY DEF Constrained
<1>3. a = [rel |-> a.rel, args |-> a.args]
  BY SMTT(40) DEF Atom
<1> HIDE DEF kept
<1>4. DOMAIN g = DOMAIN a.args /\ \A c \in DOMAIN a.args : g[c] = a.args[c]
  BY <1>1
<1> HIDE DEF w, g
<1>5. w = [rel |-> a.rel, args |-> g]
  BY SMTT(40), <1>2, <1>3
<1>6. w = Atom(w.rel, w.args) /\ Part(a, w)
  BY <1>4, <1>5 DEF Atom, Part
<1>7. Part(Resolve(a, b), Resolve(w, b))
  BY <1>6, ResolvePart
<1> QED
  BY <1>7 DEF w
=============================================================================
