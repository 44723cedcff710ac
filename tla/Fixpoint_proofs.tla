--------------------------- MODULE Fixpoint_proofs ---------------------------
(***************************************************************************)
(* What the epochs compute, for every program and however its inputs are     *)
(* split into epochs: no consequence is missed (ClosedUnderRules), what a    *)
(* rule checks before it writes it is written in one epoch and at most twice *)
(* (EmittedInOneEpoch, EmittedAtMostTwice), every fact keeps a reason        *)
(* (SupportedByRules), and a monotone program's fixpoint is its least model  *)
(* (FixpointIsModel).  A world is what the relations and the output hold; a  *)
(* statement goes from a set of worlds to a set of worlds or leaves it with  *)
(* another set as its exit; and a course is the sequence of such assertions  *)
(* along the code.  The invariants then read the assertion at pc.            *)
(***************************************************************************)
EXTENDS Lowering_proofs

-----------------------------------------------------------------------------
(* The components of the dependency graph.                                  *)

\* What one step along the edges leads to carries a clause.
LEMMA OnwardNodes ==
  ASSUME NEW source, NEW S
  PROVE  Onward(source, S) \subseteq IdbNodes(source)
<1> SUFFICES ASSUME NEW d \in Dependencies(source) PROVE d.to \in IdbNodes(source)
  BY DEF Onward
<1>1. PICK r \in ToSet(source.rules) : d.to = r.head.rel
  BY DEF Dependencies
<1> QED
  BY <1>1 DEF IdbNodes

\* Reachable is the least set that is closed under steps along the edges: as
\* many rounds as there are nodes are enough.
LEMMA ReachableIs ==
  ASSUME NEW source, Proper(source), NEW r
  PROVE  /\ Onward(source, {r}) \subseteq Reachable(source, r)
         /\ Onward(source, Reachable(source, r)) \subseteq Reachable(source, r)
         /\ \A S : Onward(source, {r}) \subseteq S /\ Onward(source, S) \subseteq S
                     => Reachable(source, r) \subseteq S
<1> DEFINE nodes == IdbNodes(source)
           n == Cardinality(nodes)
           f == CHOOSE f : Reaches(f, source, r, n)
           Ahead(S) == Onward(source, S)
<1>1. n \in Nat /\ IsFiniteSet(nodes)
  BY NodesAreOutputs, FS_CardinalityType
<1>2. Reaches(f, source, r, n)
  BY <1>1, ReachesExists
<1>3. Reachable(source, r) = f[n]
  BY DEF Reachable, Reaches, Onward
<1> HIDE DEF f, n
<1>4. f[0] = Ahead({r}) /\ \A k \in 1..n : f[k] = f[k - 1] \cup Ahead(f[k - 1])
  <2>1. \A k \in 0..n : f[k] = IF k = 0 THEN Ahead({r}) ELSE f[k - 1] \cup Ahead(f[k - 1])
    <3> HIDE DEF Ahead
    <3>1. f = [k \in 0..n |-> IF k = 0 THEN Ahead({r}) ELSE f[k - 1] \cup Ahead(f[k - 1])]
      BY <1>2 DEF Reaches, Ahead
    <3> QED
      BY <3>1
  <2>2. n \in Nat
    BY <1>1 DEF n
  <2>3. 0 \in 0..n /\ \A k \in 1..n : k \in 0..n /\ k # 0
    BY <2>2
  <2> HIDE DEF Ahead
  <2> QED
    BY <2>1, <2>3
<1>5. \A S : Ahead(S) \subseteq nodes
  BY OnwardNodes
<1> HIDE DEF Ahead, nodes
<1> DEFINE Enough(k) == Ahead(f[k]) \subseteq f[k] \/ Cardinality(f[k]) >= k + 1
           Good(k) == Ahead({r}) \subseteq f[k] /\ f[k] \subseteq nodes /\ Enough(k)
           N == {k \in Nat : k <= n => Good(k)}
<1>6. 0 \in N
  <2>1. Ahead({r}) \subseteq f[0] /\ f[0] \subseteq nodes
    BY <1>4, <1>5
  <2>2. IsFiniteSet(f[0])
    BY <1>1, <2>1, FS_Subset
  <2>3. CASE f[0] = {}
    <3>1. Ahead({}) = {}
      BY DEF Ahead, Onward
    <3> QED
      BY <2>1, <2>3, <3>1
  <2>4. CASE f[0] # {}
    <3>1. Cardinality(f[0]) \in Nat /\ Cardinality(f[0]) # 0
      BY <2>2, <2>4, FS_CardinalityType, FS_EmptySet
    <3>2. Cardinality(f[0]) >= 0 + 1
      BY <3>1
    <3> QED
      BY <2>1, <3>2
  <2> QED
    BY <2>3, <2>4
<1>7. ASSUME NEW k \in Nat, k \in N PROVE k + 1 \in N
  <2> SUFFICES ASSUME k + 1 <= n
               PROVE  Ahead({r}) \subseteq f[k + 1] /\ f[k + 1] \subseteq nodes /\ Enough(k + 1)
    OBVIOUS
  <2>1. Good(k)
    <3> HIDE DEF Good
    <3> QED
      BY <1>1, <1>7
  <2>2. f[k + 1] = f[k] \cup Ahead(f[k])
    <3>1. k + 1 \in 1..n /\ (k + 1) - 1 = k
      BY <1>1
    <3> QED
      BY <1>4, <3>1
  <2>3. Ahead({r}) \subseteq f[k + 1] /\ f[k + 1] \subseteq nodes
    BY <1>5, <2>1, <2>2
  <2>4. CASE Ahead(f[k]) \subseteq f[k]
    <3>1. f[k + 1] = f[k]
      BY <2>2, <2>4
    <3> QED
      BY <2>3, <2>4, <3>1
  <2>5. CASE ~ (Ahead(f[k]) \subseteq f[k])
    <3>1. Cardinality(f[k]) >= k + 1
      BY <2>1, <2>5
    <3>2. PICK x \in Ahead(f[k]) : x \notin f[k]
      BY <2>5
    <3>3. IsFiniteSet(f[k]) /\ IsFiniteSet(f[k + 1])
      BY <1>1, <2>1, <2>3, FS_Subset
    <3>4. Cardinality(f[k] \cup {x}) = Cardinality(f[k]) + 1 /\ IsFiniteSet(f[k] \cup {x})
      BY <3>2, <3>3, FS_AddElement
    <3>5. f[k] \cup {x} \in SUBSET f[k + 1]
      BY <2>2, <3>2
    <3>6. Cardinality(f[k] \cup {x}) <= Cardinality(f[k + 1])
      BY <3>3, <3>5, FS_Subset
    <3>7. Cardinality(f[k]) \in Nat /\ Cardinality(f[k + 1]) \in Nat
      BY <3>3, FS_CardinalityType
    <3>8. Cardinality(f[k + 1]) >= (k + 1) + 1
      BY <3>1, <3>4, <3>6, <3>7
    <3> QED
      BY <2>3, <3>8
  <2> QED
    BY <2>4, <2>5
<1>8. Nat \subseteq N
  <2> HIDE DEF N
  <2> QED
    BY <1>6, <1>7, NatSet
<1>9. n \in N
  BY <1>1, <1>8
<1>10. Good(n)
  <2> HIDE DEF Good
  <2> QED
    BY <1>1, <1>9
<1>11. Ahead(f[n]) \subseteq f[n]
  <2> SUFFICES ASSUME Cardinality(f[n]) >= n + 1 PROVE FALSE
    BY <1>10
  <2>1. Cardinality(f[n]) <= n /\ IsFiniteSet(f[n])
    BY <1>1, <1>10, FS_Subset DEF n
  <2>2. Cardinality(f[n]) \in Nat
    BY <2>1, FS_CardinalityType
  <2> QED
    BY <1>1, <2>1, <2>2
<1>12. ASSUME NEW S, Ahead({r}) \subseteq S, Ahead(S) \subseteq S PROVE f[n] \subseteq S
  <2> DEFINE M == {k \in Nat : k <= n => f[k] \subseteq S}
  <2>1. 0 \in M
    BY <1>4, <1>12
  <2>2. ASSUME NEW k \in Nat, k \in M PROVE k + 1 \in M
    <3> SUFFICES ASSUME k + 1 <= n PROVE f[k + 1] \subseteq S
      OBVIOUS
    <3>1. f[k] \subseteq S
      BY <1>1, <2>2
    <3>2. k + 1 \in 1..n /\ (k + 1) - 1 = k
      BY <1>1
    <3>3. f[k + 1] = f[k] \cup Ahead(f[k])
      BY <1>4, <3>2
    <3>4. Ahead(f[k]) \subseteq Ahead(S)
      BY <3>1 DEF Ahead, Onward
    <3> QED
      BY <1>12, <3>1, <3>3, <3>4
  <2>3. Nat \subseteq M
    <3> HIDE DEF M
    <3> QED
      BY <2>1, <2>2, NatSet
  <2>4. n \in M
    BY <1>1, <2>3
  <2> QED
    BY <1>1, <2>4
<1> QED
  BY <1>3, <1>10, <1>11, <1>12 DEF Ahead

\* What is reachable from something reachable is reachable.
LEMMA ReachableOn ==
  ASSUME NEW source, Proper(source), NEW r, NEW s \in Reachable(source, r)
  PROVE  Reachable(source, s) \subseteq Reachable(source, r)
<1>1. Onward(source, {s}) \subseteq Onward(source, Reachable(source, r))
  BY DEF Onward
<1>2. Onward(source, {s}) \subseteq Reachable(source, r)
  BY <1>1, ReachableIs
<1> QED
  BY <1>2, ReachableIs

\* Two components that share a relation are one.
LEMMA ComponentsApart ==
  ASSUME NEW source, Proper(source), NEW c \in Components(source), NEW d \in Components(source),
         NEW x, x \in c, x \in d
  PROVE  c = d
<1>1. ASSUME NEW a, x \in Component(source, a) PROVE Component(source, a) = Component(source, x)
  <2>1. CASE x = a
    BY <2>1
  <2>2. CASE x # a
    <3>1. x \in Reachable(source, a) /\ a \in Reachable(source, x)
      BY <1>1, <2>2 DEF Component
    <3>2. Reachable(source, x) = Reachable(source, a)
      <4>1. Reachable(source, x) \subseteq Reachable(source, a)
        BY <3>1, ReachableOn
      <4>2. Reachable(source, a) \subseteq Reachable(source, x)
        BY <3>1, ReachableOn
      <4> QED
        BY <4>1, <4>2
    <3>3. x \in Reachable(source, x) /\ a \in Reachable(source, a)
      BY <3>1, <3>2
    <3>4. ASSUME NEW y \in Component(source, a) PROVE y \in Component(source, x)
      <4>1. y \in Reachable(source, a) /\ a \in Reachable(source, y)
        BY <3>3, <3>4 DEF Component
      <4>2. Reachable(source, a) \subseteq Reachable(source, y)
        BY <4>1, ReachableOn
      <4> QED
        BY <3>1, <3>2, <4>1, <4>2 DEF Component
    <3>5. ASSUME NEW y \in Component(source, x) PROVE y \in Component(source, a)
      <4>1. y \in Reachable(source, x) /\ x \in Reachable(source, y)
        BY <3>3, <3>5 DEF Component
      <4>2. Reachable(source, x) \subseteq Reachable(source, y)
        BY <4>1, ReachableOn
      <4> QED
        BY <3>1, <3>2, <4>1, <4>2 DEF Component
    <3> QED
      BY <3>4, <3>5
  <2> QED
    BY <2>1, <2>2
<1>2. PICK a \in IdbNodes(source) : c = Component(source, a)
  BY DEF Components
<1>3. PICK b \in IdbNodes(source) : d = Component(source, b)
  BY DEF Components
<1> QED
  BY <1>1, <1>2, <1>3

\* The relations of the strata before the k-th of an order.
Done(s, k) == UNION {s[j] : j \in 1..(k - 1)}

\* An order of the components in which no edge leads back.
IsOrder(source, s, n) ==
  /\ \A i \in 1..n : s[i] \in Components(source)
  /\ \A i, j \in 1..n : i # j => s[i] \cap s[j] = {}
  /\ IdbNodes(source) \subseteq Done(s, n + 1)
  /\ \A i \in 1..n, d \in Dependencies(source) :
       d.to \in s[i] /\ d.from \in IdbNodes(source) => d.from \in Done(s, i) \cup s[i]

\* The strata are those of the components, each once and after the components
\* that its relations depend on (stratify.rs).
LEMMA StrataOrdered ==
  ASSUME NEW source, Proper(source), NEW strata \in StrataOrders(source)
  PROVE  \E s : /\ IsOrder(source, s, Len(strata))
                /\ \A i \in 1..Len(strata) : strata[i] = StratumOf(source, s[i])
<1> DEFINE Before(c, d) == \E e \in Dependencies(source) : e.from \in c /\ e.to \in d
<1>1. PICK s \in SetToSeqs(Components(source)) :
        /\ strata = [i \in DOMAIN s |-> StratumOf(source, s[i])]
        /\ \A i, j \in DOMAIN s : i < j => ~ Before(s[j], s[i])
  BY DEF StrataOrders
<1>2. IsFiniteSet(Components(source))
  <2> DEFINE f == [r \in IdbNodes(source) |-> Component(source, r)]
  <2>1. f \in Surjection(IdbNodes(source), Components(source))
    BY DEF Surjection, Components
  <2> HIDE DEF f
  <2> QED
    BY <2>1, NodesAreOutputs, FS_Surjection
<1>3. s \in Seq(Components(source)) /\ NoRepeats(s) /\ ToSet(s) = Components(source)
  BY <1>2, OrdersOf
<1>4. IsSeq(s)
  BY <1>3 DEF IsSeq
<1> DEFINE n == Len(s)
<1>5. IsSeq(strata) /\ Len(strata) = n /\ DOMAIN s = 1..n /\ n \in Nat
  <2>1. strata = [i \in DOMAIN s |-> strata[i]]
    BY <1>1
  <2> QED
    BY <1>4, <2>1, SeqMap, SeqParts
<1>6. \A i \in 1..n : s[i] \in Components(source)
  BY <1>3, <1>5
<1>7. \A i, j \in 1..n : i # j => s[i] \cap s[j] = {}
  <2> SUFFICES ASSUME NEW i \in 1..n, NEW j \in 1..n, NEW x, x \in s[i], x \in s[j] PROVE i = j
    OBVIOUS
  <2>1. s[i] = s[j]
    BY <1>6, ComponentsApart
  <2> QED
    BY <1>3, <1>5, <2>1 DEF NoRepeats
<1>8. ASSUME NEW x \in IdbNodes(source) PROVE \E i \in 1..n : x \in s[i]
  <2>1. Component(source, x) \in ToSet(s) /\ x \in Component(source, x)
    BY <1>3 DEF Components, Component
  <2> QED
    BY <1>5, <2>1 DEF ToSet
<1>9. IdbNodes(source) \subseteq Done(s, n + 1)
  <2>1. (n + 1) - 1 = n
    BY <1>5
  <2> QED
    BY <1>8, <2>1 DEF Done
<1>10. ASSUME NEW i \in 1..n, NEW d \in Dependencies(source), d.to \in s[i], d.from \in IdbNodes(source)
       PROVE  d.from \in Done(s, i) \cup s[i]
  <2>1. PICK j \in 1..n : d.from \in s[j]
    BY <1>8, <1>10
  <2>2. ~ (i < j)
    BY <1>1, <1>5, <1>10, <2>1
  <2>3. j = i \/ j \in 1..(i - 1)
    BY <1>5, <2>2
  <2> QED
    BY <2>1, <2>3 DEF Done
<1>11. IsOrder(source, s, n)
  BY <1>6, <1>7, <1>9, <1>10 DEF IsOrder
<1> QED
  BY <1>1, <1>5, <1>11

-----------------------------------------------------------------------------
(* Courses: assertions between the statements of a sequence, each of which   *)
(* holds after a statement when the one before it held before.  An assertion *)
(* is a set of worlds: what the relations hold, the epochs in which each     *)
(* fact was written to the output, and the present one.                      *)

Worlds == [rel : [Keys -> SUBSET Facts], sunk : [Facts -> Seq(Nat)], epoch : Nat]

\* What a search or a not_in formula finds, and whether a row is reached.
Sees(W, p, v) == \E f \in W.rel[<<p.rel, v>>] : Matches(f, p)

ReachedIn(W, row) ==
  /\ \A q \in row.search : Sees(W, q[1], q[2])
  /\ \A a \in row.absent : ~ Sees(W, a[1], a[2])

SameBut(W, V, K) == \A k \in Keys \ K : V.rel[k] = W.rel[k]

\* The rows that fire add their heads; a row without groups fires when it is
\* reached.  Ground rows do in the first epoch only, if at all.
Inserts(s, W, V) ==
  \E X \in SUBSET Facts :
    /\ V.rel[s.into] = W.rel[s.into] \cup X
    /\ SameBut(W, V, {s.into})
    /\ \A f \in X : \E row \in s.rows : f = row.head /\ (s.ground \/ ReachedIn(W, row))
    /\ s.ground /\ W.epoch # 0 => X = {}
    /\ ~ s.ground => \A row \in s.rows : row.aggs = {} /\ ReachedIn(W, row) => row.head \in X

Batch(s, W) == UNION {W.rel[<<r, "Delta">>] : r \in s.relations}

\* What a statement that is no loop makes of a world.
Makes(s, W, V) ==
  /\ V.epoch = W.epoch
  /\ s.op # "sinks" => V.sunk = W.sunk
  /\ s.op = "sinks" =>
       /\ V.rel = W.rel
       /\ \A f \in Facts : V.sunk[f] = IF f \in Batch(s, W) THEN Append(W.sunk[f], W.epoch) ELSE W.sunk[f]
  /\ s.op = "sources" =>
       \A k \in Keys : /\ W.rel[k] \subseteq V.rel[k]
                       /\ V.rel[k] = W.rel[k] \/ (k[2] = "Delta" /\ k[1] \in s.relations)
  /\ s.op = "insert" => Inserts(s, W, V)
  /\ s.op = "merge" =>
       V.rel[s.into] = W.rel[s.into] \cup W.rel[s.from] /\ SameBut(W, V, {s.into})
  /\ s.op = "swap" =>
       /\ V.rel[s.left] = W.rel[s.right] /\ V.rel[s.right] = W.rel[s.left]
       /\ SameBut(W, V, {s.left, s.right})
  /\ s.op = "purge" => V.rel[s.key] = {} /\ SameBut(W, V, {s.key})
  /\ s.op = "exit" => V.rel = W.rel

\* From P a statement leads to Q, or out of its loop to out.
Carries(P, s, Q, out) ==
  \A W \in P, V \in Worlds : Makes(s, W, V) =>
    IF s.op = "exit" /\ \A k \in s.keys : W.rel[k] = {} THEN V \in out ELSE V \in Q

\* B are the assertions of a loop that is entered from P and left to Q.
Circles(B, body, P, Q) ==
  /\ P \subseteq B[1] /\ B[Len(body) + 1] \subseteq B[1]
  /\ \A j \in 1..Len(body) : Carries(B[j], body[j], B[j + 1], Q)

Goes(P, s, Q, out) ==
  IF s.op = "loop" THEN \E B : Circles(B, s.body, P, Q) ELSE Carries(P, s, Q, out)

IsCourse(L, p, P, Q, out) ==
  /\ P \subseteq L[1] /\ L[Len(p) + 1] \subseteq Q
  /\ \A i \in 1..Len(p) : Goes(L[i], p[i], L[i + 1], out)

Course(p, P, Q, out) == \E L : IsCourse(L, p, P, Q, out)

\* Less may be assumed, and more may be concluded.
LEMMA GoesLess ==
  ASSUME NEW P, NEW s, NEW Q, NEW out, Goes(P, s, Q, out), NEW R \in SUBSET P
  PROVE  Goes(R, s, Q, out)
<1>1. CASE s.op = "loop"
  <2>1. PICK B : Circles(B, s.body, P, Q)
    BY <1>1 DEF Goes
  <2>2. Circles(B, s.body, R, Q)
    BY <2>1 DEF Circles
  <2> QED
    BY <1>1, <2>2 DEF Goes
<1>2. CASE s.op # "loop"
  BY <1>2 DEF Goes, Carries
<1> QED
  BY <1>1, <1>2

\* ... of a course, too.
LEMMA CourseLess ==
  ASSUME NEW p, NEW P, NEW Q, NEW out, Course(p, P, Q, out), NEW R \in SUBSET P, NEW S, Q \subseteq S
  PROVE  Course(p, R, S, out)
<1>1. PICK L : IsCourse(L, p, P, Q, out)
  BY DEF Course
<1>2. IsCourse(L, p, R, S, out)
  BY <1>1 DEF IsCourse
<1> QED
  BY <1>2 DEF Course

\* No statement, and a statement by itself.
LEMMA CourseNone ==
  ASSUME NEW P, NEW Q, P \subseteq Q, NEW out
  PROVE  Course(<<>>, P, Q, out)
<1> DEFINE L == [i \in 1..1 |-> P]
<1>1. L[1] = P /\ Len(<<>>) = 0 /\ 0 + 1 = 1 /\ \A i \in 1..0 : FALSE
  OBVIOUS
<1> HIDE DEF L
<1>2. IsCourse(L, <<>>, P, Q, out)
  BY <1>1 DEF IsCourse
<1> QED
  BY <1>2 DEF Course

\* A course of one statement.
LEMMA CourseOne ==
  ASSUME NEW s, NEW P, NEW Q, NEW out, Goes(P, s, Q, out)
  PROVE  Course(<<s>>, P, Q, out)
<1> DEFINE L == [i \in 1..2 |-> IF i = 1 THEN P ELSE Q]
<1>1. L[1] = P /\ L[2] = Q /\ Len(<<s>>) = 1 /\ <<s>>[1] = s
  OBVIOUS
<1> HIDE DEF L
<1>2. \A i \in 1..1 : i = 1 /\ i + 1 = 2
  OBVIOUS
<1>3. IsCourse(L, <<s>>, P, Q, out)
  BY <1>1, <1>2 DEF IsCourse
<1> QED
  BY <1>3 DEF Course

\* One course after another.
LEMMA CourseConcat ==
  ASSUME NEW p, NEW q, IsSeq(p), IsSeq(q), NEW P, NEW K, NEW Q, NEW out,
         Course(p, P, K, out), Course(q, K, Q, out)
  PROVE  Course(p \o q, P, Q, out)
<1>1. PICK A : IsCourse(A, p, P, K, out)
  BY DEF Course
<1>2. PICK B : IsCourse(B, q, K, Q, out)
  BY DEF Course
<1> DEFINE a == Len(p)
           b == Len(q)
           L == [i \in 1..(a + b + 1) |-> IF i <= a + 1 THEN A[i] ELSE B[i - a]]
<1>3. a \in Nat /\ b \in Nat
  BY SeqParts
<1>4. /\ Len(p \o q) = a + b
      /\ \A i \in 1..a : (p \o q)[i] = p[i]
      /\ \A i \in 1..b : (p \o q)[a + i] = q[i]
  BY SeqConcat
<1>5. \A i \in 1..(a + b + 1) : L[i] = IF i <= a + 1 THEN A[i] ELSE B[i - a]
  OBVIOUS
<1>6. P \subseteq A[1] /\ A[a + 1] \subseteq B[1] /\ B[b + 1] \subseteq Q
  BY <1>1, <1>2 DEF IsCourse
<1> HIDE DEF L
<1>7. \A i \in 1..(a + 1) : L[i] = A[i]
  <2>1. \A i \in 1..(a + 1) : i \in 1..(a + b + 1) /\ i <= a + 1
    BY <1>3
  <2> QED
    BY <1>5, <2>1
<1>8. L[a + 1] = A[a + 1]
  BY <1>3, <1>7
<1>9. \A j \in 1..(b + 1) : L[a + j] \subseteq B[j] /\ (j # 1 => L[a + j] = B[j])
  <2> SUFFICES ASSUME NEW j \in 1..(b + 1) PROVE L[a + j] \subseteq B[j] /\ (j # 1 => L[a + j] = B[j])
    OBVIOUS
  <2>1. CASE j = 1
    <3>1. L[a + j] = A[a + 1] /\ B[j] = B[1]
      BY <1>8, <2>1
    <3> HIDE DEF a
    <3> QED
      BY <1>6, <2>1, <3>1
  <2>2. CASE j # 1
    <3>1. a + j \in 1..(a + b + 1) /\ (a + j) - a = j /\ ~ (a + j <= a + 1)
      BY <1>3, <2>2
    <3>2. L[a + j] = B[j]
      BY <1>5, <3>1
    <3> QED
      BY <3>2
  <2> QED
    BY <2>1, <2>2
<1>10. ASSUME NEW i \in 1..(a + b) PROVE Goes(L[i], (p \o q)[i], L[i + 1], out)
  <2>1. CASE i <= a
    <3>1. i \in 1..a /\ i \in 1..(a + 1) /\ i + 1 \in 1..(a + 1)
      BY <1>3, <2>1
    <3>2. Goes(A[i], p[i], A[i + 1], out)
      BY <1>1, <3>1 DEF IsCourse
    <3> QED
      BY <1>4, <1>7, <3>1, <3>2
  <2>2. CASE i > a
    <3> DEFINE j == i - a
    <3>1. j \in 1..b /\ j \in 1..(b + 1) /\ j + 1 \in 1..(b + 1) /\ j + 1 # 1
          /\ a + j = i /\ a + (j + 1) = i + 1
      BY <1>3, <2>2
    <3> HIDE DEF j
    <3>2. Goes(B[j], q[j], B[j + 1], out)
      BY <1>2, <3>1 DEF IsCourse
    <3>3. (p \o q)[i] = q[j] /\ L[i] \subseteq B[j] /\ L[i + 1] = B[j + 1]
      BY <1>4, <1>9, <3>1
    <3>4. Goes(L[i], q[j], B[j + 1], out)
      BY <3>2, <3>3, GoesLess
    <3> QED
      BY <3>3, <3>4
  <2> QED
    BY <1>3, <2>1, <2>2
<1>11. P \subseteq L[1] /\ L[a + b + 1] \subseteq Q
  <2>1. 1 \in 1..(a + 1) /\ b + 1 \in 1..(b + 1) /\ a + (b + 1) = a + b + 1
    BY <1>3
  <2>2. L[1] = A[1] /\ L[a + b + 1] \subseteq B[b + 1]
    BY <1>7, <1>9, <2>1
  <2> QED
    BY <1>6, <2>2
<1> HIDE DEF a, b
<1>12. IsCourse(L, p \o q, P, Q, out)
  BY <1>4, <1>10, <1>11 DEF IsCourse
<1> QED
  BY <1>12 DEF Course

\* A sequence of sequences, from each assertion to the next.
LEMMA CourseFlatten ==
  ASSUME NEW seqs, IsSeq(seqs), NEW T, NEW out,
         \A i \in 1..Len(seqs) : IsSeq(seqs[i]) /\ Course(seqs[i], T[i], T[i + 1], out)
  PROVE  Course(FlattenSeq(seqs), T[1], T[Len(seqs) + 1], out)
<1> DEFINE n == Len(seqs)
           S == UNION {ToSet(seqs[i]) : i \in 1..n}
           P == [k \in 1..n |-> {p \in Seq(S) : Course(p, T[1], T[k + 1], out)}]
<1>1. n \in Nat
  BY SeqParts
<1>2. \A p \in Seq(S) : IsSeq(p)
  <2> SUFFICES ASSUME NEW p \in Seq(S) PROVE IsSeq(p)
    OBVIOUS
  <2>1. Len(p) \in Nat /\ p = [i \in 1..Len(p) |-> p[i]]
    OBVIOUS
  <2> QED
    BY <2>1, SeqFrom
<1>3. \A i \in 1..n : seqs[i] \in Seq(S)
  <2> SUFFICES ASSUME NEW i \in 1..n PROVE seqs[i] \in Seq(S)
    OBVIOUS
  <2>1. ToSet(seqs[i]) \subseteq S
    OBVIOUS
  <2>2. seqs[i] \in Seq(ToSet(seqs[i]))
    BY DEF IsSeq
  <2> HIDE DEF S
  <2> QED
    BY <2>1, <2>2
<1> HIDE DEF S
<1>4. CASE n = 0
  <2>1. seqs = <<>> /\ FlattenSeq(seqs) = <<>>
    <3>1. seqs = <<>>
      BY <1>4 DEF IsSeq
    <3> QED
      BY <1>4, <3>1 DEF FlattenSeq
  <2>2. T[1] = T[n + 1]
    BY <1>4
  <2> QED
    BY <2>1, <2>2, CourseNone
<1>5. CASE n # 0
  <2>1. seqs[1] \in P[1]
    <3>1. 1 \in 1..n
      BY <1>1, <1>5
    <3> QED
      BY <1>3, <3>1
  <2>2. ASSUME NEW k \in 1..n, NEW p \in P[k], k + 1 <= n PROVE p \o seqs[k + 1] \in P[k + 1]
    <3>1. k + 1 \in 1..n
      BY <1>1, <2>2
    <3>2. p \in Seq(S) /\ Course(p, T[1], T[k + 1], out)
      OBVIOUS
    <3>3. seqs[k + 1] \in Seq(S) /\ Course(seqs[k + 1], T[k + 1], T[(k + 1) + 1], out)
      BY <1>3, <3>1
    <3>4. p \o seqs[k + 1] \in Seq(S)
      BY <3>2, <3>3
    <3>5. Course(p \o seqs[k + 1], T[1], T[(k + 1) + 1], out)
      BY <1>2, <3>2, <3>3, CourseConcat
    <3> QED
      BY <3>1, <3>4, <3>5
  <2>3. FlattenSeq(seqs) \in P[n]
    <3> HIDE DEF P
    <3> QED
      BY <1>5, <2>1, <2>2, FlattenStages
  <2>4. n \in 1..n
    BY <1>1, <1>5
  <2> QED
    BY <2>3, <2>4
<1> QED
  BY <1>4, <1>5

\* SetToSeq orders a finite set without repeating an element.
LEMMA SetToSeqOrder ==
  ASSUME NEW R, IsFiniteSet(R), NEW order, order = SetToSeq(R), NEW n, n = Len(order)
  PROVE  /\ n \in Nat /\ DOMAIN order = 1..n /\ IsSeq(order)
         /\ \A i \in 1..n : order[i] \in R /\ order[i] \notin {order[j] : j \in 1..(i - 1)}
         /\ R = {order[j] : j \in 1..n}
<1> DEFINE m == Cardinality(R)
<1>1. m \in Nat /\ ExistsBijection(1..m, R)
  BY FS_CardinalityType
<1>2. PICK f : f \in Bijection(1..m, R)
  BY <1>1 DEF ExistsBijection
<1>3. f \in [1..m -> R] /\ IsInjective(f)
  BY <1>2 DEF Bijection, Injection, Surjection
<1>4. order \in [1..m -> R] /\ IsInjective(order)
  BY <1>3 DEF SetToSeq
<1> HIDE DEF m
<1>5. \A i, j \in 1..m : i # j => order[i] # order[j]
  BY <1>4 DEF IsInjective
<1>6. n = m /\ DOMAIN order = 1..m
  BY <1>1, <1>4
<1>7. IsSeq(order) /\ ToSet(order) = R
  BY SetToSeqIs
<1>8. R = {order[j] : j \in 1..n}
  BY <1>6, <1>7 DEF ToSet
<1>9. ASSUME NEW i \in 1..n, NEW j \in 1..(i - 1) PROVE order[i] # order[j]
  BY <1>1, <1>5, <1>6
<1> QED
  BY <1>1, <1>4, <1>6, <1>7, <1>8, <1>9

\* A sequence for each relation of a set, whatever their order: T is what holds
\* when those of a subset are done.
LEMMA CourseOfEach ==
  ASSUME NEW R, IsFiniteSet(R), NEW q, NEW F, q = [i \in DOMAIN SetToSeq(R) |-> F[SetToSeq(R)[i]]],
         NEW T, NEW out,
         \A S \in SUBSET R : \A x \in R \ S :
           IsSeq(F[x]) /\ Course(F[x], T[S], T[S \cup {x}], out)
  PROVE  IsSeq(q) /\ Course(FlattenSeq(q), T[{}], T[R], out)
<1> DEFINE order == SetToSeq(R)
           n == Len(order)
           Before(i) == {order[j] : j \in 1..(i - 1)}
           U == [i \in 1..(n + 1) |-> T[Before(i)]]
<1>1. /\ n \in Nat /\ DOMAIN order = 1..n /\ IsSeq(order)
      /\ \A i \in 1..n : order[i] \in R /\ order[i] \notin Before(i)
      /\ R = {order[j] : j \in 1..n}
  BY ONLY IsFiniteSet(R), SetToSeqOrder
<1>2. q = [i \in 1..n |-> F[order[i]]]
  BY <1>1
<1> HIDE DEF order
<1>3. IsSeq(q) /\ Len(q) = n
  <2>1. q = [i \in 1..n |-> q[i]]
    BY <1>2
  <2> QED
    BY <1>1, <2>1, SeqFrom
<1>4. ASSUME NEW i \in 1..n PROVE IsSeq(q[i]) /\ Course(q[i], U[i], U[i + 1], out)
  <2>1. i \in 1..(n + 1) /\ i + 1 \in 1..(n + 1)
    BY <1>1
  <2>2. Before(i) \in SUBSET R /\ order[i] \in R \ Before(i)
    <3>1. \A j \in 1..(i - 1) : j \in 1..n
      BY <1>1
    <3> QED
      BY <1>1, <3>1
  <2>3. Before(i + 1) = Before(i) \cup {order[i]}
    <3>1. \A j : j \in 1..((i + 1) - 1) <=> j \in 1..(i - 1) \/ j = i
      BY <1>1
    <3> QED
      BY <3>1
  <2>4. U[i] = T[Before(i)] /\ U[i + 1] = T[Before(i) \cup {order[i]}] /\ q[i] = F[order[i]]
    BY <1>2, <2>1, <2>3
  <2> HIDE DEF U, Before, n
  <2> QED
    BY <2>2, <2>4
<1>5. U[1] = T[{}] /\ U[n + 1] = T[R]
  <2>1. 1 \in 1..(n + 1) /\ n + 1 \in 1..(n + 1) /\ (n + 1) - 1 = n
    BY <1>1
  <2>2. Before(1) = {} /\ Before(n + 1) = R
    BY <1>1, <2>1
  <2> HIDE DEF Before
  <2> QED
    BY <2>1, <2>2
<1> HIDE DEF U
<1>6. Course(FlattenSeq(q), U[1], U[Len(q) + 1], out)
  BY <1>3, <1>4, CourseFlatten
<1> QED
  BY <1>3, <1>5, <1>6

\* The same for one statement each.
LEMMA CourseOfSome ==
  ASSUME NEW R, IsFiniteSet(R), NEW q, NEW F, q = [i \in DOMAIN SetToSeq(R) |-> F[SetToSeq(R)[i]]],
         NEW T, NEW out,
         \A S \in SUBSET R : \A x \in R \ S : Goes(T[S], F[x], T[S \cup {x}], out)
  PROVE  IsSeq(q) /\ Course(q, T[{}], T[R], out)
<1> DEFINE order == SetToSeq(R)
           n == Len(order)
           Before(i) == {order[j] : j \in 1..(i - 1)}
           U == [i \in 1..(n + 1) |-> T[Before(i)]]
<1>1. /\ n \in Nat /\ DOMAIN order = 1..n /\ IsSeq(order)
      /\ \A i \in 1..n : order[i] \in R /\ order[i] \notin Before(i)
      /\ R = {order[j] : j \in 1..n}
  BY ONLY IsFiniteSet(R), SetToSeqOrder
<1>2. q = [i \in 1..n |-> F[order[i]]]
  BY <1>1
<1> HIDE DEF order
<1>3. IsSeq(q) /\ Len(q) = n
  <2>1. q = [i \in 1..n |-> q[i]]
    BY <1>2
  <2> QED
    BY <1>1, <2>1, SeqFrom
<1>4. ASSUME NEW i \in 1..n PROVE Goes(U[i], q[i], U[i + 1], out)
  <2>1. i \in 1..(n + 1) /\ i + 1 \in 1..(n + 1)
    BY <1>1
  <2>2. Before(i) \in SUBSET R /\ order[i] \in R \ Before(i)
    <3>1. \A j \in 1..(i - 1) : j \in 1..n
      BY <1>1
    <3> QED
      BY <1>1, <3>1
  <2>3. Before(i + 1) = Before(i) \cup {order[i]}
    <3>1. \A j : j \in 1..((i + 1) - 1) <=> j \in 1..(i - 1) \/ j = i
      BY <1>1
    <3> QED
      BY <3>1
  <2>4. U[i] = T[Before(i)] /\ U[i + 1] = T[Before(i) \cup {order[i]}] /\ q[i] = F[order[i]]
    BY <1>2, <2>1, <2>3
  <2> HIDE DEF U, Before, n
  <2> QED
    BY <2>2, <2>4
<1>5. U[1] = T[{}] /\ U[n + 1] = T[R]
  <2>1. 1 \in 1..(n + 1) /\ n + 1 \in 1..(n + 1) /\ (n + 1) - 1 = n
    BY <1>1
  <2>2. Before(1) = {} /\ Before(n + 1) = R
    BY <1>1, <2>1
  <2> HIDE DEF Before
  <2> QED
    BY <2>1, <2>2
<1> HIDE DEF U
<1>6. IsCourse(U, q, T[{}], T[R], out)
  BY <1>3, <1>4, <1>5 DEF IsCourse
<1> QED
  BY <1>3, <1>6 DEF Course

-----------------------------------------------------------------------------
(* What an instance of a rule finds in a world.                             *)

\* The instances of the rules without aggregations.
Plain(source) ==
  UNION {Instances(r) : r \in {s \in ToSet(source.rules) : s.aggs = <<>>}}

Seen(W, p) == Sees(W, p, "Delta") \/ Sees(W, p, "Total")
Open(W, i) == \A a \in i.neg : ~ Seen(W, a)
Has(W, i)  == \/ i.head \in W.rel[<<i.head.rel, "Delta">>]
              \/ i.head \in W.rel[<<i.head.rel, "Total">>]

\* An instance whose body holds has its head; one whose body holds, and has
\* nothing new to it, does.
Satisfied(W, i) == (\A p \in i.pos : Seen(W, p)) /\ Open(W, i) => Has(W, i)
Old(W, i) ==
  /\ i.pos # {} /\ \A p \in i.pos : Sees(W, p, "Total") /\ ~ Sees(W, p, "Delta")
  /\ Open(W, i)
  => Has(W, i)

\* The rule of an instance, and the relations that both are about.
RuleOf(source, r, i) ==
  /\ ProperRule(r, source.edb \cup source.idb, source.idb)
  /\ r.aggs = <<>> /\ i \in Instances(r) /\ i.head.rel = r.head.rel
  /\ \A p \in i.pos : \E a \in ToSet(r.pos) : p.rel = a.rel
  /\ \A a \in ToSet(r.pos) : \E p \in i.pos : p.rel = a.rel
  /\ \A p \in i.neg : \E a \in ToSet(r.neg) : p.rel = a.rel

\* An instance of a rule without aggregations has such a rule.
LEMMA PlainParts ==
  ASSUME NEW source, Fits(source), NEW i \in Plain(source)
  PROVE  \E r \in ToSet(source.rules) : RuleOf(source, r, i)
<1>1. PICK r \in ToSet(source.rules) : r.aggs = <<>> /\ i \in Instances(r)
  BY DEF Plain
<1>2. ProperRule(r, source.edb \cup source.idb, source.idb)
  BY <1>1 DEF Fits, Proper
<1>3. PICK b \in Bindings(r) : i = Ground(r, b)
  BY <1>1 DEF Instances
<1>4. /\ i.head = Resolve(r.head, b)
      /\ i.pos = {Resolve(a, b) : a \in ToSet(r.pos)}
      /\ i.neg = {Resolve(a, b) : a \in ToSet(r.neg)}
  BY <1>3 DEF Ground
<1>5. /\ Resolve(r.head, b).rel = r.head.rel
      /\ \A a \in ToSet(r.pos) \cup ToSet(r.neg) : Resolve(a, b).rel = a.rel
  BY <1>2, ResolvedRel DEF ProperRule
<1> QED
  BY <1>1, <1>2, <1>4, <1>5 DEF RuleOf

\* Its head is a fact, and what it reads is an input or carries clauses.
LEMMA PlainReads ==
  ASSUME NEW source, Fits(source), NEW i \in Plain(source)
  PROVE  /\ i.head \in Facts /\ i.head.rel \in IdbNodes(source)
         /\ \A p \in i.pos \cup i.neg :
              /\ p.rel \in source.edb \cup IdbNodes(source)
              /\ \E d \in Dependencies(source) :
                   d.from = p.rel /\ d.to = i.head.rel /\ (p \in i.neg => ~ d.positive)
<1>0. PICK r \in ToSet(source.rules) : RuleOf(source, r, i)
  BY PlainParts
<1>1. /\ ProperRule(r, source.edb \cup source.idb, source.idb)
      /\ r.aggs = <<>> /\ i \in Instances(r) /\ i.head.rel = r.head.rel
      /\ \A p \in i.pos : \E a \in ToSet(r.pos) : p.rel = a.rel
      /\ \A p \in i.neg : \E a \in ToSet(r.neg) : p.rel = a.rel
  BY <1>0 DEF RuleOf
<1>2. i.head \in Facts
  <2>1. i.pos \in SUBSET i.pos /\ (i.pos # {} \/ i.pos = {})
    OBVIOUS
  <2>2. PICK s \in ToSet(LowerRule(r, "New")) : \E row \in s.rows : Row(row, i, i.pos)
    BY <1>1, <2>1, RewriteFinds
  <2> PICK row \in s.rows : Row(row, i, i.pos)
    BY <2>2
  <2>4. row.head = i.head
    BY DEF Row
  <2>3. row \in RowsOf(source)
    BY <1>1, <2>2 DEF RowsOf
  <2> QED
    BY <2>3, <2>4 DEF Fits, Writable
<1>3. i.head.rel \in IdbNodes(source)
  BY <1>1 DEF IdbNodes
<1> DEFINE Edges(k) == {[from |-> a.rel, to |-> k.head.rel, positive |-> TRUE] : a \in ToSet(k.pos)}
                       \cup {[from |-> a.rel, to |-> k.head.rel, positive |-> FALSE] :
                                a \in ToSet(k.neg) \cup {g.atom : g \in ToSet(k.aggs)}}
<1>7. Edges(r) \subseteq Dependencies(source)
  <2>1. Dependencies(source) = UNION {Edges(k) : k \in ToSet(source.rules)}
    BY DEF Dependencies
  <2> HIDE DEF Edges
  <2> QED
    BY <2>1
<1>4. ASSUME NEW p \in i.pos
      PROVE  \E d \in Dependencies(source) : d.from = p.rel /\ d.to = i.head.rel /\ d.positive
  <2>1. PICK a \in ToSet(r.pos) : p.rel = a.rel
    BY <1>1
  <2> DEFINE d == [from |-> a.rel, to |-> r.head.rel, positive |-> TRUE]
  <2>2. d \in Dependencies(source)
    BY <1>7, <2>1
  <2>3. d.from = p.rel /\ d.to = i.head.rel /\ d.positive
    BY <1>1, <2>1
  <2> QED
    BY <2>2, <2>3
<1>5. ASSUME NEW p \in i.neg
      PROVE  \E d \in Dependencies(source) : d.from = p.rel /\ d.to = i.head.rel /\ ~ d.positive
  <2>1. PICK a \in ToSet(r.neg) : p.rel = a.rel
    BY <1>1
  <2> DEFINE d == [from |-> a.rel, to |-> r.head.rel, positive |-> FALSE]
  <2>2. d \in Dependencies(source)
    BY <1>7, <2>1
  <2>3. d.from = p.rel /\ d.to = i.head.rel /\ ~ d.positive
    BY <1>1, <2>1
  <2> QED
    BY <2>2, <2>3
<1>6. ASSUME NEW p \in i.pos \cup i.neg
      PROVE  /\ p.rel \in source.edb \cup IdbNodes(source)
             /\ \E d \in Dependencies(source) :
                   d.from = p.rel /\ d.to = i.head.rel /\ (p \in i.neg => ~ d.positive)
  <2>1. PICK d \in Dependencies(source) :
          d.from = p.rel /\ d.to = i.head.rel /\ (p \in i.neg => ~ d.positive)
    BY <1>4, <1>5, <1>6
  <2>2. p.rel \in source.edb \cup source.idb
    BY <1>1 DEF ProperRule, IsAtom
  <2>3. p.rel \in source.idb => p.rel \in IdbNodes(source)
    BY <2>1 DEF IdbNodes
  <2> QED
    BY <2>1, <2>2, <2>3
<1> QED
  BY <1>2, <1>3, <1>6

-----------------------------------------------------------------------------
(* Inserts.  M are the versions that a sequence of them fills.              *)

\* A row that reads none of what is filled, and is reached, has its head.
Apart(row, M) == \A q \in row.search \cup row.absent : <<q[1].rel, q[2]>> \in Keys \ M

Fired(W, s, M) ==
  ~ s.ground => \A row \in s.rows :
    row.aggs = {} /\ Apart(row, M) /\ ReachedIn(W, row) => row.head \in W.rel[s.into]

\* W grows to V on M.
Grows(W, V, M) == SameBut(W, V, M) /\ \A k \in M : W.rel[k] \subseteq V.rel[k]

\* What one insert makes of a world.
LEMMA InsertGrows ==
  ASSUME NEW W, NEW V, NEW s, Makes(s, W, V), s.op = "insert",
         NEW M \in SUBSET Keys, s.into \in M
  PROVE  /\ Grows(W, V, M)
         /\ ~ s.ground => \A row \in s.rows : row.aggs = {} /\ ReachedIn(W, row) => row.head \in V.rel[s.into]
<1>1. PICK X \in SUBSET Facts :
        /\ V.rel[s.into] = W.rel[s.into] \cup X
        /\ SameBut(W, V, {s.into})
        /\ ~ s.ground => \A row \in s.rows : row.aggs = {} /\ ReachedIn(W, row) => row.head \in X
  BY DEF Makes, Inserts
<1>2. \A k \in Keys : k # s.into => V.rel[k] = W.rel[k]
  BY <1>1 DEF SameBut
<1>3. Grows(W, V, M)
  BY <1>1, <1>2 DEF Grows, SameBut
<1> QED
  BY <1>1, <1>3

\* A row that reads nothing of M finds the same when M grows.
LEMMA ApartReached ==
  ASSUME NEW W, NEW V, NEW M, SameBut(W, V, M), NEW row, Apart(row, M)
  PROVE  ReachedIn(V, row) => ReachedIn(W, row)
<1>1. \A q \in row.search \cup row.absent : V.rel[<<q[1].rel, q[2]>>] = W.rel[<<q[1].rel, q[2]>>]
  BY DEF SameBut, Apart
<1> QED
  BY <1>1 DEF ReachedIn, Sees

\* What has fired stays so.
LEMMA FiredStays ==
  ASSUME NEW W, NEW V, NEW M, NEW s, s.into \in Keys, Grows(W, V, M), Fired(W, s, M)
  PROVE  Fired(V, s, M)
<1> SUFFICES ASSUME ~ s.ground, NEW row \in s.rows, row.aggs = {}, Apart(row, M), ReachedIn(V, row)
             PROVE  row.head \in V.rel[s.into]
  BY DEF Fired
<1>1. SameBut(W, V, M)
  BY DEF Grows
<1>2. ReachedIn(W, row)
  BY <1>1, ApartReached
<1>3. row.head \in W.rel[s.into]
  BY <1>2 DEF Fired
<1> QED
  BY <1>3 DEF Grows, SameBut

\* A sequence of inserts leads to where each has fired, through worlds that do
\* not mind that M grows.
LEMMA InsertsFire ==
  ASSUME NEW p, IsSeq(p), NEW M \in SUBSET Keys, \A s \in ToSet(p) : s.op = "insert" /\ s.into \in M,
         NEW J \in SUBSET Worlds, \A W \in J, V \in Worlds : Grows(W, V, M) => V \in J, NEW out
  PROVE  Course(p, J, {W \in J : \A s \in ToSet(p) : Fired(W, s, M)}, out)
<1> DEFINE n == Len(p)
           L == [i \in 1..(n + 1) |-> {W \in J : \A k \in 1..(i - 1) : Fired(W, p[k], M)}]
           Q == {W \in J : \A s \in ToSet(p) : Fired(W, s, M)}
<1>1. n \in Nat /\ (\A k \in 1..n : p[k] \in ToSet(p)) /\ \A s \in ToSet(p) : \E k \in 1..n : s = p[k]
  BY SeqParts
<1> HIDE DEF n
<1>2. \A i \in 1..(n + 1) : \A W : W \in L[i] <=> W \in J /\ \A k \in 1..(i - 1) : Fired(W, p[k], M)
  OBVIOUS
<1> HIDE DEF L
<1>3. J \subseteq L[1]
  <2>1. 1 \in 1..(n + 1) /\ \A k \in 1..(1 - 1) : FALSE
    BY <1>1
  <2> QED
    BY <1>2, <2>1
<1>4. L[n + 1] \subseteq Q
  <2> SUFFICES ASSUME NEW W \in L[n + 1] PROVE W \in J /\ \A s \in ToSet(p) : Fired(W, s, M)
    OBVIOUS
  <2>1. n + 1 \in 1..(n + 1) /\ (n + 1) - 1 = n
    BY <1>1
  <2> QED
    BY <1>1, <1>2, <2>1
<1>5. ASSUME NEW i \in 1..n PROVE Goes(L[i], p[i], L[i + 1], out)
  <2>1. i \in 1..(n + 1) /\ i + 1 \in 1..(n + 1) /\ \A k \in 1..((i + 1) - 1) : k \in 1..(i - 1) \/ k = i
    BY <1>1
  <2>2. p[i].op = "insert" /\ \A k \in 1..n : p[k].into \in M
    BY <1>1
  <2>3. ASSUME NEW W \in L[i], NEW V \in Worlds, Makes(p[i], W, V) PROVE V \in L[i + 1]
    <3>0. W \in J /\ \A k \in 1..(i - 1) : Fired(W, p[k], M)
      BY <1>2, <2>1, <2>3
    <3>1. Grows(W, V, M)
      BY <2>2, <2>3, InsertGrows
    <3>2. V \in J
      BY <3>0, <3>1
    <3>3. ASSUME NEW k \in 1..(i - 1) PROVE Fired(V, p[k], M)
      <4>1. k \in 1..n
        BY <1>1
      <4> QED
        BY <2>2, <3>0, <3>1, <4>1, FiredStays
    <3>4. Fired(V, p[i], M)
      <4> SUFFICES ASSUME ~ p[i].ground, NEW row \in p[i].rows, row.aggs = {}, Apart(row, M), ReachedIn(V, row)
                   PROVE  row.head \in V.rel[p[i].into]
        BY DEF Fired
      <4>1. ReachedIn(W, row)
        BY <3>1, ApartReached DEF Grows
      <4> QED
        BY <2>2, <2>3, <4>1, InsertGrows
    <3> QED
      BY <1>2, <2>1, <3>2, <3>3, <3>4
  <2>4. Carries(L[i], p[i], L[i + 1], out)
    BY <2>2, <2>3 DEF Carries
  <2> QED
    BY <2>2, <2>4 DEF Goes
<1> HIDE DEF Q
<1>6. IsCourse(L, p, J, Q, out)
  BY <1>3, <1>4, <1>5 DEF IsCourse, n
<1> QED
  BY <1>6 DEF Course, Q

\* As a pattern a fact finds no other.
LEMMA FactFindsItself ==
  ASSUME NEW f \in Facts, NEW g \in Facts, Matches(f, g)
  PROVE  f = g
<1>1. f.rel = g.rel /\ g.rel \in Relations /\ \A c \in DOMAIN g.args : f.args[c] = g.args[c]
  BY ConstantAssumption DEF Matches
<1>2. DOMAIN f.args = DOMAIN g.args
  <2>1. PICK columns : \A h \in {k \in Facts : k.rel = g.rel} : DOMAIN h.args = columns
    BY <1>1, FactsAssumption
  <2> QED
    BY <1>1, <2>1
<1>3. [c \in DOMAIN f.args |-> f.args[c]] = [c \in DOMAIN g.args |-> g.args[c]]
  BY <1>1, <1>2
<1>4. /\ f = Atom(f.rel, [c \in DOMAIN f.args |-> f.args[c]])
      /\ g = Atom(g.rel, [c \in DOMAIN g.args |-> g.args[c]])
  BY FactsAssumption
<1> QED
  BY <1>1, <1>3, <1>4

\* Where the statements of a rule have fired, an instance that is not old news
\* and whose body holds has its head.
LEMMA Derives ==
  ASSUME NEW source, Fits(source), NEW i, NEW r, RuleOf(source, r, i), i.head \in Facts,
         NEW W \in Worlds, NEW M, NEW v, \A s \in ToSet(LowerRule(r, v)) : Fired(W, s, M),
         <<i.head.rel, "Total">> \in Keys \ M,
         \A p \in i.pos \cup i.neg : \A u \in {"Delta", "Total"} : <<p.rel, u>> \in Keys \ M,
         Old(W, i), \A p \in i.pos : Seen(W, p), Open(W, i)
  PROVE  i.head \in W.rel[<<i.head.rel, v>>] \/ Has(W, i)
<1> SUFFICES ASSUME ~ Has(W, i) PROVE i.head \in W.rel[<<i.head.rel, v>>]
  OBVIOUS
<1> DEFINE Q == {p \in i.pos : Sees(W, p, "Delta")}
<1>1. Q \in SUBSET i.pos /\ (Q # {} \/ i.pos = {})
  BY DEF Old, Seen
<1>2. \A p \in i.pos : (p \in Q => Sees(W, p, "Delta")) /\ (p \notin Q => Sees(W, p, "Total"))
  BY DEF Seen
<1> HIDE DEF Q
<1>3. /\ ProperRule(r, source.edb \cup source.idb, source.idb)
      /\ r.aggs = <<>> /\ i \in Instances(r) /\ i.head.rel = r.head.rel
  BY DEF RuleOf
<1>4. PICK s \in ToSet(LowerRule(r, v)) : \E row \in s.rows : Row(row, i, Q)
  BY <1>1, <1>3, RewriteFinds
<1>5. PICK row \in s.rows : Row(row, i, Q)
  BY <1>4
<1>6. s.into = <<i.head.rel, v>> /\ ~ s.ground
  <2>1. PICK versions : s = LowerRewrite(r, versions, v)
    BY <1>3, LoweredInserts DEF ProperRule
  <2> QED
    BY <1>3, <2>1, RewriteRows DEF Key
<1>7. \A q \in row.search : \E p \in i.pos :
         Part(q[1], p) /\ q[2] = IF p \in Q THEN "Delta" ELSE "Total"
  BY <1>5 DEF Row
<1>8. \A q \in row.absent :
        (q[1] \in i.neg /\ q[2] \in {"Delta", "Total"}) \/ (q[1] = i.head /\ q[2] = "Total")
  <2>1. row.absent \subseteq (i.neg \X {"Delta", "Total"}) \cup {<<i.head, "Total">>}
    BY <1>5 DEF Row
  <2>2. ASSUME NEW q \in row.absent
        PROVE  (q[1] \in i.neg /\ q[2] \in {"Delta", "Total"}) \/ (q[1] = i.head /\ q[2] = "Total")
    <3>1. q \in i.neg \X {"Delta", "Total"} \/ q = <<i.head, "Total">>
      BY <2>1
    <3>2. CASE q \in i.neg \X {"Delta", "Total"}
      BY ONLY <3>2
    <3>3. CASE q = <<i.head, "Total">>
      BY ONLY <3>3
    <3> QED
      BY <3>1, <3>2, <3>3
  <2> QED
    BY <2>2
<1>9. Apart(row, M)
  <2>1. ASSUME NEW q \in row.search PROVE <<q[1].rel, q[2]>> \in Keys \ M
    <3>1. PICK p \in i.pos : Part(q[1], p) /\ q[2] = IF p \in Q THEN "Delta" ELSE "Total"
      BY <1>7
    <3>2. q[1].rel = p.rel /\ q[2] \in {"Delta", "Total"}
      BY <3>1 DEF Part
    <3> QED
      BY <3>2
  <2>2. ASSUME NEW q \in row.absent PROVE <<q[1].rel, q[2]>> \in Keys \ M
    BY <1>8
  <2> QED
    BY <2>1, <2>2 DEF Apart
<1>10. ReachedIn(W, row)
  <2>1. ASSUME NEW q \in row.search PROVE Sees(W, q[1], q[2])
    <3>1. PICK p \in i.pos : Part(q[1], p) /\ q[2] = IF p \in Q THEN "Delta" ELSE "Total"
      BY <1>7
    <3>2. Sees(W, p, q[2])
      BY <1>2, <3>1
    <3>3. PICK f \in W.rel[<<p.rel, q[2]>>] : Matches(f, p)
      BY <3>2 DEF Sees
    <3>4. Matches(f, q[1]) /\ q[1].rel = p.rel
      BY <3>1, <3>3, PartMatches DEF Part
    <3> QED
      BY <3>3, <3>4 DEF Sees
  <2>2. ASSUME NEW q \in row.absent PROVE ~ Sees(W, q[1], q[2])
    <3>1. CASE q[1] \in i.neg /\ q[2] \in {"Delta", "Total"}
      BY <3>1 DEF Open, Seen
    <3>2. CASE q[1] = i.head /\ q[2] = "Total"
      <4> SUFFICES ASSUME NEW f \in W.rel[<<i.head.rel, "Total">>], Matches(f, i.head) PROVE FALSE
        BY <3>2 DEF Sees
      <4>1. f \in Facts
        BY DEF Worlds
      <4>2. f = i.head
        BY <4>1, FactFindsItself
      <4> QED
        BY <4>2 DEF Has
    <3> QED
      BY <1>8, <3>1, <3>2
  <2> QED
    BY <2>1, <2>2 DEF ReachedIn
<1>11. row.head = i.head /\ row.aggs = {}
  BY <1>5 DEF Row
<1> QED
  BY <1>6, <1>9, <1>10, <1>11 DEF Fired

-----------------------------------------------------------------------------
(* The worlds between the statements of a stratum c, when the strata in done *)
(* are over.                                                                *)

\* Instances of the strata that are over read nothing of c, and negate nothing
\* of their own stratum.
Placed(source, done, c) ==
  /\ c \subseteq Relations /\ done \subseteq Relations /\ done \cap c = {}
  /\ \A i \in Plain(source) :
       /\ i.head \in Facts /\ i.head.rel \in Relations
       /\ \A p \in i.pos \cup i.neg : p.rel \in Relations
       /\ i.head.rel \in done => \A p \in i.pos \cup i.neg : p.rel \notin c
       /\ i.head.rel \in c => \A p \in i.neg : p.rel \notin c

Static(i, c) == \A p \in i.pos : p.rel \notin c

\* Relations that are over feed all they hold to the strata after them, and
\* miss nothing; the rest has missed nothing that it was fed in earlier epochs.
Within(source, done, c) ==
  {W \in Worlds :
     /\ \A q \in done : W.rel[<<q, "Delta">>] = W.rel[<<q, "Total">>]
     /\ \A i \in Plain(source) : i.head.rel \in done => Satisfied(W, i)
     /\ \A i \in Plain(source) : i.head.rel \notin done \cup c /\ Static(i, c) => Old(W, i)}

Between(source, done) == Within(source, done, {})

\* Before the rules of the stratum that do not read it are evaluated, after
\* that, and when nothing is left to derive.
Waiting(source, done, c) ==
  {W \in Within(source, done, c) : \A i \in Plain(source) : i.head.rel \in c => Old(W, i)}

Readied(source, done, c) ==
  {W \in Waiting(source, done, c) :
     \A i \in Plain(source) : i.head.rel \in c /\ Static(i, c) => Satisfied(W, i)}

Settled(source, done, c) ==
  {W \in Within(source, done, c) :
     /\ \A i \in Plain(source) : i.head.rel \in c => Satisfied(W, i)
     /\ \A q \in c : W.rel[<<q, "Delta">>] \subseteq W.rel[<<q, "Total">>]}

\* What becomes of the relations of c while others stay as they are: they know
\* more, or go on to where Total has nothing but what it had or Delta has.
SameOff(W, V, c) == \A q \in Relations \ c, v \in Versions : V.rel[<<q, v>>] = W.rel[<<q, v>>]

Knows(W, q) == W.rel[<<q, "Delta">>] \cup W.rel[<<q, "Total">>]

More(W, V, c) == SameOff(W, V, c) /\ \A q \in c : Knows(W, q) \subseteq Knows(V, q)

Advances(W, V, c) ==
  /\ SameOff(W, V, c)
  /\ \A q \in c : /\ W.rel[<<q, "Delta">>] \subseteq V.rel[<<q, "Delta">>]
                  /\ W.rel[<<q, "Total">>] \subseteq V.rel[<<q, "Total">>]
                  /\ V.rel[<<q, "Total">>] \subseteq W.rel[<<q, "Total">>] \cup V.rel[<<q, "Delta">>]

\* A stratum that advances knows no less.
LEMMA AdvancesMore ==
  ASSUME NEW W, NEW V, NEW c, Advances(W, V, c)
  PROVE  More(W, V, c)
BY DEF Advances, More, Knows

\* What is seen elsewhere, and what is seen at all.
LEMMA SeesOff ==
  ASSUME NEW W, NEW V, NEW c, SameOff(W, V, c), NEW p, p.rel \in Relations \ c
  PROVE  /\ \A v \in Versions : Sees(V, p, v) <=> Sees(W, p, v)
         /\ Seen(V, p) <=> Seen(W, p)
<1>1. \A v \in Versions : V.rel[<<p.rel, v>>] = W.rel[<<p.rel, v>>]
  BY DEF SameOff
<1>2. \A v \in Versions : Sees(V, p, v) <=> Sees(W, p, v)
  BY <1>1 DEF Sees
<1> QED
  BY <1>2 DEF Seen, Versions

\* A pattern is seen exactly when something known matches it.
LEMMA SeenIs ==
  ASSUME NEW W, NEW p
  PROVE  Seen(W, p) <=> \E f \in Knows(W, p.rel) : Matches(f, p)
BY DEF Seen, Sees, Knows

\* Where a stratum knows more, no relation knows less, ...
LEMMA KnowsMore ==
  ASSUME NEW W, NEW V, NEW c, More(W, V, c), NEW q \in Relations
  PROVE  Knows(W, q) \subseteq Knows(V, q)
<1>1. CASE q \in c
  BY <1>1 DEF More
<1>2. CASE q \notin c
  BY <1>2 DEF More, SameOff, Knows, Versions
<1> QED
  BY <1>1, <1>2

\* ... what was seen still is, ...
LEMMA SeenMore ==
  ASSUME NEW W, NEW V, NEW c, More(W, V, c), NEW p, p.rel \in Relations, Seen(W, p)
  PROVE  Seen(V, p)
BY KnowsMore, SeenIs

\* ... a head that was derived still is, ...
LEMMA HasMore ==
  ASSUME NEW W, NEW V, NEW c, More(W, V, c), NEW i, i.head.rel \in Relations, Has(W, i)
  PROVE  Has(V, i)
<1>1. \A U : Has(U, i) <=> i.head \in Knows(U, i.head.rel)
  BY DEF Has, Knows
<1> QED
  BY <1>1, KnowsMore

\* ... and a body that is open now was open before (lower_to_ram.rs, not_in).
LEMMA OpenMore ==
  ASSUME NEW W, NEW V, NEW c, More(W, V, c), NEW i, \A a \in i.neg : a.rel \in Relations, Open(V, i)
  PROVE  Open(W, i)
BY SeenMore DEF Open

\* An instance that reads nothing of c stays derived.
LEMMA DerivedOff ==
  ASSUME NEW W, NEW V, NEW c, More(W, V, c), NEW i, i.head.rel \in Relations,
         \A p \in i.pos : p.rel \in Relations \ c, \A a \in i.neg : a.rel \in Relations, Satisfied(W, i)
  PROVE  Satisfied(V, i)
<1> SUFFICES ASSUME \A p \in i.pos : Seen(V, p), Open(V, i) PROVE Has(V, i)
  BY DEF Satisfied
<1>1. \A p \in i.pos : Seen(W, p)
  BY SeesOff DEF More
<1>2. Open(W, i)
  BY OpenMore
<1>3. Has(W, i)
  BY <1>1, <1>2 DEF Satisfied
<1> QED
  BY <1>3, HasMore

\* So does any when no more is known than before.
LEMMA DerivedSame ==
  ASSUME NEW W, NEW V, NEW c, More(W, V, c), \A q \in c : Knows(V, q) = Knows(W, q),
         NEW i, i.head.rel \in Relations, \A p \in i.pos \cup i.neg : p.rel \in Relations, Satisfied(W, i)
  PROVE  Satisfied(V, i)
<1> SUFFICES ASSUME \A p \in i.pos : Seen(V, p), Open(V, i) PROVE Has(V, i)
  BY DEF Satisfied
<1>1. \A q \in Relations : Knows(V, q) \subseteq Knows(W, q)
  BY DEF More, SameOff, Knows, Versions
<1>2. \A p \in i.pos : Seen(W, p)
  BY <1>1, SeenIs
<1>3. Open(W, i)
  BY OpenMore
<1>4. Has(W, i)
  BY <1>2, <1>3 DEF Satisfied
<1> QED
  BY <1>4, HasMore

\* What was old news stays so where c advances.
LEMMA OldAdvances ==
  ASSUME NEW W, NEW V, NEW c, Advances(W, V, c),
         NEW i, i.head.rel \in Relations, \A p \in i.pos \cup i.neg : p.rel \in Relations, Old(W, i)
  PROVE  Old(V, i)
<1> SUFFICES ASSUME i.pos # {}, \A p \in i.pos : Sees(V, p, "Total") /\ ~ Sees(V, p, "Delta"), Open(V, i)
             PROVE  Has(V, i)
  BY DEF Old
<1>1. More(W, V, c)
  BY AdvancesMore
<1>2. ASSUME NEW p \in i.pos PROVE Sees(W, p, "Total") /\ ~ Sees(W, p, "Delta")
  <2>1. CASE p.rel \in c
    <3>1. /\ W.rel[<<p.rel, "Delta">>] \subseteq V.rel[<<p.rel, "Delta">>]
          /\ V.rel[<<p.rel, "Total">>] \subseteq W.rel[<<p.rel, "Total">>] \cup V.rel[<<p.rel, "Delta">>]
      BY <2>1 DEF Advances
    <3> QED
      BY <3>1 DEF Sees
  <2>2. CASE p.rel \notin c
    <3>1. \A v \in Versions : Sees(V, p, v) <=> Sees(W, p, v)
      BY <2>2, SeesOff DEF Advances
    <3> QED
      BY <3>1 DEF Versions
  <2> QED
    BY <2>1, <2>2
<1>3. Open(W, i)
  BY <1>1, OpenMore
<1>4. Has(W, i)
  BY <1>2, <1>3 DEF Old
<1> QED
  BY <1>1, <1>4, HasMore

\* The strata before and after do not mind what becomes of c as long as
\* nothing known is forgotten.
LEMMA WithinStays ==
  ASSUME NEW source, NEW done, NEW c, Placed(source, done, c),
         NEW W \in Within(source, done, c), NEW V \in Worlds, More(W, V, c)
  PROVE  V \in Within(source, done, c)
<1>1. ASSUME NEW q \in done PROVE V.rel[<<q, "Delta">>] = V.rel[<<q, "Total">>]
  <2>1. q \in Relations \ c /\ "Delta" \in Versions /\ "Total" \in Versions
    BY DEF Placed, Versions
  <2> QED
    BY <2>1 DEF More, SameOff, Within
<1>2. ASSUME NEW i \in Plain(source), i.head.rel \in done PROVE Satisfied(V, i)
  BY <1>2, DerivedOff DEF Placed, Within
<1>3. ASSUME NEW i \in Plain(source), i.head.rel \notin done \cup c, Static(i, c) PROVE Old(V, i)
  <2>1. Old(W, i) /\ i.head.rel \in Relations /\ \A p \in i.pos \cup i.neg : p.rel \in Relations
    BY <1>3 DEF Within, Placed
  <2>2. SUFFICES ASSUME i.pos # {}, \A p \in i.pos : Sees(V, p, "Total") /\ ~ Sees(V, p, "Delta"), Open(V, i)
                 PROVE  Has(V, i)
    BY DEF Old
  <2>3. ASSUME NEW p \in i.pos PROVE Sees(W, p, "Total") /\ ~ Sees(W, p, "Delta")
    <3>1. p.rel \in Relations \ c
      BY <1>3, <2>1 DEF Static
    <3>2. \A v \in Versions : Sees(V, p, v) <=> Sees(W, p, v)
      BY <3>1, SeesOff DEF More
    <3> QED
      BY <2>2, <3>2 DEF Versions
  <2>4. Open(W, i)
    BY <2>1, <2>2, OpenMore
  <2>5. Has(W, i)
    BY <2>1, <2>2, <2>3, <2>4 DEF Old
  <2> QED
    BY <2>1, <2>5, HasMore
<1> QED
  BY <1>1, <1>2, <1>3 DEF Within

\* Its own rules do not mind an advance.
LEMMA WaitingStays ==
  ASSUME NEW source, NEW done, NEW c, Placed(source, done, c),
         NEW W \in Waiting(source, done, c), NEW V \in Worlds, Advances(W, V, c)
  PROVE  V \in Waiting(source, done, c)
<1>1. V \in Within(source, done, c)
  BY AdvancesMore, WithinStays DEF Waiting
<1>2. \A i \in Plain(source) : i.head.rel \in c => Old(V, i)
  BY OldAdvances DEF Waiting, Placed
<1> QED
  BY <1>1, <1>2 DEF Waiting

\* Once its static rules are satisfied a stratum that advances keeps them so.
LEMMA ReadiedStays ==
  ASSUME NEW source, NEW done, NEW c, Placed(source, done, c),
         NEW W \in Readied(source, done, c), NEW V \in Worlds, Advances(W, V, c)
  PROVE  V \in Readied(source, done, c)
<1>1. V \in Waiting(source, done, c)
  BY WaitingStays DEF Readied
<1>2. ASSUME NEW i \in Plain(source), i.head.rel \in c, Static(i, c) PROVE Satisfied(V, i)
  <2>1. Satisfied(W, i) /\ More(W, V, c)
    BY <1>2, AdvancesMore DEF Readied
  <2>2. /\ i.head.rel \in Relations /\ \A p \in i.pos : p.rel \in Relations \ c
        /\ \A a \in i.neg : a.rel \in Relations
    BY <1>2 DEF Placed, Static
  <2> QED
    BY <2>1, <2>2, DerivedOff
<1> QED
  BY <1>1, <1>2 DEF Readied

\* Where a stratum begins, and where it ends.
LEMMA StratumBegins ==
  ASSUME NEW source, NEW done, NEW c, Placed(source, done, c), NEW W \in Between(source, done)
  PROVE  W \in Waiting(source, done, c)
<1>1. \A i \in Plain(source) : Static(i, {})
  BY DEF Static
<1>2. \A i \in Plain(source) : i.head.rel \in c => i.head.rel \notin done
  BY DEF Placed
<1> QED
  BY <1>1, <1>2 DEF Waiting, Within, Between

\* A settled stratum whose Deltas hold all of Total is over.
LEMMA StratumEnds ==
  ASSUME NEW source, NEW done, NEW c, Placed(source, done, c), NEW W \in Settled(source, done, c),
         \A q \in c : W.rel[<<q, "Delta">>] = W.rel[<<q, "Total">>]
  PROVE  W \in Between(source, done \cup c)
<1>1. W \in Within(source, done, c) /\ W \in Worlds
  BY DEF Settled, Within
<1>2. \A q \in done \cup c : W.rel[<<q, "Delta">>] = W.rel[<<q, "Total">>]
  BY <1>1 DEF Within
<1>3. \A i \in Plain(source) : i.head.rel \in done \cup c => Satisfied(W, i)
  BY <1>1 DEF Settled, Within
<1>4. ASSUME NEW i \in Plain(source), i.head.rel \notin done \cup c PROVE Old(W, i)
  <2>1. CASE Static(i, c)
    BY <1>1, <1>4, <2>1 DEF Within
  <2>2. CASE ~ Static(i, c)
    <3>1. PICK p \in i.pos : p.rel \in c
      BY <2>2 DEF Static
    <3>2. Sees(W, p, "Total") <=> Sees(W, p, "Delta")
      BY <3>1 DEF Sees
    <3> QED
      BY <3>2 DEF Old
  <2> QED
    BY <2>1, <2>2
<1> QED
  BY <1>1, <1>2, <1>3, <1>4 DEF Between, Within

-----------------------------------------------------------------------------
(* What single statements make of a world.                                  *)

\* As an advance, with nothing more known and the New relations as they are.
Turns(W, V, c) ==
  /\ Advances(W, V, c)
  /\ \A q \in c : Knows(V, q) = Knows(W, q) /\ V.rel[<<q, "New">>] = W.rel[<<q, "New">>]

\* Merges within a relation.
LEMMA MergeMakes ==
  ASSUME NEW q \in Relations, NEW u \in Versions, NEW v \in Versions, NEW W, NEW V,
         Makes(Merge(Key(q, u), Key(q, v)), W, V)
  PROVE  /\ V.rel[<<q, v>>] = W.rel[<<q, v>>] \cup W.rel[<<q, u>>]
         /\ \A x \in Relations, w \in Versions : x # q \/ w # v => V.rel[<<x, w>>] = W.rel[<<x, w>>]
         /\ V.sunk = W.sunk /\ V.epoch = W.epoch
<1> DEFINE s == Merge(Key(q, u), Key(q, v))
<1>1. s.op = "merge" /\ s.from = <<q, u>> /\ s.into = <<q, v>>
  BY DEF Merge, Key
<1> HIDE DEF s
<1>2. Makes(s, W, V)
  BY DEF s
<1>3. /\ V.rel[s.into] = W.rel[s.into] \cup W.rel[s.from] /\ SameBut(W, V, {s.into})
      /\ V.epoch = W.epoch /\ V.sunk = W.sunk
  BY <1>1, <1>2 DEF Makes
<1>4. ASSUME NEW x \in Relations, NEW w \in Versions, x # q \/ w # v PROVE V.rel[<<x, w>>] = W.rel[<<x, w>>]
  <2>1. <<x, w>> \in Keys \ {s.into}
    BY <1>1, <1>4 DEF Keys
  <2> QED
    BY <1>3, <2>1 DEF SameBut
<1> QED
  BY <1>1, <1>3, <1>4

\* One version of q merged into another is a turn of the stratum.
MergedIn(W, V, c, q, u, v) ==
  /\ Turns(W, V, c)
  /\ V.rel[<<q, v>>] = W.rel[<<q, v>>] \cup W.rel[<<q, u>>]
  /\ V.rel[<<q, u>>] = W.rel[<<q, u>>]
  /\ \A x \in c, w \in Versions : x # q => V.rel[<<x, w>>] = W.rel[<<x, w>>]

\* A merge between Delta and Total of one relation is such a merge.
LEMMA MergeTurns ==
  ASSUME NEW c \in SUBSET Relations, NEW q \in c, NEW u, NEW v,
         u \in {"Delta", "Total"}, v \in {"Delta", "Total"}, u # v, NEW W, NEW V,
         Makes(Merge(Key(q, u), Key(q, v)), W, V)
  PROVE  MergedIn(W, V, c, q, u, v)
<1>1. u \in Versions /\ v \in Versions /\ u # v /\ "New" \in Versions /\ "New" # v
  BY DEF Versions
<1>2. /\ V.rel[<<q, v>>] = W.rel[<<q, v>>] \cup W.rel[<<q, u>>]
      /\ \A x \in Relations, w \in Versions : x # q \/ w # v => V.rel[<<x, w>>] = W.rel[<<x, w>>]
  BY <1>1, MergeMakes
<1>3. V.rel[<<q, u>>] = W.rel[<<q, u>>] /\ V.rel[<<q, "New">>] = W.rel[<<q, "New">>]
  BY <1>1, <1>2
<1>4. \A x \in c, w \in Versions : x # q => V.rel[<<x, w>>] = W.rel[<<x, w>>]
  BY <1>2
<1>5. SameOff(W, V, c)
  BY <1>2 DEF SameOff
<1>6. ASSUME NEW x \in c
      PROVE  /\ W.rel[<<x, "Delta">>] \subseteq V.rel[<<x, "Delta">>]
             /\ W.rel[<<x, "Total">>] \subseteq V.rel[<<x, "Total">>]
             /\ V.rel[<<x, "Total">>] \subseteq W.rel[<<x, "Total">>] \cup V.rel[<<x, "Delta">>]
             /\ Knows(V, x) = Knows(W, x) /\ V.rel[<<x, "New">>] = W.rel[<<x, "New">>]
  <2>1. CASE x = q
    BY <1>2, <1>3, <2>1 DEF Knows
  <2>2. CASE x # q
    BY <1>4, <2>2 DEF Knows, Versions
  <2> QED
    BY <2>1, <2>2
<1> QED
  BY <1>2, <1>3, <1>4, <1>5, <1>6 DEF Turns, Advances, MergedIn

\* Statements that leave the relations alone.
LEMMA StillTurns ==
  ASSUME NEW W, NEW V, V.rel = W.rel, NEW c
  PROVE  Turns(W, V, c)
BY DEF Turns, Advances, SameOff, Knows

\* Filling Delta.
LEMMA GrowsAdvances ==
  ASSUME NEW c \in SUBSET Relations, NEW v \in {"Delta", "New"}, NEW W, NEW V, Grows(W, V, c \X {v})
  PROVE  Advances(W, V, c)
<1>1. \A x \in Relations, w \in Versions : x \notin c \/ w # v => V.rel[<<x, w>>] = W.rel[<<x, w>>]
  <2> SUFFICES ASSUME NEW x \in Relations, NEW w \in Versions, x \notin c \/ w # v
               PROVE  V.rel[<<x, w>>] = W.rel[<<x, w>>]
    OBVIOUS
  <2>1. <<x, w>> \in Keys \ (c \X {v})
    BY DEF Keys
  <2> QED
    BY <2>1 DEF Grows, SameBut
<1>2. \A x \in c : W.rel[<<x, v>>] \subseteq V.rel[<<x, v>>]
  BY DEF Grows
<1>3. SameOff(W, V, c)
  BY <1>1 DEF SameOff
<1>4. \A x \in c : /\ V.rel[<<x, "Total">>] = W.rel[<<x, "Total">>]
                   /\ W.rel[<<x, "Delta">>] \subseteq V.rel[<<x, "Delta">>]
  BY <1>1, <1>2 DEF Versions
<1> QED
  BY <1>3, <1>4 DEF Advances

\* Emptying New.
LEMMA PurgeAdvances ==
  ASSUME NEW c \in SUBSET Relations, NEW q \in c, NEW W, NEW V, Makes(Purge(Key(q, "New")), W, V)
  PROVE  Advances(W, V, c)
<1> DEFINE s == Purge(Key(q, "New"))
<1>1. s.op = "purge" /\ s.key = <<q, "New">>
  BY DEF Purge, Key
<1> HIDE DEF s
<1>2. SameBut(W, V, {<<q, "New">>})
  BY <1>1 DEF Makes, s
<1>3. ASSUME NEW x \in Relations, NEW w \in Versions, x # q \/ w # "New"
      PROVE  V.rel[<<x, w>>] = W.rel[<<x, w>>]
  <2>1. <<x, w>> \in Keys \ {<<q, "New">>}
    BY <1>3 DEF Keys
  <2> QED
    BY <1>2, <2>1 DEF SameBut
<1> QED
  BY <1>3 DEF Advances, SameOff, Versions

-----------------------------------------------------------------------------
(* Merges of a stratum, through worlds that do not mind a turn.             *)

\* The worlds of J where the Deltas of d are merged into Total, and those where
\* they are all of Total.
Spent(J, d) == {W \in J : \A q \in d : W.rel[<<q, "Delta">>] \subseteq W.rel[<<q, "Total">>]}
Leveled(J, d) == {W \in J : \A q \in d : W.rel[<<q, "Delta">>] = W.rel[<<q, "Total">>]}

\* The merges of the Deltas of d leave nothing in them that Total lacks.
LEMMA DeltaMerges ==
  ASSUME NEW c \in SUBSET Relations, NEW d \in SUBSET c, IsFiniteSet(d),
         NEW J \in SUBSET Worlds, \A W \in J, V \in Worlds : Turns(W, V, c) => V \in J, NEW out
  PROVE  /\ IsSeq(MergeDelta(d))
         /\ Course(MergeDelta(d), J, Spent(J, d), out)
<1> DEFINE S(q) == Merge(Key(q, "Delta"), Key(q, "Total"))
           F == [q \in d |-> S(q)]
           order == SetToSeq(d)
           Now(D) == {W \in J : \A q \in D : W.rel[<<q, "Delta">>] \subseteq W.rel[<<q, "Total">>]}
           T == [D \in SUBSET d |-> Now(D)]
<1>1. MergeDelta(d) = [i \in DOMAIN order |-> F[order[i]]]
  <2>1. \A i \in DOMAIN order : order[i] \in d
    BY SetToSeqIs DEF ToSet
  <2>2. MergeDelta(d) = [i \in DOMAIN order |-> Merge(Key(order[i], "Delta"), Key(order[i], "Total"))]
    BY DEF MergeDelta, ForEach
  <2> QED
    BY <2>1, <2>2
<1>2. ASSUME NEW D \in SUBSET d, NEW x \in d \ D PROVE Goes(T[D], F[x], T[D \cup {x}], out)
  <2>1. T[D] = Now(D) /\ T[D \cup {x}] = Now(D \cup {x}) /\ F[x] = S(x) /\ x \in c
    OBVIOUS
  <2>2. S(x).op = "merge"
    BY DEF Merge
  <2>3. ASSUME NEW W \in Now(D), NEW V \in Worlds, Makes(S(x), W, V) PROVE V \in Now(D \cup {x})
    <3>1. /\ Turns(W, V, c)
          /\ V.rel[<<x, "Total">>] = W.rel[<<x, "Total">>] \cup W.rel[<<x, "Delta">>]
          /\ V.rel[<<x, "Delta">>] = W.rel[<<x, "Delta">>]
          /\ \A y \in c, w \in Versions : y # x => V.rel[<<y, w>>] = W.rel[<<y, w>>]
      <4>1. PICK u, v : u = "Delta" /\ v = "Total"
        OBVIOUS
      <4>2. Makes(Merge(Key(x, u), Key(x, v)), W, V) /\ u \in {"Delta", "Total"} /\ v \in {"Delta", "Total"} /\ u # v
        BY <2>3, <4>1
      <4>3. MergedIn(W, V, c, x, u, v)
        BY <2>1, <4>2, MergeTurns
      <4> QED
        BY <4>1, <4>3 DEF MergedIn
    <3>2. V \in J
      BY <3>1
    <3>3. ASSUME NEW y \in D \cup {x} PROVE V.rel[<<y, "Delta">>] \subseteq V.rel[<<y, "Total">>]
      BY <3>1 DEF Versions
    <3> QED
      BY <3>2, <3>3
  <2> HIDE DEF S, Now, F, T
  <2>4. Carries(Now(D), S(x), Now(D \cup {x}), out)
    BY <2>2, <2>3 DEF Carries
  <2> QED
    BY <2>1, <2>2, <2>4 DEF Goes
<1>3. T[{}] = J /\ T[d] = Now(d)
  OBVIOUS
<1> HIDE DEF F, T
<1>4. IsSeq(MergeDelta(d)) /\ Course(MergeDelta(d), T[{}], T[d], out)
  BY <1>1, <1>2, CourseOfSome
<1>5. J \subseteq T[{}] /\ T[d] \subseteq Spent(J, d)
  BY <1>3 DEF Spent
<1>6. Course(MergeDelta(d), J, Spent(J, d), out)
  BY <1>4, <1>5, CourseLess
<1>7. IsSeq(MergeDelta(d))
  BY <1>4
<1> QED
  BY <1>6, <1>7

\* The merges of Total into Delta leave the two the same: what the stratum
\* knows is fed to those that follow.
LEMMA TotalMerges ==
  ASSUME NEW c \in SUBSET Relations, IsFiniteSet(c),
         NEW J \in SUBSET Worlds, \A W \in J, V \in Worlds : Turns(W, V, c) => V \in J, NEW out
  PROVE  /\ IsSeq(MergeTotal(c))
         /\ Course(MergeTotal(c), Spent(J, c), Leveled(J, c), out)
<1> DEFINE S(q) == Merge(Key(q, "Total"), Key(q, "Delta"))
           F == [q \in c |-> S(q)]
           order == SetToSeq(c)
           Now(D) == {W \in J : /\ \A q \in c : W.rel[<<q, "Delta">>] \subseteq W.rel[<<q, "Total">>]
                                /\ \A q \in D : W.rel[<<q, "Delta">>] = W.rel[<<q, "Total">>]}
           T == [D \in SUBSET c |-> Now(D)]
<1>1. MergeTotal(c) = [i \in DOMAIN order |-> F[order[i]]]
  <2>1. \A i \in DOMAIN order : order[i] \in c
    BY SetToSeqIs DEF ToSet
  <2>2. MergeTotal(c) = [i \in DOMAIN order |-> Merge(Key(order[i], "Total"), Key(order[i], "Delta"))]
    BY DEF MergeTotal, ForEach
  <2> QED
    BY <2>1, <2>2
<1>2. ASSUME NEW D \in SUBSET c, NEW x \in c \ D PROVE Goes(T[D], F[x], T[D \cup {x}], out)
  <2>1. T[D] = Now(D) /\ T[D \cup {x}] = Now(D \cup {x}) /\ F[x] = S(x) /\ x \in c
    OBVIOUS
  <2>2. S(x).op = "merge"
    BY DEF Merge
  <2>3. ASSUME NEW W \in Now(D), NEW V \in Worlds, Makes(S(x), W, V) PROVE V \in Now(D \cup {x})
    <3>1. /\ Turns(W, V, c)
          /\ V.rel[<<x, "Delta">>] = W.rel[<<x, "Delta">>] \cup W.rel[<<x, "Total">>]
          /\ V.rel[<<x, "Total">>] = W.rel[<<x, "Total">>]
          /\ \A y \in c, w \in Versions : y # x => V.rel[<<y, w>>] = W.rel[<<y, w>>]
      <4>1. PICK u, v : u = "Total" /\ v = "Delta"
        OBVIOUS
      <4>2. Makes(Merge(Key(x, u), Key(x, v)), W, V) /\ u \in {"Delta", "Total"} /\ v \in {"Delta", "Total"} /\ u # v
        BY <2>3, <4>1
      <4>3. MergedIn(W, V, c, x, u, v)
        BY <2>1, <4>2, MergeTurns
      <4> QED
        BY <4>1, <4>3 DEF MergedIn
    <3>2. V \in J
      BY <3>1
    <3>3. V.rel[<<x, "Delta">>] = V.rel[<<x, "Total">>]
      BY <3>1
    <3>4. ASSUME NEW y \in c, y # x
          PROVE  /\ V.rel[<<y, "Delta">>] = W.rel[<<y, "Delta">>]
                 /\ V.rel[<<y, "Total">>] = W.rel[<<y, "Total">>]
      BY <3>1, <3>4 DEF Versions
    <3>5. \A y \in c : V.rel[<<y, "Delta">>] \subseteq V.rel[<<y, "Total">>]
      BY <3>3, <3>4
    <3>6. \A y \in D \cup {x} : V.rel[<<y, "Delta">>] = V.rel[<<y, "Total">>]
      BY <3>3, <3>4
    <3> QED
      BY <3>2, <3>5, <3>6
  <2> HIDE DEF S, Now, F, T
  <2>4. Carries(Now(D), S(x), Now(D \cup {x}), out)
    BY <2>2, <2>3 DEF Carries
  <2> QED
    BY <2>1, <2>2, <2>4 DEF Goes
<1>3. T[{}] \subseteq Now({}) /\ Now({}) \subseteq T[{}] /\ T[c] = Now(c)
  OBVIOUS
<1> HIDE DEF F, T
<1>4. IsSeq(MergeTotal(c)) /\ Course(MergeTotal(c), T[{}], T[c], out)
  BY <1>1, <1>2, CourseOfSome
<1>5. Spent(J, c) \subseteq T[{}] /\ T[c] \subseteq Leveled(J, c)
  BY <1>3 DEF Spent, Leveled
<1> QED
  BY <1>4, <1>5, CourseLess

\* Sinks leave the relations alone.
LEMMA SinksGo ==
  ASSUME NEW d, NEW J \in SUBSET Worlds, \A W \in J, V \in Worlds : V.rel = W.rel => V \in J, NEW out
  PROVE  Goes(J, Sinks(d), J, out)
<1> DEFINE s == Sinks(d)
<1>1. s.op = "sinks"
  BY DEF Sinks
<1> HIDE DEF s
<1>2. Carries(J, s, J, out)
  BY <1>1 DEF Carries, Makes
<1> QED
  BY <1>1, <1>2 DEF Goes, s

-----------------------------------------------------------------------------
(* The statements of a stratum, from where it begins to where it ends.      *)

\* The statements of the rules of a sequence are those of each of them.
LEMMA LoweredRules ==
  ASSUME NEW rules, IsSeq(rules), \A r \in ToSet(rules) : IsSeq(r.pos), NEW version
  PROVE  /\ IsSeq(LowerRules(rules, version))
         /\ \A s \in ToSet(LowerRules(rules, version)) :
              \E r \in ToSet(rules) : s \in ToSet(LowerRule(r, version))
         /\ \A r \in ToSet(rules) : ToSet(LowerRule(r, version)) \subseteq ToSet(LowerRules(rules, version))
<1> DEFINE seqs == [i \in DOMAIN rules |-> LowerRule(rules[i], version)]
<1>1. LowerRules(rules, version) = FlattenSeq(seqs)
  BY DEF LowerRules
<1>2. /\ IsSeq(seqs) /\ Len(seqs) = Len(rules) /\ DOMAIN rules = 1..Len(rules)
      /\ \A i \in 1..Len(rules) : rules[i] \in ToSet(rules)
      /\ \A r \in ToSet(rules) : \E i \in 1..Len(rules) : r = rules[i]
  <2>1. seqs = [i \in DOMAIN rules |-> seqs[i]]
    OBVIOUS
  <2> HIDE DEF seqs
  <2> QED
    BY <2>1, SeqMap, SeqParts
<1>3. \A i \in 1..Len(rules) : seqs[i] = LowerRule(rules[i], version)
  BY <1>2
<1> HIDE DEF seqs
<1>4. \A i \in 1..Len(seqs) : IsSeq(seqs[i])
  BY <1>2, <1>3, LoweredInserts
<1>5. /\ IsSeq(FlattenSeq(seqs))
      /\ \A x \in ToSet(FlattenSeq(seqs)) : \E i \in 1..Len(seqs) : x \in ToSet(seqs[i])
      /\ \A i \in 1..Len(seqs) : ToSet(seqs[i]) \subseteq ToSet(FlattenSeq(seqs))
  BY <1>2, <1>4, FlattenRange
<1>6. ASSUME NEW s \in ToSet(FlattenSeq(seqs)) PROVE \E r \in ToSet(rules) : s \in ToSet(LowerRule(r, version))
  <2>1. PICK i \in 1..Len(seqs) : s \in ToSet(seqs[i])
    BY <1>5
  <2> QED
    BY <1>2, <1>3, <2>1
<1>7. ASSUME NEW r \in ToSet(rules) PROVE ToSet(LowerRule(r, version)) \subseteq ToSet(FlattenSeq(seqs))
  <2>1. PICK i \in 1..Len(rules) : r = rules[i]
    BY <1>2
  <2> QED
    BY <1>2, <1>3, <1>5, <2>1
<1> QED
  BY <1>1, <1>5, <1>6, <1>7

\* Each of them fills one version of the relation of the head.
LEMMA LoweredInto ==
  ASSUME NEW r, IsSeq(r.pos), NEW version, NEW s \in ToSet(LowerRule(r, version))
  PROVE  s.op = "insert" /\ s.into = <<r.head.rel, version>> /\ ~ s.ground
<1>1. PICK v \in ToSet(SemiNaiveRewrites(r)) : s = LowerRewrite(r, v, version)
  BY LoweredInserts
<1> QED
  BY <1>1, RewriteRows DEF Key

\* The worlds of J in which the rules have filled version v with what they
\* derive and has no place yet.
Ran(source, rules, v, J) ==
  {W \in J : \A i \in Plain(source) : \A r \in ToSet(rules) :
     RuleOf(source, r, i) /\ (\A p \in i.pos : Seen(W, p)) /\ Open(W, i)
       => i.head \in W.rel[<<i.head.rel, v>>] \/ Has(W, i)}

\* Rules about c run in worlds that do not mind it.
LEMMA RulesRun ==
  ASSUME NEW source, Fits(source), NEW done, NEW c, Placed(source, done, c),
         NEW rules, IsSeq(rules), ToSet(rules) \subseteq ToSet(source.rules),
         \A r \in ToSet(rules) : r.head.rel \in c,
         NEW v \in {"Delta", "New"},
         v = "Delta" => \A r \in ToSet(rules) : \A a \in ToSet(r.pos) : a.rel \notin c,
         NEW J \in SUBSET Waiting(source, done, c),
         \A W \in J, V \in Worlds : Grows(W, V, c \X {v}) => V \in J, NEW out
  PROVE  /\ IsSeq(LowerRules(rules, v))
         /\ Course(LowerRules(rules, v), J, Ran(source, rules, v, J), out)
<1> DEFINE p == LowerRules(rules, v)
           M == c \X {v}
           F == {W \in J : \A s \in ToSet(p) : Fired(W, s, M)}
<1>1. \A r \in ToSet(rules) : IsSeq(r.pos)
  BY DEF Fits, Proper, ProperRule
<1>2. /\ IsSeq(p)
      /\ \A s \in ToSet(p) : \E r \in ToSet(rules) : s \in ToSet(LowerRule(r, v))
      /\ \A r \in ToSet(rules) : ToSet(LowerRule(r, v)) \subseteq ToSet(p)
  BY <1>1, LoweredRules
<1> HIDE DEF p
<1>3. M \in SUBSET Keys
  BY DEF Placed, Keys, Versions
<1>4. \A x \in Relations, w \in Versions : <<x, w>> \in Keys /\ (<<x, w>> \in M <=> x \in c /\ w = v)
  BY DEF Keys
<1>5. \A s \in ToSet(p) : s.op = "insert" /\ s.into \in M
  <2> SUFFICES ASSUME NEW s \in ToSet(p) PROVE s.op = "insert" /\ s.into \in M
    OBVIOUS
  <2>1. PICK r \in ToSet(rules) : s \in ToSet(LowerRule(r, v))
    BY <1>2
  <2>2. s.op = "insert" /\ s.into = <<r.head.rel, v>>
    BY <1>1, <2>1, LoweredInto
  <2> QED
    BY <2>2
<1>6. J \subseteq Worlds
  BY DEF Waiting, Within
<1>7. \A W \in J, V \in Worlds : Grows(W, V, M) => V \in J
  OBVIOUS
<1> HIDE DEF M
<1>8. Course(p, J, F, out)
  BY <1>2, <1>3, <1>5, <1>6, <1>7, InsertsFire
<1>9. F \subseteq Ran(source, rules, v, J)
  <2> SUFFICES ASSUME NEW W \in J, \A s \in ToSet(p) : Fired(W, s, M),
                      NEW i \in Plain(source), NEW r \in ToSet(rules), RuleOf(source, r, i),
                      \A q \in i.pos : Seen(W, q), Open(W, i)
               PROVE  i.head \in W.rel[<<i.head.rel, v>>] \/ Has(W, i)
    BY DEF Ran
  <2>1. /\ i.head.rel = r.head.rel /\ i.head.rel \in c
        /\ \A q \in i.pos : \E a \in ToSet(r.pos) : q.rel = a.rel
    BY DEF RuleOf
  <2>2. /\ i.head \in Facts /\ i.head.rel \in Relations
        /\ \A q \in i.pos \cup i.neg : q.rel \in Relations
        /\ \A q \in i.neg : q.rel \notin c
    BY <2>1 DEF Placed
  <2>3. Old(W, i)
    BY <2>1 DEF Waiting
  <2>4. \A s \in ToSet(LowerRule(r, v)) : Fired(W, s, M)
    BY <1>2
  <2>5. v # "Total" /\ "Total" \in Versions /\ "Delta" \in Versions
    BY DEF Versions
  <2>6. <<i.head.rel, "Total">> \in Keys \ M
    BY <1>4, <2>2, <2>5
  <2>7. ASSUME NEW q \in i.pos \cup i.neg, NEW u \in {"Delta", "Total"} PROVE <<q.rel, u>> \in Keys \ M
    <3>1. q.rel \in Relations /\ u \in Versions
      BY <2>2, <2>5
    <3>2. q.rel \notin c \/ u # v
      <4>1. CASE v = "Delta"
        BY <2>1, <2>2, <4>1
      <4>2. CASE v = "New"
        BY <4>2
      <4> QED
        BY <4>1, <4>2
    <3> QED
      BY <1>4, <3>1, <3>2
  <2>8. W \in Worlds
    BY <1>6
  <2> QED
    BY <2>2, <2>3, <2>4, <2>6, <2>7, <2>8, Derives
<1>10. Course(p, J, Ran(source, rules, v, J), out)
  <2> HIDE DEF F
  <2> QED
    BY <1>8, <1>9, CourseLess
<1> QED
  BY <1>2, <1>10 DEF p

\* Ground facts do not disturb a stratum that waits.
LEMMA FactsRun ==
  ASSUME NEW source, Fits(source), NEW done, NEW c, Placed(source, done, c),
         NEW facts, IsFiniteSet(facts), facts \subseteq source.facts, \A f \in facts : f.rel \in c, NEW out
  PROVE  /\ IsSeq(LowerFacts(facts))
         /\ Course(LowerFacts(facts), Waiting(source, done, c), Waiting(source, done, c), out)
<1> DEFINE p == LowerFacts(facts)
           M == c \X {"Delta"}
           J == Waiting(source, done, c)
           F == {W \in J : \A s \in ToSet(p) : Fired(W, s, M)}
<1>1. facts \subseteq Facts
  BY DEF Fits, Writable
<1>2. IsSeq(p) /\ \A s \in ToSet(p) : \E f \in facts : IsInsert(s, f.rel, "Delta")
  BY <1>1, LowerFactsParts
<1> HIDE DEF p
<1>3. M \in SUBSET Keys
  BY DEF Placed, Keys, Versions
<1>4. \A s \in ToSet(p) : s.op = "insert" /\ s.into \in M
  <2> SUFFICES ASSUME NEW s \in ToSet(p) PROVE s.op = "insert" /\ s.into \in M
    OBVIOUS
  <2>1. PICK f \in facts : IsInsert(s, f.rel, "Delta")
    BY <1>2
  <2>2. s.op = "insert" /\ s.into = <<f.rel, "Delta">> /\ f.rel \in c
    BY <2>1 DEF IsInsert, Key
  <2> QED
    BY <2>2
<1>5. J \in SUBSET Worlds
  BY DEF Waiting, Within
<1>6. \A W \in J, V \in Worlds : Grows(W, V, M) => V \in J
  <2> SUFFICES ASSUME NEW W \in J, NEW V \in Worlds, Grows(W, V, M) PROVE V \in J
    OBVIOUS
  <2>1. Advances(W, V, c)
    BY GrowsAdvances DEF Placed
  <2> QED
    BY <2>1, WaitingStays
<1> HIDE DEF M, J
<1>7. Course(p, J, F, out)
  BY <1>2, <1>3, <1>4, <1>5, <1>6, InsertsFire
<1>8. F \subseteq J
  OBVIOUS
<1> HIDE DEF F
<1>9. Course(p, J, J, out)
  BY <1>7, <1>8, CourseLess
<1> QED
  BY <1>2, <1>9 DEF p, J

\* Every instance of the stratum's rules is satisfied, merged or not.
Settling(source, done, c) ==
  {W \in Within(source, done, c) : \A i \in Plain(source) : i.head.rel \in c => Satisfied(W, i)}

\* ... as far as New is counted in, in a loop.
Looped(source, done, c) ==
  {W \in Readied(source, done, c) :
     \A i \in Plain(source) :
       i.head.rel \in c /\ ~ Static(i, c) /\ (\A p \in i.pos : Seen(W, p)) /\ Open(W, i)
         => i.head \in W.rel[<<i.head.rel, "New">>] \/ Has(W, i)}

\* Turns of the stratum keep what its settling needs ...
LEMMA SettlingTurns ==
  ASSUME NEW source, NEW done, NEW c, Placed(source, done, c),
         NEW W \in Settling(source, done, c), NEW V \in Worlds, Turns(W, V, c)
  PROVE  V \in Settling(source, done, c)
<1>1. More(W, V, c) /\ \A q \in c : Knows(V, q) = Knows(W, q)
  BY AdvancesMore DEF Turns
<1>2. V \in Within(source, done, c)
  BY <1>1, WithinStays DEF Settling
<1>3. ASSUME NEW i \in Plain(source), i.head.rel \in c PROVE Satisfied(V, i)
  <2>1. Satisfied(W, i)
    BY <1>3 DEF Settling
  <2>2. i.head.rel \in Relations /\ \A p \in i.pos \cup i.neg : p.rel \in Relations
    BY DEF Placed
  <2> QED
    BY <1>1, <2>1, <2>2, DerivedSame
<1> QED
  BY <1>2, <1>3 DEF Settling

\* ... and what an iteration of its loop has derived.
LEMMA LoopedTurns ==
  ASSUME NEW source, NEW done, NEW c, Placed(source, done, c),
         NEW W \in Looped(source, done, c), NEW V \in Worlds, Turns(W, V, c)
  PROVE  V \in Looped(source, done, c)
<1>1. Advances(W, V, c) /\ \A q \in c : Knows(V, q) = Knows(W, q) /\ V.rel[<<q, "New">>] = W.rel[<<q, "New">>]
  BY DEF Turns
<1>2. More(W, V, c)
  BY <1>1, AdvancesMore
<1>3. V \in Readied(source, done, c)
  BY <1>1, ReadiedStays DEF Looped
<1>4. ASSUME NEW i \in Plain(source), i.head.rel \in c, ~ Static(i, c), \A p \in i.pos : Seen(V, p), Open(V, i)
      PROVE  i.head \in V.rel[<<i.head.rel, "New">>] \/ Has(V, i)
  <2>1. i.head.rel \in Relations /\ \A p \in i.pos \cup i.neg : p.rel \in Relations
    BY DEF Placed
  <2>2. \A q \in Relations : Knows(V, q) \subseteq Knows(W, q)
    BY <1>1, <1>2 DEF More, SameOff, Knows, Versions
  <2>3. \A p \in i.pos : Seen(W, p)
    BY <1>4, <2>1, <2>2, SeenIs
  <2>4. Open(W, i)
    BY <1>2, <1>4, <2>1, OpenMore
  <2>5. i.head \in W.rel[<<i.head.rel, "New">>] \/ Has(W, i)
    BY <1>4, <2>3, <2>4 DEF Looped
  <2> QED
    BY <1>1, <1>2, <1>4, <2>1, <2>5, HasMore
<1> QED
  BY <1>3, <1>4 DEF Looped

\* Filling New disturbs nothing.
LEMMA ReadiedGrows ==
  ASSUME NEW source, NEW done, NEW c, Placed(source, done, c),
         NEW W \in Readied(source, done, c), NEW V \in Worlds, Grows(W, V, c \X {"New"})
  PROVE  V \in Readied(source, done, c)
<1>1. Advances(W, V, c)
  BY GrowsAdvances DEF Placed
<1> QED
  BY <1>1, ReadiedStays

\* Deltas that grow keep a stratum waiting.
LEMMA WaitingGrows ==
  ASSUME NEW source, NEW done, NEW c, Placed(source, done, c),
         NEW W \in Waiting(source, done, c), NEW V \in Worlds, Grows(W, V, c \X {"Delta"})
  PROVE  V \in Waiting(source, done, c)
<1>1. Advances(W, V, c)
  BY GrowsAdvances DEF Placed
<1> QED
  BY <1>1, WaitingStays

\* What the rules have run for.
LEMMA RanStatic ==
  ASSUME NEW source, NEW done, NEW c, Placed(source, done, c), Fits(source), NEW rules,
         \A r \in ToSet(source.rules) :
           r.head.rel \in c /\ (\A a \in ToSet(r.pos) : a.rel \notin c) => r \in ToSet(rules)
  PROVE  Ran(source, rules, "Delta", Waiting(source, done, c)) \subseteq Readied(source, done, c)
<1> SUFFICES ASSUME NEW W \in Ran(source, rules, "Delta", Waiting(source, done, c)),
                    NEW i \in Plain(source), i.head.rel \in c, Static(i, c),
                    \A p \in i.pos : Seen(W, p), Open(W, i)
             PROVE  Has(W, i)
  BY DEF Readied, Ran, Satisfied
<1>1. PICK r \in ToSet(source.rules) : RuleOf(source, r, i)
  BY PlainParts
<1>2. r.head.rel \in c /\ \A a \in ToSet(r.pos) : a.rel \notin c
  BY <1>1 DEF RuleOf, Static
<1>3. r \in ToSet(rules)
  BY <1>2
<1>4. i.head \in W.rel[<<i.head.rel, "Delta">>] \/ Has(W, i)
  BY <1>1, <1>3 DEF Ran
<1> QED
  BY <1>4 DEF Has

\* When the rules that read their own stratum have run into New, each of their
\* instances with an open body has its head in New, in Delta or in Total.
LEMMA RanDynamic ==
  ASSUME NEW source, NEW done, NEW c, Placed(source, done, c), Fits(source), NEW rules,
         \A r \in ToSet(source.rules) :
           r.head.rel \in c /\ (\E a \in ToSet(r.pos) : a.rel \in c) => r \in ToSet(rules)
  PROVE  Ran(source, rules, "New", Readied(source, done, c)) \subseteq Looped(source, done, c)
<1> SUFFICES ASSUME NEW W \in Ran(source, rules, "New", Readied(source, done, c)),
                    NEW i \in Plain(source), i.head.rel \in c, ~ Static(i, c),
                    \A p \in i.pos : Seen(W, p), Open(W, i)
             PROVE  i.head \in W.rel[<<i.head.rel, "New">>] \/ Has(W, i)
  BY DEF Looped, Ran
<1>1. PICK r \in ToSet(source.rules) : RuleOf(source, r, i)
  BY PlainParts
<1>2. r.head.rel \in c /\ \E a \in ToSet(r.pos) : a.rel \in c
  BY <1>1 DEF RuleOf, Static
<1>3. r \in ToSet(rules)
  BY <1>2
<1> QED
  BY <1>1, <1>3 DEF Ran

-----------------------------------------------------------------------------
(* The end of a loop's body.                                                *)

\* The exit is taken when nothing new was derived.
LEMMA ExitGoes ==
  ASSUME NEW source, NEW done, NEW c, Placed(source, done, c)
  PROVE  LET J == Spent(Looped(source, done, c), c)
         IN  Goes(J, Exit({Key(r, "New") : r \in c}), J, Settled(source, done, c))
<1> DEFINE J == Spent(Looped(source, done, c), c)
           K == {Key(r, "New") : r \in c}
           s == Exit(K)
<1>1. s.op = "exit" /\ s.keys = K
  BY DEF Exit
<1> HIDE DEF s
<1>2. ASSUME NEW W \in J, NEW V \in Worlds, V.rel = W.rel PROVE V \in J
  <2>1. Turns(W, V, c)
    BY <1>2, StillTurns
  <2>2. V \in Looped(source, done, c)
    BY <2>1, LoopedTurns DEF Spent
  <2> QED
    BY <1>2, <2>2 DEF Spent
<1>3. ASSUME NEW W \in J, \A k \in K : W.rel[k] = {} PROVE W \in Settled(source, done, c)
  <2>1. ASSUME NEW i \in Plain(source), i.head.rel \in c PROVE Satisfied(W, i)
    <3>1. CASE Static(i, c)
      BY <2>1, <3>1 DEF Spent, Looped, Readied
    <3>2. CASE ~ Static(i, c)
      <4>1. W.rel[<<i.head.rel, "New">>] = {}
        BY <1>3, <2>1 DEF Key
      <4> QED
        BY <2>1, <3>2, <4>1 DEF Spent, Looped, Satisfied
    <3> QED
      BY <3>1, <3>2
  <2> QED
    BY <2>1 DEF Settled, Spent, Looped, Readied, Waiting
<1>4. Carries(J, s, J, Settled(source, done, c))
  <2> SUFFICES ASSUME NEW W \in J, NEW V \in Worlds, Makes(s, W, V)
               PROVE  IF \A k \in K : W.rel[k] = {} THEN V \in Settled(source, done, c) ELSE V \in J
    BY <1>1 DEF Carries
  <2>1. V.rel = W.rel
    BY <1>1 DEF Makes
  <2>2. V \in J
    BY <1>2, <2>1
  <2>3. (\A k \in K : W.rel[k] = {}) => V \in Settled(source, done, c)
    BY <1>3, <2>1, <2>2
  <2> QED
    BY <2>2, <2>3
<1> QED
  BY <1>1, <1>4 DEF Goes, s

\* The worlds of J after New and Delta of the relations in S were swapped.
Swapped(W, V, S) ==
  /\ \A q \in S : V.rel[<<q, "Delta">>] = W.rel[<<q, "New">>] /\ V.rel[<<q, "New">>] = W.rel[<<q, "Delta">>]
  /\ \A x \in Relations, w \in Versions : x \notin S \/ w = "Total" => V.rel[<<x, w>>] = W.rel[<<x, w>>]

AfterSwaps(J, S) == {V \in Worlds : \E W \in J : Swapped(W, V, S)}

\* A swap of New and Delta of one more relation (swap.rs).
LEMMA SwapMakes ==
  ASSUME NEW S \in SUBSET Relations, NEW x \in Relations, x \notin S, NEW U, NEW W, NEW V,
         Swapped(U, W, S), Makes(Swap(Key(x, "New"), Key(x, "Delta")), W, V)
  PROVE  Swapped(U, V, S \cup {x})
<1> DEFINE s == Swap(Key(x, "New"), Key(x, "Delta"))
<1>1. s.op = "swap" /\ s.left = <<x, "New">> /\ s.right = <<x, "Delta">>
  BY DEF Swap, Key
<1> HIDE DEF s
<1>2. /\ V.rel[<<x, "New">>] = W.rel[<<x, "Delta">>] /\ V.rel[<<x, "Delta">>] = W.rel[<<x, "New">>]
      /\ SameBut(W, V, {<<x, "New">>, <<x, "Delta">>})
  BY <1>1 DEF Makes, s
<1>3. ASSUME NEW y \in Relations, NEW w \in Versions, y # x \/ w = "Total" PROVE V.rel[<<y, w>>] = W.rel[<<y, w>>]
  <2>1. <<y, w>> \in Keys \ {<<x, "New">>, <<x, "Delta">>}
    BY <1>3 DEF Keys
  <2> QED
    BY <1>2, <2>1 DEF SameBut
<1>4. W.rel[<<x, "New">>] = U.rel[<<x, "New">>] /\ W.rel[<<x, "Delta">>] = U.rel[<<x, "Delta">>]
  BY DEF Swapped, Versions
<1>5. ASSUME NEW q \in S \cup {x}
      PROVE  V.rel[<<q, "Delta">>] = U.rel[<<q, "New">>] /\ V.rel[<<q, "New">>] = U.rel[<<q, "Delta">>]
  <2>1. CASE q = x
    BY <1>2, <1>4, <2>1
  <2>2. CASE q # x
    BY <1>3, <2>2 DEF Swapped, Versions
  <2> QED
    BY <2>1, <2>2
<1>6. ASSUME NEW y \in Relations, NEW w \in Versions, y \notin S \cup {x} \/ w = "Total"
      PROVE  V.rel[<<y, w>>] = U.rel[<<y, w>>]
  BY <1>3, <1>6 DEF Swapped
<1> QED
  BY <1>5, <1>6 DEF Swapped

\* The swaps of a stratum.
LEMMA SwapsGo ==
  ASSUME NEW c \in SUBSET Relations, IsFiniteSet(c), NEW J \in SUBSET Worlds, NEW out
  PROVE  /\ IsSeq(ForEach(c, LAMBDA r : Swap(Key(r, "New"), Key(r, "Delta"))))
         /\ Course(ForEach(c, LAMBDA r : Swap(Key(r, "New"), Key(r, "Delta"))), J, AfterSwaps(J, c), out)
<1> DEFINE S(q) == Swap(Key(q, "New"), Key(q, "Delta"))
           F == [q \in c |-> S(q)]
           order == SetToSeq(c)
           T == [D \in SUBSET c |-> AfterSwaps(J, D)]
           p == ForEach(c, LAMBDA r : Swap(Key(r, "New"), Key(r, "Delta")))
<1>1. p = [i \in DOMAIN order |-> F[order[i]]]
  <2>1. \A i \in DOMAIN order : order[i] \in c
    BY SetToSeqIs DEF ToSet
  <2>2. p = [i \in DOMAIN order |-> Swap(Key(order[i], "New"), Key(order[i], "Delta"))]
    BY DEF ForEach
  <2> QED
    BY <2>1, <2>2
<1>2. ASSUME NEW D \in SUBSET c, NEW x \in c \ D PROVE Goes(T[D], F[x], T[D \cup {x}], out)
  <2>1. T[D] = AfterSwaps(J, D) /\ T[D \cup {x}] = AfterSwaps(J, D \cup {x}) /\ F[x] = S(x)
    OBVIOUS
  <2>2. S(x).op = "swap"
    BY DEF Swap
  <2>3. ASSUME NEW W \in AfterSwaps(J, D), NEW V \in Worlds, Makes(S(x), W, V)
        PROVE  V \in AfterSwaps(J, D \cup {x})
    <3>1. PICK U \in J : Swapped(U, W, D)
      BY DEF AfterSwaps
    <3>2. D \in SUBSET Relations /\ x \in Relations /\ x \notin D
      OBVIOUS
    <3>3. Makes(Swap(Key(x, "New"), Key(x, "Delta")), W, V)
      BY <2>3
    <3>4. Swapped(U, V, D \cup {x})
      BY ONLY <3>1, <3>2, <3>3, SwapMakes
    <3> QED
      BY <3>4 DEF AfterSwaps
  <2> HIDE DEF S, F, T
  <2>4. Carries(AfterSwaps(J, D), S(x), AfterSwaps(J, D \cup {x}), out)
    BY <2>2, <2>3 DEF Carries
  <2> QED
    BY <2>1, <2>2, <2>4 DEF Goes
<1>3. T[{}] = AfterSwaps(J, {}) /\ T[c] = AfterSwaps(J, c)
  OBVIOUS
<1>4. J \subseteq AfterSwaps(J, {})
  BY DEF AfterSwaps, Swapped
<1> HIDE DEF F, T, p
<1>5. IsSeq(p) /\ Course(p, T[{}], T[c], out)
  BY <1>1, <1>2, CourseOfSome
<1>6. Course(p, J, AfterSwaps(J, c), out)
  BY <1>3, <1>4, <1>5, CourseLess
<1> QED
  BY <1>5, <1>6 DEF p

\* After the swaps what New held is the news of the next iteration.
LEMMA SwapsReady ==
  ASSUME NEW source, NEW done, NEW c, Placed(source, done, c)
  PROVE  AfterSwaps(Spent(Looped(source, done, c), c), c) \subseteq Readied(source, done, c)
<1> SUFFICES ASSUME NEW V \in Worlds, NEW W \in Spent(Looped(source, done, c), c), Swapped(W, V, c)
             PROVE  V \in Readied(source, done, c)
  BY DEF AfterSwaps
<1>1. W \in Looped(source, done, c) /\ W \in Readied(source, done, c) /\ W \in Within(source, done, c)
  BY DEF Spent, Looped, Readied, Waiting
<1>2. c \subseteq Relations
  BY DEF Placed
<1>3. /\ SameOff(W, V, c)
      /\ \A q \in c : /\ W.rel[<<q, "Delta">>] \subseteq W.rel[<<q, "Total">>]
                      /\ V.rel[<<q, "Total">>] = W.rel[<<q, "Total">>]
                      /\ V.rel[<<q, "Delta">>] = W.rel[<<q, "New">>]
  BY <1>2 DEF Swapped, Versions, SameOff, Spent
<1>4. More(W, V, c)
  BY <1>3 DEF More, Knows
<1>5. V \in Within(source, done, c)
  BY <1>1, <1>4, WithinStays
<1>6. ASSUME NEW i \in Plain(source)
      PROVE  i.head.rel \in Relations /\ \A p \in i.pos \cup i.neg : p.rel \in Relations
  BY DEF Placed
<1>7. ASSUME NEW i \in Plain(source), i.head.rel \in c PROVE Old(V, i)
  <2> SUFFICES ASSUME \A p \in i.pos : Sees(V, p, "Total") /\ ~ Sees(V, p, "Delta"), Open(V, i)
               PROVE  Has(V, i)
    BY DEF Old
  <2>1. ASSUME NEW p \in i.pos PROVE Seen(W, p)
    <3>1. V.rel[<<p.rel, "Total">>] = W.rel[<<p.rel, "Total">>]
      BY <1>3, <1>6 DEF SameOff, Versions
    <3> QED
      BY <3>1 DEF Seen, Sees
  <2>2. Open(W, i)
    BY <1>4, <1>6, OpenMore
  <2>3. CASE Static(i, c)
    <3>1. Satisfied(W, i)
      BY <1>1, <1>7, <2>3 DEF Readied
    <3>2. Has(W, i)
      BY <2>1, <2>2, <3>1 DEF Satisfied
    <3> QED
      BY <1>4, <1>6, <3>2, HasMore
  <2>4. CASE ~ Static(i, c)
    <3>1. i.head \in W.rel[<<i.head.rel, "New">>] \/ Has(W, i)
      BY <1>1, <1>7, <2>1, <2>2, <2>4 DEF Looped
    <3>2. CASE Has(W, i)
      BY <1>4, <1>6, <3>2, HasMore
    <3>3. CASE i.head \in W.rel[<<i.head.rel, "New">>]
      BY <1>3, <1>7, <3>3 DEF Has
    <3> QED
      BY <3>1, <3>2, <3>3
  <2> QED
    BY <2>3, <2>4
<1>8. ASSUME NEW i \in Plain(source), i.head.rel \in c, Static(i, c) PROVE Satisfied(V, i)
  <2>1. Satisfied(W, i)
    BY <1>1, <1>8 DEF Readied
  <2>2. \A p \in i.pos : p.rel \in Relations \ c
    BY <1>6, <1>8 DEF Static
  <2> QED
    BY <1>4, <1>6, <2>1, <2>2, DerivedOff
<1> QED
  BY <1>5, <1>7, <1>8 DEF Readied, Waiting

\* The purges before an iteration.
LEMMA PurgesGo ==
  ASSUME NEW source, NEW done, NEW c, Placed(source, done, c), IsFiniteSet(c), NEW out
  PROVE  LET p == ForEach(c, LAMBDA r : Purge(Key(r, "New")))
         IN  IsSeq(p) /\ Course(p, Readied(source, done, c), Readied(source, done, c), out)
<1> DEFINE S(q) == Purge(Key(q, "New"))
           F == [q \in c |-> S(q)]
           order == SetToSeq(c)
           J == Readied(source, done, c)
           T == [D \in SUBSET c |-> J]
           p == ForEach(c, LAMBDA r : Purge(Key(r, "New")))
<1>1. p = [i \in DOMAIN order |-> F[order[i]]]
  <2>1. \A i \in DOMAIN order : order[i] \in c
    BY SetToSeqIs DEF ToSet
  <2>2. p = [i \in DOMAIN order |-> Purge(Key(order[i], "New"))]
    BY DEF ForEach
  <2> QED
    BY <2>1, <2>2
<1>2. ASSUME NEW D \in SUBSET c, NEW x \in c \ D PROVE Goes(T[D], F[x], T[D \cup {x}], out)
  <2>1. T[D] = J /\ T[D \cup {x}] = J /\ F[x] = S(x) /\ x \in c
    OBVIOUS
  <2>2. S(x).op = "purge"
    BY DEF Purge
  <2>3. ASSUME NEW W \in J, NEW V \in Worlds, Makes(S(x), W, V) PROVE V \in J
    <3>1. Makes(Purge(Key(x, "New")), W, V) /\ c \in SUBSET Relations
      BY <2>3 DEF Placed
    <3>2. Advances(W, V, c)
      BY ONLY <2>1, <3>1, PurgeAdvances
    <3> QED
      BY <3>2, ReadiedStays
  <2> HIDE DEF S, F, T, J
  <2>4. Carries(J, S(x), J, out)
    BY <2>2, <2>3 DEF Carries
  <2> QED
    BY <2>1, <2>2, <2>4 DEF Goes
<1>3. T[{}] = J /\ T[c] = J
  OBVIOUS
<1> HIDE DEF F, T, p, J
<1>4. IsSeq(p) /\ Course(p, T[{}], T[c], out)
  BY <1>1, <1>2, CourseOfSome
<1>5. IsSeq(p) /\ Course(p, J, J, out)
  BY <1>3, <1>4
<1> QED
  BY <1>5 DEF p, J

\* A stratum has all the rules about its relations.
LEMMA StratumHas ==
  ASSUME NEW source, Proper(source), NEW c, NEW r \in ToSet(source.rules), r.head.rel \in c
  PROVE  r \in ToSet(StratumOf(source, c).rules)
<1> DEFINE W == {k \in ToSet(source.rules) : k.head.rel \in c}
<1>1. StratumOf(source, c).rules = Keep(source.rules, W)
  BY DEF StratumOf
<1>2. source.rules \in Seq(ToSet(source.rules))
  BY DEF Proper, IsSeq
<1>3. r \in W
  OBVIOUS
<1> HIDE DEF W
<1>4. ToSet(Keep(source.rules, W)) = ToSet(source.rules) \cap W
  BY <1>2, KeepRange
<1> QED
  BY <1>1, <1>3, <1>4

\* The loop of a recursive stratum: its body leads from an iteration to the
\* next, and its exit to where nothing is left to derive.
LEMMA LoopGoes ==
  ASSUME NEW source, Fits(source), NEW done, NEW c, Placed(source, done, c), IsFiniteSet(c),
         NEW stratum, stratum = StratumOf(source, c),
         NEW dynamic, IsSeq(dynamic), ToSet(dynamic) \subseteq ToSet(stratum.rules),
         \A r \in ToSet(source.rules) :
           r.head.rel \in c /\ (\E a \in ToSet(r.pos) : a.rel \in c) => r \in ToSet(dynamic),
         NEW out
  PROVE  Goes(Readied(source, done, c), Loop(LoopBody(stratum, dynamic)), Settled(source, done, c), out)
<1> DEFINE purges == ForEach(c, LAMBDA r : Purge(Key(r, "New")))
           inserts == LowerRules(dynamic, "New")
           sinks == <<Sinks(c)>>
           merges == MergeDelta(c)
           exit == <<Exit({Key(r, "New") : r \in c})>>
           swaps == ForEach(c, LAMBDA r : Swap(Key(r, "New"), Key(r, "Delta")))
           body == LoopBody(stratum, dynamic)
           R == Readied(source, done, c)
           L == Looped(source, done, c)
           S == Settled(source, done, c)
<1>1. /\ stratum.relations = c
      /\ ToSet(dynamic) \subseteq ToSet(source.rules)
      /\ \A r \in ToSet(dynamic) : r.head.rel \in c
  BY StratumRules DEF Fits
<1>2. body = purges \o inserts \o sinks \o merges \o exit \o swaps
  BY <1>1 DEF LoopBody
<1>3. /\ c \in SUBSET Relations
      /\ R \in SUBSET Waiting(source, done, c)
      /\ L \in SUBSET Worlds /\ Spent(L, c) \in SUBSET Worlds
  BY DEF Placed, Looped, Readied, Waiting, Within, Spent
<1>4. \A W \in L, V \in Worlds : Turns(W, V, c) => V \in L
  BY LoopedTurns
<1>5. IsSeq(purges) /\ Course(purges, R, R, S)
  BY PurgesGo
<1>6. IsSeq(inserts) /\ Course(inserts, R, L, S)
  <2>1. \A W \in R, V \in Worlds : Grows(W, V, c \X {"New"}) => V \in R
    BY ReadiedGrows
  <2>2. IsSeq(inserts) /\ Course(inserts, R, Ran(source, dynamic, "New", R), S)
    <3>1. PICK v \in {"Delta", "New"} : v = "New"
      OBVIOUS
    <3> HIDE DEF R
    <3>2. \A W \in R, V \in Worlds : Grows(W, V, c \X {v}) => V \in R
      BY <2>1, <3>1
    <3>3. v = "Delta" => \A r \in ToSet(dynamic) : \A a \in ToSet(r.pos) : a.rel \notin c
      BY <3>1
    <3>4. IsSeq(LowerRules(dynamic, v)) /\ Course(LowerRules(dynamic, v), R, Ran(source, dynamic, v, R), S)
      BY <1>1, <1>3, <3>2, <3>3, RulesRun
    <3> QED
      BY <3>1, <3>4
  <2>3. Ran(source, dynamic, "New", R) \subseteq L
    BY RanDynamic
  <2> HIDE DEF R, L, inserts, S
  <2>4. Course(inserts, R, L, S)
    BY <2>2, <2>3, CourseLess
  <2> QED
    BY <2>2, <2>4
<1>7. IsSeq(sinks) /\ Course(sinks, L, L, S)
  <2>1. \A W \in L, V \in Worlds : V.rel = W.rel => V \in L
    BY <1>4, StillTurns
  <2> HIDE DEF L, S
  <2>2. Goes(L, Sinks(c), L, S)
    BY <1>3, <2>1, SinksGo
  <2> QED
    BY <2>2, CourseOne, SeqOne
<1>8. IsSeq(merges) /\ Course(merges, L, Spent(L, c), S)
  <2> HIDE DEF L, S
  <2> QED
    BY <1>3, <1>4, DeltaMerges
<1>9. IsSeq(exit) /\ Course(exit, Spent(L, c), Spent(L, c), S)
  <2>1. Goes(Spent(L, c), Exit({Key(r, "New") : r \in c}), Spent(L, c), S)
    BY ExitGoes
  <2> HIDE DEF L, S
  <2> QED
    BY <2>1, CourseOne, SeqOne
<1>10. IsSeq(swaps) /\ Course(swaps, Spent(L, c), R, S)
  <2>1. IsSeq(swaps) /\ Course(swaps, Spent(L, c), AfterSwaps(Spent(L, c), c), S)
    <3> HIDE DEF L, S
    <3> QED
      BY <1>3, SwapsGo
  <2>2. AfterSwaps(Spent(L, c), c) \subseteq R
    BY SwapsReady
  <2> HIDE DEF L, S, R, swaps
  <2>3. Course(swaps, Spent(L, c), R, S)
    BY <2>1, <2>2, CourseLess
  <2> QED
    BY <2>1, <2>3
<1>11. \A i \in 1..Len(body) : body[i].op # "loop"
  <2>1. AllOf(body, c)
    BY <1>1, LoopBodyParts DEF Fits
  <2> HIDE DEF body
  <2> QED
    BY <2>1, NoLoopInside, SeqParts DEF AllOf
<1> HIDE DEF purges, inserts, sinks, merges, exit, swaps, body, R, L, S
<1>12. ASSUME NEW p, NEW q, IsSeq(p), IsSeq(q), NEW A, NEW B, NEW C,
              Course(p, A, B, S), Course(q, B, C, S)
       PROVE  IsSeq(p \o q) /\ Course(p \o q, A, C, S)
  BY <1>12, CourseConcat, SeqConcat
<1>13. IsSeq(purges \o inserts) /\ Course(purges \o inserts, R, L, S)
  BY <1>5, <1>6, <1>12
<1>14. IsSeq(purges \o inserts \o sinks) /\ Course(purges \o inserts \o sinks, R, L, S)
  BY <1>7, <1>12, <1>13
<1>15. /\ IsSeq(purges \o inserts \o sinks \o merges)
       /\ Course(purges \o inserts \o sinks \o merges, R, Spent(L, c), S)
  BY <1>8, <1>12, <1>14
<1>16. /\ IsSeq(purges \o inserts \o sinks \o merges \o exit)
       /\ Course(purges \o inserts \o sinks \o merges \o exit, R, Spent(L, c), S)
  BY <1>9, <1>12, <1>15
<1>17. Course(body, R, R, S)
  BY <1>2, <1>10, <1>12, <1>16
<1>18. PICK B : IsCourse(B, body, R, R, S)
  BY <1>17 DEF Course
<1>19. Circles(B, body, R, S)
  <2>1. R \subseteq B[1] /\ B[Len(body) + 1] \subseteq B[1]
    BY <1>18 DEF IsCourse
  <2>2. \A j \in 1..Len(body) : Carries(B[j], body[j], B[j + 1], S)
    BY <1>11, <1>18 DEF IsCourse, Goes
  <2> QED
    BY <2>1, <2>2 DEF Circles
<1>20. Loop(body).op = "loop" /\ Loop(body).body = body
  BY DEF Loop
<1>21. Goes(R, Loop(body), S, out)
  BY <1>19, <1>20 DEF Goes
<1> QED
  BY <1>21 DEF R, S, body

\* Where nothing is left to derive the stratum ends.
LEMMA TotalsEnd ==
  ASSUME NEW source, NEW done, NEW c, Placed(source, done, c), IsFiniteSet(c), NEW out
  PROVE  /\ IsSeq(MergeTotal(c))
         /\ Course(MergeTotal(c), Settled(source, done, c), Between(source, done \cup c), out)
<1> DEFINE J == Settling(source, done, c)
<1>1. c \in SUBSET Relations /\ J \in SUBSET Worlds
  BY DEF Placed, Settling, Within
<1>2. \A W \in J, V \in Worlds : Turns(W, V, c) => V \in J
  BY SettlingTurns
<1>3. Settled(source, done, c) \subseteq Spent(J, c)
  BY DEF Settled, Settling, Spent
<1>4. Leveled(J, c) \subseteq Between(source, done \cup c)
  <2> SUFFICES ASSUME NEW W \in Leveled(J, c) PROVE W \in Between(source, done \cup c)
    OBVIOUS
  <2>1. W \in Settled(source, done, c) /\ \A q \in c : W.rel[<<q, "Delta">>] = W.rel[<<q, "Total">>]
    BY DEF Settled, Settling, Leveled
  <2> QED
    BY <2>1, StratumEnds
<1> HIDE DEF J
<1>5. IsSeq(MergeTotal(c)) /\ Course(MergeTotal(c), Spent(J, c), Leveled(J, c), out)
  BY <1>1, <1>2, TotalMerges
<1>6. Course(MergeTotal(c), Settled(source, done, c), Between(source, done \cup c), out)
  BY <1>3, <1>4, <1>5, CourseLess
<1> QED
  BY <1>5, <1>6

\* The static rules of a stratum.
LEMMA StaticRules ==
  ASSUME NEW source, Fits(source), NEW done, NEW c, Placed(source, done, c),
         NEW rules, IsSeq(rules), ToSet(rules) \subseteq ToSet(source.rules),
         \A r \in ToSet(rules) : r.head.rel \in c /\ \A a \in ToSet(r.pos) : a.rel \notin c,
         \A r \in ToSet(source.rules) :
           r.head.rel \in c /\ (\A a \in ToSet(r.pos) : a.rel \notin c) => r \in ToSet(rules),
         NEW out
  PROVE  /\ IsSeq(LowerRules(rules, "Delta"))
         /\ Course(LowerRules(rules, "Delta"), Waiting(source, done, c), Readied(source, done, c), out)
<1> DEFINE J == Waiting(source, done, c)
           p == LowerRules(rules, "Delta")
<1>1. \A W \in J, V \in Worlds : Grows(W, V, c \X {"Delta"}) => V \in J
  BY WaitingGrows
<1>2. J \in SUBSET Waiting(source, done, c)
  OBVIOUS
<1> HIDE DEF J
<1>3. PICK v \in {"Delta", "New"} : v = "Delta"
  OBVIOUS
<1>4. \A W \in J, V \in Worlds : Grows(W, V, c \X {v}) => V \in J
  BY <1>1, <1>3
<1>5. \A r \in ToSet(rules) : r.head.rel \in c
  OBVIOUS
<1>6. v = "Delta" => \A r \in ToSet(rules) : \A a \in ToSet(r.pos) : a.rel \notin c
  OBVIOUS
<1>7. IsSeq(LowerRules(rules, v)) /\ Course(LowerRules(rules, v), J, Ran(source, rules, v, J), out)
  BY <1>2, <1>4, <1>5, <1>6, RulesRun
<1>8. IsSeq(p) /\ Course(p, J, Ran(source, rules, "Delta", J), out)
  BY <1>3, <1>7
<1>9. Ran(source, rules, "Delta", J) \subseteq Readied(source, done, c)
  BY RanStatic DEF J
<1> HIDE DEF p
<1>10. Course(p, J, Readied(source, done, c), out)
  BY <1>8, <1>9, CourseLess
<1> QED
  BY <1>8, <1>10 DEF p, J

\* A stratum that does not read itself.
LEMMA FlatCourse ==
  ASSUME NEW source, Fits(source), NEW done, NEW c, Placed(source, done, c), IsFiniteSet(c),
         NEW stratum, stratum = StratumOf(source, c), ~ stratum.recursive, NEW out
  PROVE  /\ IsSeq(LowerStratum(stratum))
         /\ Course(LowerStratum(stratum), Between(source, done), Between(source, done \cup c), out)
<1> DEFINE facts == LowerFacts(stratum.facts)
           rules == LowerRules(stratum.rules, "Delta")
           merges == MergeDelta(c)
           sinks == <<Sinks(c)>>
           feeds == MergeTotal(c)
           J == Settling(source, done, c)
           S == Settled(source, done, c)
<1>1. /\ stratum.relations = c /\ IsSeq(stratum.rules)
      /\ ToSet(stratum.rules) \subseteq ToSet(source.rules)
      /\ \A r \in ToSet(stratum.rules) : r.head.rel \in c
      /\ IsFiniteSet(stratum.facts) /\ stratum.facts \subseteq source.facts
      /\ \A f \in stratum.facts : f.rel \in c
      /\ \A r \in ToSet(stratum.rules) : \A a \in ToSet(r.pos) : a.rel \notin c
  BY StratumRules DEF Fits
<1>2. \A r \in ToSet(source.rules) : r.head.rel \in c => r \in ToSet(stratum.rules)
  BY StratumHas DEF Fits
<1>3. LowerStratum(stratum) = facts \o rules \o merges \o sinks \o feeds
  BY <1>1 DEF LowerStratum, LowerFlatStratum
<1>4. IsSeq(facts) /\ Course(facts, Waiting(source, done, c), Waiting(source, done, c), out)
  BY <1>1, FactsRun
<1>5. IsSeq(rules) /\ Course(rules, Waiting(source, done, c), Readied(source, done, c), out)
  BY <1>1, <1>2, StaticRules
<1>6. Readied(source, done, c) \subseteq J
  <2> SUFFICES ASSUME NEW W \in Readied(source, done, c), NEW i \in Plain(source), i.head.rel \in c
               PROVE  Satisfied(W, i)
    BY DEF Readied, Waiting, Settling
  <2>1. PICK r \in ToSet(source.rules) : RuleOf(source, r, i)
    BY PlainParts
  <2>2. r \in ToSet(stratum.rules)
    BY <1>2, <2>1 DEF RuleOf
  <2>3. Static(i, c)
    BY <1>1, <2>1, <2>2 DEF RuleOf, Static
  <2> QED
    BY <2>3 DEF Readied
<1>7. c \in SUBSET Relations /\ J \in SUBSET Worlds
  BY DEF Placed, Settling, Within
<1>8. \A W \in J, V \in Worlds : Turns(W, V, c) => V \in J
  BY SettlingTurns
<1>9. Spent(J, c) \subseteq S /\ S \subseteq Spent(J, c)
  BY DEF Settled, Settling, Spent
<1>10. IsSeq(merges) /\ Course(merges, Readied(source, done, c), S, out)
  <2> HIDE DEF J, S
  <2>1. IsSeq(merges) /\ Course(merges, J, Spent(J, c), out)
    BY <1>7, <1>8, DeltaMerges
  <2> QED
    BY <1>6, <1>9, <2>1, CourseLess
<1>11. IsSeq(sinks) /\ Course(sinks, S, S, out)
  <2>1. \A W \in S, V \in Worlds : V.rel = W.rel => V \in S
    <3> SUFFICES ASSUME NEW W \in S, NEW V \in Worlds, V.rel = W.rel PROVE V \in S
      OBVIOUS
    <3>1. W \in J /\ \A q \in c : W.rel[<<q, "Delta">>] \subseteq W.rel[<<q, "Total">>]
      BY <1>9 DEF Spent
    <3>2. Turns(W, V, c)
      BY StillTurns
    <3>3. V \in J
      BY <1>8, <3>1, <3>2
    <3>4. V \in Spent(J, c)
      BY <3>1, <3>3 DEF Spent
    <3> QED
      BY <1>9, <3>4
  <2>2. S \in SUBSET Worlds
    BY DEF Settled, Within
  <2> HIDE DEF S
  <2>3. Goes(S, Sinks(c), S, out)
    BY <2>1, <2>2, SinksGo
  <2> QED
    BY <2>3, CourseOne, SeqOne
<1>12. IsSeq(feeds) /\ Course(feeds, S, Between(source, done \cup c), out)
  BY TotalsEnd
<1>13. Between(source, done) \subseteq Waiting(source, done, c)
  BY StratumBegins
<1> HIDE DEF facts, rules, merges, sinks, feeds, J, S
<1>14. ASSUME NEW p, NEW q, IsSeq(p), IsSeq(q), NEW A, NEW B, NEW C,
              Course(p, A, B, out), Course(q, B, C, out)
       PROVE  IsSeq(p \o q) /\ Course(p \o q, A, C, out)
  BY <1>14, CourseConcat, SeqConcat
<1>15. IsSeq(facts \o rules) /\ Course(facts \o rules, Waiting(source, done, c), Readied(source, done, c), out)
  BY <1>4, <1>5, <1>14
<1>16. IsSeq(facts \o rules \o merges) /\ Course(facts \o rules \o merges, Waiting(source, done, c), S, out)
  BY <1>10, <1>14, <1>15
<1>17. /\ IsSeq(facts \o rules \o merges \o sinks)
       /\ Course(facts \o rules \o merges \o sinks, Waiting(source, done, c), S, out)
  BY <1>11, <1>14, <1>16
<1>18. /\ IsSeq(LowerStratum(stratum))
       /\ Course(LowerStratum(stratum), Waiting(source, done, c), Between(source, done \cup c), out)
  BY <1>3, <1>12, <1>14, <1>17
<1> QED
  BY <1>13, <1>18, CourseLess

\* A stratum that does.
LEMMA RecursiveCourse ==
  ASSUME NEW source, Fits(source), NEW done, NEW c, Placed(source, done, c), IsFiniteSet(c),
         NEW stratum, stratum = StratumOf(source, c), stratum.recursive, NEW out
  PROVE  /\ IsSeq(LowerStratum(stratum))
         /\ Course(LowerStratum(stratum), Between(source, done), Between(source, done \cup c), out)
<1> DEFINE inside == {r \in ToSet(stratum.rules) : IsDynamic(r, stratum)}
           dynamic == Keep(stratum.rules, inside)
           static == Keep(stratum.rules, ToSet(stratum.rules) \ inside)
           facts == LowerFacts(stratum.facts)
           rules == LowerRules(static, "Delta")
           heads == {r.head.rel : r \in ToSet(static)}
           merges == MergeDelta(heads)
           loop == <<Loop(LoopBody(stratum, dynamic))>>
           feeds == MergeTotal(c)
           R == Readied(source, done, c)
           S == Settled(source, done, c)
<1>1. /\ stratum.relations = c /\ IsSeq(stratum.rules)
      /\ ToSet(stratum.rules) \subseteq ToSet(source.rules)
      /\ \A r \in ToSet(stratum.rules) : r.head.rel \in c
      /\ IsFiniteSet(stratum.facts) /\ stratum.facts \subseteq source.facts
      /\ \A f \in stratum.facts : f.rel \in c
  BY StratumRules DEF Fits
<1>2. \A r \in ToSet(source.rules) : r.head.rel \in c => r \in ToSet(stratum.rules)
  BY StratumHas DEF Fits
<1>3. LowerStratum(stratum) = facts \o rules \o merges \o loop \o feeds
  BY <1>1 DEF LowerStratum, LowerRecursiveStratum
<1>4. /\ IsSeq(dynamic) /\ ToSet(dynamic) = ToSet(stratum.rules) \cap inside
      /\ IsSeq(static) /\ ToSet(static) = ToSet(stratum.rules) \cap (ToSet(stratum.rules) \ inside)
  <2>1. stratum.rules \in Seq(ToSet(stratum.rules))
    BY <1>1 DEF IsSeq
  <2> HIDE DEF inside
  <2> QED
    BY <2>1, KeepType, KeepRange DEF IsSeq
<1>5. /\ ToSet(dynamic) \subseteq ToSet(stratum.rules)
      /\ \A r \in ToSet(source.rules) :
           r.head.rel \in c /\ (\E a \in ToSet(r.pos) : a.rel \in c) => r \in ToSet(dynamic)
  BY <1>1, <1>2, <1>4 DEF IsDynamic
<1>6. /\ ToSet(static) \subseteq ToSet(source.rules)
      /\ \A r \in ToSet(static) : r.head.rel \in c /\ \A a \in ToSet(r.pos) : a.rel \notin c
      /\ \A r \in ToSet(source.rules) :
           r.head.rel \in c /\ (\A a \in ToSet(r.pos) : a.rel \notin c) => r \in ToSet(static)
  BY <1>1, <1>2, <1>4 DEF IsDynamic
<1>7. heads \in SUBSET c
  BY <1>6
<1> HIDE DEF inside, dynamic, static, heads
<1>8. IsSeq(facts) /\ Course(facts, Waiting(source, done, c), Waiting(source, done, c), out)
  BY <1>1, FactsRun
<1>9. IsSeq(rules) /\ Course(rules, Waiting(source, done, c), R, out)
  BY <1>4, <1>6, StaticRules
<1>10. IsSeq(merges) /\ Course(merges, R, R, out)
  <2>1. \A W \in R, V \in Worlds : Turns(W, V, c) => V \in R
    BY ReadiedStays DEF Turns
  <2>2. c \in SUBSET Relations /\ R \in SUBSET Worlds
    BY DEF Placed, Readied, Waiting, Within
  <2>3. IsFiniteSet(heads)
    BY <1>7, FS_Subset
  <2> HIDE DEF R
  <2>4. IsSeq(merges) /\ Course(merges, R, Spent(R, heads), out)
    BY <1>7, <2>1, <2>2, <2>3, DeltaMerges
  <2>5. Spent(R, heads) \subseteq R
    BY DEF Spent
  <2> HIDE DEF merges
  <2> QED
    BY <2>4, <2>5, CourseLess
<1>11. IsSeq(loop) /\ Course(loop, R, S, out)
  <2>1. Goes(R, Loop(LoopBody(stratum, dynamic)), S, out)
    BY <1>4, <1>5, LoopGoes
  <2> HIDE DEF R, S
  <2> QED
    BY <2>1, CourseOne, SeqOne
<1>12. IsSeq(feeds) /\ Course(feeds, S, Between(source, done \cup c), out)
  BY TotalsEnd
<1>13. Between(source, done) \subseteq Waiting(source, done, c)
  BY StratumBegins
<1> HIDE DEF facts, rules, merges, loop, feeds, R, S
<1>14. ASSUME NEW p, NEW q, IsSeq(p), IsSeq(q), NEW A, NEW B, NEW C,
              Course(p, A, B, out), Course(q, B, C, out)
       PROVE  IsSeq(p \o q) /\ Course(p \o q, A, C, out)
  BY <1>14, CourseConcat, SeqConcat
<1>15. IsSeq(facts \o rules) /\ Course(facts \o rules, Waiting(source, done, c), R, out)
  BY <1>8, <1>9, <1>14
<1>16. IsSeq(facts \o rules \o merges) /\ Course(facts \o rules \o merges, Waiting(source, done, c), R, out)
  BY <1>10, <1>14, <1>15
<1>17. /\ IsSeq(facts \o rules \o merges \o loop)
       /\ Course(facts \o rules \o merges \o loop, Waiting(source, done, c), S, out)
  BY <1>11, <1>14, <1>16
<1>18. /\ IsSeq(LowerStratum(stratum))
       /\ Course(LowerStratum(stratum), Waiting(source, done, c), Between(source, done \cup c), out)
  BY <1>3, <1>12, <1>14, <1>17
<1> QED
  BY <1>13, <1>18, CourseLess

-----------------------------------------------------------------------------
(* The whole program.                                                       *)

\* Between two epochs what is known has no consequence that is missed, except
\* of rules that search nothing, before the first one.
Rested(source) == {W \in Worlds : \A i \in Plain(source) : i.pos # {} => Satisfied(W, i)}
Ended(source) == {W \in Worlds : \A i \in Plain(source) : Satisfied(W, i)}

\* ... and when the strata are over, what they hold is in Total.
Ending(source) ==
  {W \in Ended(source) : \A q \in IdbNodes(source) : W.rel[<<q, "Delta">>] \subseteq W.rel[<<q, "Total">>]}

\* Each stratum is placed after those that are done.
LEMMA StrataPlaced ==
  ASSUME NEW source, Fits(source), Stratifiable(source), NEW s, NEW n \in Nat, IsOrder(source, s, n),
         NEW k \in 1..n
  PROVE  /\ Placed(source, Done(s, k), s[k]) /\ IsFiniteSet(s[k])
         /\ Done(s, k + 1) = Done(s, k) \cup s[k]
<1>1. \A i \in 1..n : s[i] \in Components(source) /\ s[i] \subseteq source.idb /\ IsFiniteSet(s[i])
  BY ComponentOutputs DEF IsOrder, Fits
<1>2. source.idb \subseteq Relations /\ source.edb \subseteq Relations /\ source.edb \cap source.idb = {}
      /\ IdbNodes(source) \subseteq source.idb
  BY NodesAreOutputs DEF Fits, Proper
<1>3. \A j : j \in 1..(k - 1) => j \in 1..n /\ j # k
  OBVIOUS
<1>4. Done(s, k) \cap s[k] = {}
  BY <1>3 DEF Done, IsOrder
<1>5. Done(s, k + 1) = Done(s, k) \cup s[k]
  <2>1. \A j : j \in 1..((k + 1) - 1) <=> j \in 1..(k - 1) \/ j = k
    OBVIOUS
  <2> QED
    BY <2>1 DEF Done
<1>6. Done(s, k) \subseteq source.idb
  BY <1>1, <1>3 DEF Done
<1>7. ASSUME NEW i \in Plain(source), i.head.rel \in Done(s, k), NEW p \in i.pos \cup i.neg PROVE p.rel \notin s[k]
  <2>1. PICK j \in 1..(k - 1) : i.head.rel \in s[j]
    BY <1>7 DEF Done
  <2>2. PICK d \in Dependencies(source) : d.from = p.rel /\ d.to = i.head.rel
    BY <1>7, PlainReads
  <2>3. SUFFICES ASSUME p.rel \in s[k] PROVE FALSE
    OBVIOUS
  <2>4. p.rel \in IdbNodes(source)
    BY <1>1, <1>2, <1>7, <2>3, PlainReads
  <2>5. d.from \in Done(s, j) \cup s[j]
    BY <1>3, <2>1, <2>2, <2>4 DEF IsOrder
  <2>6. PICK m \in 1..j : p.rel \in s[m]
    <3>1. \A m \in 1..(j - 1) : m \in 1..j
      BY <2>1
    <3>2. j \in 1..j
      BY <2>1
    <3> QED
      BY <2>2, <2>5, <3>1, <3>2 DEF Done
  <2>7. m \in 1..n /\ m # k
    BY <2>1, <2>6
  <2> QED
    BY <2>3, <2>6, <2>7 DEF IsOrder
<1>8. ASSUME NEW i \in Plain(source), i.head.rel \in s[k], NEW p \in i.neg PROVE p.rel \notin s[k]
  <2>1. PICK d \in Dependencies(source) : d.from = p.rel /\ d.to = i.head.rel /\ ~ d.positive
    BY PlainReads
  <2> QED
    BY <1>1, <1>8, <2>1 DEF Stratifiable
<1>9. ASSUME NEW i \in Plain(source)
      PROVE  /\ i.head \in Facts /\ i.head.rel \in Relations
             /\ \A p \in i.pos \cup i.neg : p.rel \in Relations
  BY <1>2, PlainReads
<1>10. s[k] \subseteq Relations /\ Done(s, k) \subseteq Relations
  BY <1>1, <1>2, <1>6
<1>11. Placed(source, Done(s, k), s[k])
  BY <1>4, <1>7, <1>8, <1>9, <1>10 DEF Placed
<1> QED
  BY <1>1, <1>5, <1>11

\* The inputs are the news of the first stratum.
LEMMA SourcesBegin ==
  ASSUME NEW source, Fits(source), NEW out
  PROVE  Goes(Rested(source), Sources(source.edb), Between(source, {}), out)
<1> DEFINE s == Sources(source.edb)
<1>1. s.op = "sources" /\ s.relations = source.edb
  BY DEF Sources
<1> HIDE DEF s
<1>2. ASSUME NEW W \in Rested(source), NEW V \in Worlds, Makes(s, W, V) PROVE V \in Between(source, {})
  <2>1. \A q \in Relations : /\ W.rel[<<q, "Delta">>] \subseteq V.rel[<<q, "Delta">>]
                             /\ W.rel[<<q, "Total">>] = V.rel[<<q, "Total">>]
    <3> SUFFICES ASSUME NEW q \in Relations
                 PROVE  /\ W.rel[<<q, "Delta">>] \subseteq V.rel[<<q, "Delta">>]
                        /\ W.rel[<<q, "Total">>] = V.rel[<<q, "Total">>]
      OBVIOUS
    <3>1. <<q, "Delta">> \in Keys /\ <<q, "Total">> \in Keys /\ <<q, "Total">>[2] # "Delta"
      BY DEF Keys, Versions
    <3> QED
      BY <1>1, <1>2, <3>1 DEF Makes
  <2>2. ASSUME NEW i \in Plain(source), i.pos # {},
               \A p \in i.pos : Sees(V, p, "Total"), Open(V, i)
        PROVE  Has(V, i)
    <3>1. i.head.rel \in Relations /\ \A p \in i.pos \cup i.neg : p.rel \in Relations
      <4>1. source.edb \cup IdbNodes(source) \subseteq Relations
        BY NodesAreOutputs DEF Fits
      <4> QED
        BY <4>1, PlainReads
    <3>2. \A p \in i.pos : Seen(W, p)
      BY <2>1, <2>2, <3>1 DEF Seen, Sees
    <3>3. Open(W, i)
      BY <2>1, <2>2, <3>1 DEF Open, Seen, Sees
    <3>4. Has(W, i)
      BY <2>2, <3>2, <3>3 DEF Rested, Satisfied
    <3> QED
      BY <2>1, <3>1, <3>4 DEF Has
  <2>3. \A i \in Plain(source) : Old(V, i)
    BY <2>2 DEF Old
  <2> QED
    BY <2>3 DEF Between, Within
<1>3. Carries(Rested(source), s, Between(source, {}), out)
  BY <1>1, <1>2 DEF Carries
<1> QED
  BY <1>1, <1>3 DEF Goes, s

\* The strata, one after the other.
LEMMA StrataCourse ==
  ASSUME NEW source, Fits(source), Stratifiable(source), NEW strata \in StrataOrders(source), NEW out
  PROVE  Course(FlattenSeq(LoweredStrata(strata)), Between(source, {}), Ending(source), out)
<1> DEFINE seqs == LoweredStrata(strata)
           n == Len(strata)
<1>1. /\ IsSeq(seqs) /\ Len(seqs) = n /\ n \in Nat
      /\ \A i \in 1..n : seqs[i] = LowerStratum(strata[i])
  <2>1. /\ IsSeq(seqs) /\ Len(seqs) = n
        /\ \A i \in 1..n : \E c \in Components(source) : seqs[i] = LowerStratum(strata[i])
    BY LoweredStrataParts DEF Fits
  <2> QED
    BY <2>1, SeqParts
<1>2. PICK s : IsOrder(source, s, n) /\ \A i \in 1..n : strata[i] = StratumOf(source, s[i])
  BY StrataOrdered DEF Fits
<1> DEFINE T == [i \in 1..(n + 1) |-> Between(source, Done(s, i))]
<1> HIDE DEF seqs, n
<1>3. ASSUME NEW i \in 1..Len(seqs) PROVE IsSeq(seqs[i]) /\ Course(seqs[i], T[i], T[i + 1], out)
  <2>1. i \in 1..n /\ i \in 1..(n + 1) /\ i + 1 \in 1..(n + 1)
    BY <1>1
  <2>2. /\ Placed(source, Done(s, i), s[i]) /\ IsFiniteSet(s[i])
        /\ Done(s, i + 1) = Done(s, i) \cup s[i]
    BY <1>1, <1>2, <2>1, StrataPlaced
  <2>3. T[i] = Between(source, Done(s, i)) /\ T[i + 1] = Between(source, Done(s, i) \cup s[i])
    BY <2>1, <2>2
  <2>4. strata[i] = StratumOf(source, s[i]) /\ seqs[i] = LowerStratum(strata[i])
    BY <1>1, <1>2, <2>1
  <2> HIDE DEF T
  <2>5. /\ IsSeq(LowerStratum(strata[i]))
        /\ Course(LowerStratum(strata[i]), Between(source, Done(s, i)), Between(source, Done(s, i) \cup s[i]), out)
    <3>1. CASE strata[i].recursive
      BY <2>2, <2>4, <3>1, RecursiveCourse
    <3>2. CASE ~ strata[i].recursive
      BY <2>2, <2>4, <3>2, FlatCourse
    <3> QED
      BY <3>1, <3>2
  <2> QED
    BY <2>3, <2>4, <2>5
<1>4. T[1] = Between(source, {}) /\ T[n + 1] = Between(source, Done(s, n + 1))
  <2>1. 1 \in 1..(n + 1) /\ n + 1 \in 1..(n + 1)
    BY <1>1
  <2>2. Done(s, 1) = {}
    BY DEF Done
  <2> QED
    BY <2>1, <2>2
<1> HIDE DEF T
<1>5. Course(FlattenSeq(seqs), T[1], T[n + 1], out)
  BY <1>1, <1>3, CourseFlatten
<1>6. T[n + 1] \subseteq Ending(source)
  <2> SUFFICES ASSUME NEW W \in Between(source, Done(s, n + 1)) PROVE W \in Ending(source)
    BY <1>4
  <2>1. IdbNodes(source) \subseteq Done(s, n + 1)
    BY <1>2 DEF IsOrder
  <2>2. \A i \in Plain(source) : Satisfied(W, i)
    BY <2>1, PlainReads DEF Between, Within
  <2>3. \A q \in IdbNodes(source) : W.rel[<<q, "Delta">>] \subseteq W.rel[<<q, "Total">>]
    BY <2>1 DEF Between, Within
  <2> QED
    BY <2>2, <2>3 DEF Ending, Ended, Between, Within
<1>7. Course(FlattenSeq(seqs), Between(source, {}), Ending(source), out)
  BY <1>4, <1>5, <1>6, CourseLess
<1> QED
  BY <1>7 DEF seqs

\* At the end nothing known of what is read or derived is forgotten.
LEMMA EndingStays ==
  ASSUME NEW source, Fits(source), NEW W \in Ending(source), NEW V \in Worlds,
         \A q \in source.edb \cup IdbNodes(source) : Knows(V, q) = Knows(W, q),
         \A q \in IdbNodes(source) : V.rel[<<q, "Delta">>] \subseteq V.rel[<<q, "Total">>]
  PROVE  V \in Ending(source)
<1>1. ASSUME NEW i \in Plain(source) PROVE Satisfied(V, i)
  <2>1. /\ Knows(V, i.head.rel) = Knows(W, i.head.rel)
        /\ \A p \in i.pos \cup i.neg : Knows(V, p.rel) = Knows(W, p.rel)
    BY PlainReads
  <2>2. \A p \in i.pos \cup i.neg : Seen(V, p) <=> Seen(W, p)
    BY <2>1, SeenIs
  <2>3. \A U : Has(U, i) <=> i.head \in Knows(U, i.head.rel)
    BY DEF Has, Knows
  <2>4. Satisfied(W, i)
    BY DEF Ending, Ended
  <2> QED
    BY <2>1, <2>2, <2>3, <2>4 DEF Satisfied, Open
<1> QED
  BY <1>1 DEF Ending, Ended

\* The inputs are merged into Total, and their Delta is emptied.
LEMMA InputGoes ==
  ASSUME NEW source, Fits(source), NEW x \in source.edb, NEW out
  PROVE  IsSeq(MergeInput(x)) /\ Course(MergeInput(x), Ending(source), Ending(source), out)
<1> DEFINE m == Merge(Key(x, "Delta"), Key(x, "Total"))
           p == Purge(Key(x, "Delta"))
           E == Ending(source)
           M == {W \in E : W.rel[<<x, "Delta">>] \subseteq W.rel[<<x, "Total">>]}
<1>0. /\ source.edb \cup IdbNodes(source) \subseteq Relations /\ x \in Relations
      /\ x \notin IdbNodes(source) /\ E \in SUBSET Worlds
  BY NodesAreOutputs DEF Fits, Proper, Ending, Ended
<1>1. m.op = "merge" /\ p.op = "purge" /\ p.key = <<x, "Delta">>
  BY DEF Merge, Purge, Key
<1> HIDE DEF p
<1>2. ASSUME NEW W \in E, NEW V \in Worlds, Makes(m, W, V) PROVE V \in M
  <2>1. PICK u, v : u = "Delta" /\ v = "Total" /\ u \in Versions /\ v \in Versions
    BY DEF Versions
  <2>2. Makes(Merge(Key(x, u), Key(x, v)), W, V)
    BY <1>2, <2>1
  <2>3. /\ V.rel[<<x, v>>] = W.rel[<<x, v>>] \cup W.rel[<<x, u>>]
        /\ \A y \in Relations, w \in Versions : y # x \/ w # v => V.rel[<<y, w>>] = W.rel[<<y, w>>]
    BY <1>0, <2>1, <2>2, MergeMakes
  <2>4. /\ V.rel[<<x, "Total">>] = W.rel[<<x, "Total">>] \cup W.rel[<<x, "Delta">>]
        /\ V.rel[<<x, "Delta">>] = W.rel[<<x, "Delta">>]
        /\ \A y \in Relations, w \in Versions : y # x => V.rel[<<y, w>>] = W.rel[<<y, w>>]
    BY <1>0, <2>1, <2>3
  <2>5. \A q \in source.edb \cup IdbNodes(source) : Knows(V, q) = Knows(W, q)
    BY <1>0, <2>4 DEF Knows, Versions
  <2>6. \A q \in IdbNodes(source) : V.rel[<<q, "Delta">>] \subseteq V.rel[<<q, "Total">>]
    BY <1>0, <2>4 DEF Ending, Versions
  <2>7. V \in E
    BY <2>5, <2>6, EndingStays
  <2> QED
    BY <2>4, <2>7
<1> HIDE DEF m
<1>3. ASSUME NEW W \in M, NEW V \in Worlds, Makes(p, W, V) PROVE V \in E
  <2>1. V.rel[<<x, "Delta">>] = {} /\ SameBut(W, V, {<<x, "Delta">>})
    BY <1>1, <1>3 DEF Makes
  <2>2. ASSUME NEW y \in Relations, NEW w \in Versions, y # x \/ w # "Delta"
        PROVE  V.rel[<<y, w>>] = W.rel[<<y, w>>]
    <3>1. <<y, w>> \in Keys \ {<<x, "Delta">>}
      BY <2>2 DEF Keys
    <3> QED
      BY <2>1, <3>1 DEF SameBut
  <2>3. \A q \in source.edb \cup IdbNodes(source) : Knows(V, q) = Knows(W, q)
    BY <1>0, <2>1, <2>2 DEF Knows, Versions
  <2>4. \A q \in IdbNodes(source) : V.rel[<<q, "Delta">>] \subseteq V.rel[<<q, "Total">>]
    BY <1>0, <2>2 DEF Ending, Versions
  <2> QED
    BY <2>3, <2>4, EndingStays
<1> HIDE DEF E, M
<1>4. Goes(E, m, M, out) /\ Goes(M, p, E, out)
  BY <1>1, <1>2, <1>3 DEF Goes, Carries
<1>5. IsSeq(<<m>>) /\ IsSeq(<<p>>) /\ Course(<<m>>, E, M, out) /\ Course(<<p>>, M, E, out)
  BY <1>4, CourseOne, SeqOne
<1>6. IsSeq(<<m>> \o <<p>>) /\ Course(<<m>> \o <<p>>, E, E, out)
  BY <1>5, CourseConcat, SeqConcat
<1>7. MergeInput(x) = <<m>> \o <<p>>
  BY DEF MergeInput, m, p
<1> QED
  BY <1>6, <1>7 DEF E

\* All the inputs.
LEMMA InputsCourse ==
  ASSUME NEW source, Fits(source), NEW out
  PROVE  LET p == FlattenSeq(ForEach(source.edb, MergeInput))
         IN  IsSeq(p) /\ Course(p, Ending(source), Ending(source), out)
<1> DEFINE R == source.edb
           F == [q \in R |-> MergeInput(q)]
           order == SetToSeq(R)
           E == Ending(source)
           T == [D \in SUBSET R |-> E]
           p == ForEach(R, MergeInput)
<1>1. IsFiniteSet(R)
  <2>1. IsFiniteSet(source.edb \cup source.idb) /\ R \subseteq source.edb \cup source.idb
    BY DEF Fits, Proper
  <2> QED
    BY <2>1, FS_Subset
<1>2. p = [i \in DOMAIN order |-> F[order[i]]]
  <2>1. \A i \in DOMAIN order : order[i] \in R
    BY <1>1, SetToSeqIs DEF ToSet
  <2>2. p = [i \in DOMAIN order |-> MergeInput(order[i])]
    BY DEF ForEach
  <2> QED
    BY <2>1, <2>2
<1>3. ASSUME NEW D \in SUBSET R, NEW x \in R \ D PROVE IsSeq(F[x]) /\ Course(F[x], T[D], T[D \cup {x}], out)
  <2>1. T[D] = E /\ T[D \cup {x}] = E /\ F[x] = MergeInput(x)
    OBVIOUS
  <2>2. IsSeq(MergeInput(x)) /\ Course(MergeInput(x), E, E, out)
    BY InputGoes
  <2> QED
    BY <2>1, <2>2
<1>4. T[{}] = E /\ T[R] = E
  OBVIOUS
<1>5. IsSeq(FlattenSeq(p))
  BY <1>1, MergeInputsParts
<1> HIDE DEF F, T, p, E, R
<1>6. Course(FlattenSeq(p), T[{}], T[R], out)
  BY <1>1, <1>2, <1>3, CourseOfEach
<1> QED
  BY <1>4, <1>5, <1>6 DEF p, E, R

\* The Deltas of the outputs are emptied.
LEMMA LastPurges ==
  ASSUME NEW source, Fits(source), NEW out
  PROVE  LET p == ForEach(source.idb, LAMBDA r : Purge(Key(r, "Delta")))
         IN  IsSeq(p) /\ Course(p, Ending(source), Ending(source), out)
<1> DEFINE R == source.idb
           S(q) == Purge(Key(q, "Delta"))
           F == [q \in R |-> S(q)]
           order == SetToSeq(R)
           E == Ending(source)
           T == [D \in SUBSET R |-> E]
           p == ForEach(R, LAMBDA r : Purge(Key(r, "Delta")))
<1>1. IsFiniteSet(R)
  <2>1. IsFiniteSet(source.edb \cup source.idb) /\ R \subseteq source.edb \cup source.idb
    BY DEF Fits, Proper
  <2> QED
    BY <2>1, FS_Subset
<1>2. p = [i \in DOMAIN order |-> F[order[i]]]
  <2>1. \A i \in DOMAIN order : order[i] \in R
    BY <1>1, SetToSeqIs DEF ToSet
  <2>2. p = [i \in DOMAIN order |-> Purge(Key(order[i], "Delta"))]
    BY DEF ForEach
  <2> QED
    BY <2>1, <2>2
<1>3. /\ source.edb \cup source.idb \subseteq Relations /\ source.edb \cap source.idb = {}
      /\ IdbNodes(source) \subseteq source.idb
  BY NodesAreOutputs DEF Fits, Proper
<1>4. ASSUME NEW D \in SUBSET R, NEW x \in R \ D PROVE Goes(T[D], F[x], T[D \cup {x}], out)
  <2>1. T[D] = E /\ T[D \cup {x}] = E /\ F[x] = S(x) /\ x \in R
    OBVIOUS
  <2>2. S(x).op = "purge" /\ S(x).key = <<x, "Delta">>
    BY DEF Purge, Key
  <2> HIDE DEF S, F, T
  <2>3. ASSUME NEW W \in E, NEW V \in Worlds, Makes(S(x), W, V) PROVE V \in E
    <3>1. V.rel[<<x, "Delta">>] = {} /\ SameBut(W, V, {<<x, "Delta">>})
      BY <2>2, <2>3 DEF Makes
    <3>2. ASSUME NEW y \in Relations, NEW w \in Versions, y # x \/ w # "Delta"
          PROVE  V.rel[<<y, w>>] = W.rel[<<y, w>>]
      <4>1. <<y, w>> \in Keys \ {<<x, "Delta">>}
        BY <3>2 DEF Keys
      <4> QED
        BY <3>1, <4>1 DEF SameBut
    <3>3. ASSUME NEW q \in source.edb \cup IdbNodes(source)
          PROVE  /\ Knows(V, q) = Knows(W, q)
                 /\ q \in IdbNodes(source) => V.rel[<<q, "Delta">>] \subseteq V.rel[<<q, "Total">>]
      <4>1. CASE q # x
        BY <1>3, <3>2, <4>1 DEF Knows, Versions, Ending
      <4>2. CASE q = x
        <5>1. q \in IdbNodes(source) /\ q \in Relations
          BY <1>3, <4>2
        <5>2. W.rel[<<q, "Delta">>] \subseteq W.rel[<<q, "Total">>]
          BY <5>1 DEF Ending
        <5>3. V.rel[<<q, "Delta">>] = {} /\ V.rel[<<q, "Total">>] = W.rel[<<q, "Total">>]
          BY <3>1, <3>2, <4>2, <5>1 DEF Versions
        <5> QED
          BY <5>2, <5>3 DEF Knows
      <4> QED
        BY <4>1, <4>2
    <3>4. /\ \A q \in source.edb \cup IdbNodes(source) : Knows(V, q) = Knows(W, q)
          /\ \A q \in IdbNodes(source) : V.rel[<<q, "Delta">>] \subseteq V.rel[<<q, "Total">>]
      BY <3>3
    <3> QED
      BY <3>4, EndingStays
  <2>4. Carries(E, S(x), E, out)
    BY <2>2, <2>3 DEF Carries
  <2> QED
    BY <2>1, <2>2, <2>4 DEF Goes
<1>5. T[{}] = E /\ T[R] = E
  OBVIOUS
<1> HIDE DEF F, T, p, E, R
<1>6. IsSeq(p) /\ Course(p, T[{}], T[R], out)
  BY <1>1, <1>2, <1>4, CourseOfSome
<1> QED
  BY <1>5, <1>6 DEF p, E, R

\* A program leads from rest to rest, whatever inputs it takes, and after it no
\* instance of a rule without aggregations has been missed.
LEMMA CodeCourse ==
  ASSUME NEW source, Fits(source), Stratifiable(source), NEW strata \in StrataOrders(source), NEW out
  PROVE  Course(LowerToRam(source, strata), Rested(source), Ended(source), out)
<1> DEFINE sources == <<Sources(source.edb)>>
           body == FlattenSeq(LoweredStrata(strata))
           inputs == FlattenSeq(ForEach(source.edb, MergeInput))
           purges == ForEach(source.idb, LAMBDA r : Purge(Key(r, "Delta")))
           E == Ending(source)
<1>1. LowerToRam(source, strata) = sources \o body \o inputs \o purges
  BY DEF LowerToRam, LoweredStrata
<1>2. IsSeq(sources) /\ Course(sources, Rested(source), Between(source, {}), out)
  BY SourcesBegin, CourseOne, SeqOne
<1>3. Course(body, Between(source, {}), E, out)
  BY StrataCourse
<1>4. IsSeq(body)
  <2>1. /\ IsSeq(LoweredStrata(strata)) /\ Len(LoweredStrata(strata)) = Len(strata)
        /\ \A i \in 1..Len(strata) : \E c : IsStratum(LoweredStrata(strata)[i], c)
    BY LoweredStrataParts DEF Fits
  <2> QED
    BY <2>1, FlattenRange DEF IsStratum
<1>5. IsSeq(inputs) /\ Course(inputs, E, E, out)
  BY InputsCourse
<1>6. IsSeq(purges) /\ Course(purges, E, E, out)
  BY LastPurges
<1>7. E \subseteq Ended(source)
  BY DEF Ending
<1> HIDE DEF sources, body, inputs, purges, E
<1>8. ASSUME NEW p, NEW q, IsSeq(p), IsSeq(q), NEW A, NEW B, NEW C,
             Course(p, A, B, out), Course(q, B, C, out)
      PROVE  IsSeq(p \o q) /\ Course(p \o q, A, C, out)
  BY <1>8, CourseConcat, SeqConcat
<1>9. IsSeq(sources \o body) /\ Course(sources \o body, Rested(source), E, out)
  BY <1>2, <1>3, <1>4, <1>8
<1>10. IsSeq(sources \o body \o inputs) /\ Course(sources \o body \o inputs, Rested(source), E, out)
  BY <1>5, <1>8, <1>9
<1>11. Course(sources \o body \o inputs \o purges, Rested(source), E, out)
  BY <1>6, <1>8, <1>10
<1> QED
  BY <1>1, <1>7, <1>11, CourseLess

-----------------------------------------------------------------------------
(* The machine along a course.                                              *)

\* The world the machine is in, and the one its step makes of it before the
\* clock moves.
World == [rel |-> rel, sunk |-> sunk, epoch |-> timestamp.epoch]
Made == [rel |-> rel', sunk |-> sunk', epoch |-> timestamp.epoch]

\* A sequence over a set is one over a larger set.
LEMMA SeqLess ==
  ASSUME NEW A, NEW B, A \subseteq B, NEW s \in Seq(A)
  PROVE  s \in Seq(B)
OBVIOUS

\* A world of the machine's types.
LEMMA WorldOf ==
  ASSUME NEW R \in [Keys -> SUBSET Facts], NEW s \in [Facts -> Seq(0..(TimestampMod - 1))],
         NEW e \in 0..(TimestampMod - 1)
  PROVE  [rel |-> R, sunk |-> s, epoch |-> e] \in Worlds
<1>1. e \in Nat /\ 0..(TimestampMod - 1) \subseteq Nat
  BY ConstantAssumption
<1>2. \A f \in Facts : s[f] \in Seq(Nat)
  BY <1>1, SeqLess
<1>3. s \in [Facts -> Seq(Nat)]
  BY <1>2
<1> QED
  BY <1>1, <1>3 DEF Worlds

\* The machine is in a world ...
LEMMA WorldIs ==
  ASSUME IInv
  PROVE  World \in Worlds
<1>1. /\ rel \in [Keys -> SUBSET Facts] /\ sunk \in [Facts -> Seq(0..(TimestampMod - 1))]
      /\ timestamp.epoch \in 0..(TimestampMod - 1)
  BY DEF IInv, TypeOK
<1> QED
  BY <1>1, WorldOf DEF World

\* ... and its step makes one of it.
LEMMA MadeIs ==
  ASSUME IInv, Step
  PROVE  Made \in Worlds
<1>1. IInv'
  BY NextInv DEF Next
<1>2. /\ rel' \in [Keys -> SUBSET Facts] /\ sunk' \in [Facts -> Seq(0..(TimestampMod - 1))]
      /\ timestamp.epoch \in 0..(TimestampMod - 1)
  BY <1>1 DEF IInv, TypeOK
<1>3. [rel |-> rel', sunk |-> sunk', epoch |-> timestamp.epoch] \in Worlds
  BY ONLY <1>2, WorldOf
<1> QED
  BY <1>3 DEF Made

\* A row is reached in the machine exactly when it is in its world.
LEMMA ReachedIs ==
  ASSUME NEW row
  PROVE  Reached(row) <=> ReachedIn(World, row)
BY DEF Reached, ReachedIn, Occurs, Sees, World

\* What insert.rs does to the relations: rows that fire, ground ones in the
\* first cycle.
LEMMA InsertMakes ==
  ASSUME IInv, HandleInsert, Made \in Worlds
  PROVE  Makes(Current, World, Made)
<1> DEFINE s == Current
           X == IF s.ground /\ ~ FirstCycle THEN {} ELSE {row.head : row \in {r \in s.rows : Fires(r)}}
<1>1. s.op = "insert" /\ s.into \in Keys /\ \A row \in s.rows : row.head \in Facts
  BY AtStatement DEF HandleInsert, At, SimpleStatement
<1>2. rel \in [Keys -> SUBSET Facts] /\ sunk' = sunk
  BY DEF IInv, TypeOK, HandleInsert
<1>3. rel' = [rel EXCEPT ![s.into] = @ \cup X]
  <2>1. CASE s.ground /\ ~ FirstCycle
    <3>1. rel' = rel /\ X = {}
      BY <2>1 DEF HandleInsert
    <3>2. [rel EXCEPT ![s.into] = @ \cup {}] = rel
      BY <1>1, <1>2
    <3> QED
      BY <3>1, <3>2
  <2>2. CASE ~ (s.ground /\ ~ FirstCycle)
    BY <2>2 DEF HandleInsert
  <2> QED
    BY <2>1, <2>2
<1>4. X \in SUBSET Facts
  BY <1>1
<1>5. \A f \in X : \E row \in s.rows : f = row.head /\ ReachedIn(World, row)
  BY ReachedIs DEF Fires
<1>6. s.ground /\ timestamp.epoch # 0 => X = {}
  BY DEF FirstCycle, ClockStart
<1>7. ASSUME ~ s.ground, NEW row \in s.rows, row.aggs = {}, ReachedIn(World, row) PROVE row.head \in X
  <2>1. Fires(row)
    BY <1>7, ReachedIs DEF Fires
  <2> QED
    BY <1>7, <2>1
<1> HIDE DEF X
<1>8. rel'[s.into] = rel[s.into] \cup X /\ \A k \in Keys \ {s.into} : rel'[k] = rel[k]
  BY <1>1, <1>2, <1>3
<1>9. World.rel = rel /\ Made.rel = rel' /\ World.sunk = sunk /\ Made.sunk = sunk' /\ World.epoch = timestamp.epoch
      /\ Made.epoch = timestamp.epoch
  BY DEF World, Made
<1>10. Inserts(s, World, Made)
  BY <1>4, <1>5, <1>6, <1>7, <1>8, <1>9 DEF Inserts, SameBut
<1> HIDE DEF s
<1>11. Makes(s, World, Made)
  BY <1>1, <1>2, <1>9, <1>10 DEF Makes
<1> QED
  BY <1>11 DEF s

\* What sources.rs does: inputs go to the Delta of a source.
LEMMA SourcesMake ==
  ASSUME IInv, HandleSources, Made \in Worlds
  PROVE  Makes(Current, World, Made)
<1> DEFINE s == Current
<1>1. s.op = "sources" /\ sunk' = sunk
  BY DEF HandleSources, At
<1>2. \A k \in Keys : rel'[k] = IF k[2] = "Delta" THEN rel[k] \cup Given(k[1]) ELSE rel[k]
  BY DEF HandleSources
<1>3. \A i \in DOMAIN input : input[i].rel \in s.relations
  BY <1>1 DEF HandleSources, At, Fault, SourceFault
<1>4. \A q : q \notin s.relations => Given(q) = {}
  BY <1>3 DEF Given
<1>5. World.rel = rel /\ Made.rel = rel' /\ World.sunk = sunk /\ Made.sunk = sunk' /\ World.epoch = timestamp.epoch
      /\ Made.epoch = timestamp.epoch
  BY DEF World, Made
<1> HIDE DEF s
<1>6. ASSUME NEW k \in Keys
      PROVE rel[k] \subseteq rel'[k] /\ (rel'[k] = rel[k] \/ (k[2] = "Delta" /\ k[1] \in s.relations))
  <2>1. CASE k[2] # "Delta"
    BY <1>2, <2>1
  <2>2. CASE k[2] = "Delta" /\ k[1] \in s.relations
    BY <1>2, <2>2
  <2>3. CASE k[2] = "Delta" /\ k[1] \notin s.relations
    BY <1>2, <1>4, <2>3
  <2> QED
    BY <2>1, <2>2, <2>3
<1>7. Makes(s, World, Made)
  BY <1>1, <1>5, <1>6 DEF Makes
<1> QED
  BY <1>7 DEF s

\* A step of the machine makes what its statement makes of the world.
LEMMA StepMakes ==
  ASSUME IInv, Step
  PROVE  World \in Worlds /\ Made \in Worlds /\ Makes(Current, World, Made)
<1>1. World \in Worlds /\ Made \in Worlds
  BY WorldIs, MadeIs
<1> DEFINE s == Current
<1>2. rel \in [Keys -> SUBSET Facts] /\ sunk \in [Facts -> Seq(0..(TimestampMod - 1))]
  BY DEF IInv, TypeOK
<1>3. SimpleStatement(s)
  BY AtStatement
<1>4. World.rel = rel /\ Made.rel = rel' /\ World.sunk = sunk /\ Made.sunk = sunk' /\ World.epoch = timestamp.epoch
      /\ Made.epoch = timestamp.epoch
  BY DEF World, Made
<1>5. CASE HandleSources
  BY <1>1, <1>5, SourcesMake
<1>6. CASE HandleInsert
  BY <1>1, <1>6, InsertMakes
<1>7. CASE HandleMerge
  <2>1. s.op = "merge" /\ sunk' = sunk /\ rel' = [rel EXCEPT ![s.into] = @ \cup rel[s.from]]
    BY <1>7 DEF HandleMerge, At
  <2>2. s.into \in Keys
    BY <1>3, <2>1 DEF SimpleStatement
  <2> HIDE DEF s
  <2>3. rel'[s.into] = rel[s.into] \cup rel[s.from] /\ \A k \in Keys \ {s.into} : rel'[k] = rel[k]
    BY <1>2, <2>1, <2>2
  <2>4. Makes(s, World, Made)
    BY <1>4, <2>1, <2>3 DEF Makes, SameBut
  <2> QED
    BY <1>1, <2>4 DEF s
<1>8. CASE HandleSwap
  <2>1. s.op = "swap" /\ sunk' = sunk
        /\ rel' = [rel EXCEPT ![s.left] = rel[s.right], ![s.right] = rel[s.left]]
    BY <1>8 DEF HandleSwap, At
  <2>2. s.left \in Keys /\ s.right \in Keys
    BY <1>3, <2>1 DEF SimpleStatement
  <2> HIDE DEF s
  <2>3. /\ rel'[s.left] = rel[s.right] /\ rel'[s.right] = rel[s.left]
        /\ \A k \in Keys \ {s.left, s.right} : rel'[k] = rel[k]
    BY <1>2, <2>1, <2>2
  <2>4. Makes(s, World, Made)
    BY <1>4, <2>1, <2>3 DEF Makes, SameBut
  <2> QED
    BY <1>1, <2>4 DEF s
<1>9. CASE HandlePurge
  <2>1. s.op = "purge" /\ sunk' = sunk /\ rel' = [rel EXCEPT ![s.key] = {}]
    BY <1>9 DEF HandlePurge, At
  <2>2. s.key \in Keys
    BY <1>3, <2>1 DEF SimpleStatement
  <2> HIDE DEF s
  <2>3. rel'[s.key] = {} /\ \A k \in Keys \ {s.key} : rel'[k] = rel[k]
    BY <1>2, <2>1, <2>2
  <2>4. Makes(s, World, Made)
    BY <1>4, <2>1, <2>3 DEF Makes, SameBut
  <2> QED
    BY <1>1, <2>4 DEF s
<1>10. CASE HandleExit
  <2>1. s.op = "exit" /\ sunk' = sunk /\ rel' = rel
    BY <1>10 DEF HandleExit, At, store
  <2> HIDE DEF s
  <2>2. Makes(s, World, Made)
    BY <1>4, <2>1 DEF Makes
  <2> QED
    BY <1>1, <2>2 DEF s
<1>11. CASE HandleSinks
  <2>1. /\ s.op = "sinks" /\ rel' = rel
        /\ \A f \in Facts : sunk'[f] = IF f \in UNION {rel[<<r, "Delta">>] : r \in s.relations}
                                       THEN Append(sunk[f], timestamp.epoch) ELSE sunk[f]
    BY <1>11 DEF HandleSinks, At
  <2> HIDE DEF s
  <2>2. Makes(s, World, Made)
    BY <1>4, <2>1 DEF Makes, Batch
  <2> QED
    BY <1>1, <2>2 DEF s
<1> QED
  BY <1>5, <1>6, <1>7, <1>8, <1>9, <1>10, <1>11 DEF Step

\* What holds between the epochs of each program, P before the first of them
\* and both after it: the code leads from P to Q, and from there the clock moves
\* on, which is not back to the start unless it wraps around.
IsPlan(P, Q) ==
  \A n \in DOMAIN Programs :
    /\ Course(Programs[n], P[n], Q[n], {})
    /\ \A W \in Q[n], V \in Worlds :
         V.rel = W.rel /\ V.sunk = W.sunk /\ (MaxEpoch < TimestampMod => V.epoch # 0) =>
           V \in P[n] /\ V \in Q[n]

\* An epoch runs only while there are more to come.
Bounded == phase = "epoch" => timestamp.epoch < MaxEpoch

\* The assertions between the statements of a program, those inside its loops,
\* and the one at a position of pc.
Along(P, Q, n) == CHOOSE L : IsCourse(L, Programs[n], P[n], Q[n], {})

Around(P, Q, n, i) ==
  CHOOSE B : Circles(B, Programs[n][i].body, Along(P, Q, n)[i], Along(P, Q, n)[i + 1])

Assertion(P, Q, n, outer, inner) ==
  IF Programs[n][outer + 1].op = "loop" THEN Around(P, Q, n, outer + 1)[inner + 1]
  ELSE Along(P, Q, n)[outer + 1]

\* What holds of the world at the statement that is next.
PlanInv(P, Q) ==
  IF pc.outer = 0 THEN World \in P[program] /\ (timestamp # ClockStart => World \in Q[program])
  ELSE World \in Assertion(P, Q, program, pc.outer, pc.inner)

\* The assertions of a plan fit the code of each program.
LEMMA AlongCode ==
  ASSUME NEW P, NEW Q, IsPlan(P, Q), NEW n \in DOMAIN Programs
  PROVE  LET code == Programs[n]
             L == Along(P, Q, n)
         IN  /\ WellFormed(code)
             /\ P[n] \subseteq L[1] /\ L[Len(code) + 1] \subseteq Q[n]
             /\ \A i \in 1..Len(code) :
                  /\ code[i].op # "loop" => Carries(L[i], code[i], L[i + 1], {})
                  /\ code[i].op = "loop" => Circles(Around(P, Q, n, i), code[i].body, L[i], L[i + 1])
<1> DEFINE code == Programs[n]
           L == Along(P, Q, n)
<1>1. Course(code, P[n], Q[n], {})
  BY DEF IsPlan
<1>2. IsCourse(L, code, P[n], Q[n], {})
  BY <1>1 DEF Course, Along
<1>3. WellFormed(code)
  BY ProgramAssumption
<1>4. ASSUME NEW i \in 1..Len(code), code[i].op = "loop"
      PROVE  Circles(Around(P, Q, n, i), code[i].body, L[i], L[i + 1])
  <2>1. \E B : Circles(B, code[i].body, L[i], L[i + 1])
    BY <1>2, <1>4 DEF IsCourse, Goes
  <2> QED
    BY <2>1 DEF Around
<1>5. ASSUME NEW i \in 1..Len(code), code[i].op # "loop"
      PROVE  Carries(L[i], code[i], L[i + 1], {})
  BY <1>2, <1>5 DEF IsCourse, Goes
<1> QED
  BY <1>2, <1>3, <1>4, <1>5 DEF IsCourse

\* Where the world is after the statement at position o of a program.
LEMMA Arriving ==
  ASSUME NEW P, NEW Q, IsPlan(P, Q), NEW n \in DOMAIN Programs, NEW o \in 1..Len(Programs[n]),
         NEW W \in Along(P, Q, n)[o + 1], NEW next, next = o % Len(Programs[n])
  PROVE  /\ next = 0 => W \in Q[n]
         /\ next # 0 => W \in Assertion(P, Q, n, next, IF Programs[n][next + 1].op = "loop" /\ next # 0 THEN 0 ELSE None)
<1> DEFINE code == Programs[n]
           L == Along(P, Q, n)
<1>1. /\ Len(code) \in Nat \ {0}
      /\ L[Len(code) + 1] \subseteq Q[n]
      /\ \A i \in 1..Len(code) :
           code[i].op = "loop" => Circles(Around(P, Q, n, i), code[i].body, L[i], L[i + 1])
  BY AlongCode DEF WellFormed
<1> HIDE DEF code
<1>2. o \in 1..Len(code)
  BY DEF code
<1>3. next = IF o = Len(code) THEN 0 ELSE o
  BY <1>1, <1>2, Wraps DEF code
<1>4. CASE o = Len(code)
  <2>1. next = 0
    BY <1>3, <1>4
  <2> QED
    BY <1>1, <1>4, <2>1
<1>5. CASE o # Len(code) /\ code[o + 1].op = "loop"
  <2>1. next = o /\ o # 0 /\ o + 1 \in 1..Len(code)
    BY <1>1, <1>2, <1>3, <1>5
  <2>2. Assertion(P, Q, n, next, 0) = Around(P, Q, n, o + 1)[1]
    BY <1>5, <2>1 DEF Assertion, code
  <2>3. W \in Assertion(P, Q, n, next, 0)
    BY <1>1, <1>5, <2>1, <2>2 DEF Circles
  <2> QED
    BY <1>5, <2>1, <2>3 DEF code
<1>6. CASE o # Len(code) /\ code[o + 1].op # "loop"
  <2>1. next = o /\ o # 0
    BY <1>1, <1>2, <1>3, <1>6
  <2>2. \A j : Assertion(P, Q, n, next, j) = L[o + 1]
    BY <1>6, <2>1 DEF Assertion, code
  <2> QED
    BY <2>1, <2>2
<1> QED
  BY <1>4, <1>5, <1>6

\* Inside a loop the next assertion holds of what a statement leaves.
LEMMA ArrivingInside ==
  ASSUME NEW body, Len(body) \in Nat \ {0}, NEW B, NEW P, NEW Q, Circles(B, body, P, Q),
         NEW i \in 0..(Len(body) - 1), NEW W \in B[(i + 1) + 1]
  PROVE  W \in B[((i + 1) % Len(body)) + 1]
<1>1. i + 1 \in 1..Len(body) /\ B[Len(body) + 1] \subseteq B[1]
  BY DEF Circles
<1>2. CASE i + 1 = Len(body)
  <2>1. (i + 1) % Len(body) = 0 /\ 0 + 1 = 1
    BY <1>1, <1>2, Wraps
  <2> QED
    BY <1>1, <1>2, <2>1
<1>3. CASE i + 1 # Len(body)
  <2>1. (i + 1) % Len(body) = i + 1
    BY <1>1, <1>3, Wraps
  <2> QED
    BY <2>1
<1> QED
  BY <1>2, <1>3

\* The world at the statement that is next is one from which it leads on.
LEMMA Leading ==
  ASSUME NEW P, NEW Q, IsPlan(P, Q), IInv, PlanInv(P, Q)
  PROVE  LET L == Along(P, Q, program)
             o == pc.outer + 1
         IN  /\ Outer.op # "loop" => World \in L[o] /\ Carries(L[o], Current, L[o + 1], {})
             /\ Outer.op = "loop" =>
                  LET B == Around(P, Q, program, o)
                  IN  World \in B[pc.inner + 1] /\ Circles(B, Outer.body, L[o], L[o + 1])
<1> DEFINE n == program
           L == Along(P, Q, n)
           o == pc.outer + 1
<1>1. n \in DOMAIN Programs /\ Code = Programs[n] /\ o \in 1..Len(Programs[n]) /\ Outer = Programs[n][o]
  BY AtStatement DEF IInv, TypeOK, Code, Outer
<1>2. pc.outer \in Nat /\ Programs[n][1].op = "sources" /\ P[n] \subseteq L[1]
  BY <1>1, AlongCode DEF IInv, TypeOK, WellFormed
<1>3. ASSUME Outer.op # "loop" PROVE World \in L[o] /\ Carries(L[o], Current, L[o + 1], {})
  <2>1. Current = Outer
    BY <1>3 DEF Current
  <2>2. World \in L[o]
    <3>1. CASE pc.outer = 0
      <4>1. o = 1
        BY <3>1
      <4> QED
        BY <1>2, <3>1, <4>1 DEF PlanInv
    <3>2. CASE pc.outer # 0
      BY <1>1, <1>3, <3>2 DEF PlanInv, Assertion
    <3> QED
      BY <3>1, <3>2
  <2> QED
    BY <1>1, <1>3, <2>1, <2>2, AlongCode
<1>4. ASSUME Outer.op = "loop"
      PROVE  World \in Around(P, Q, n, o)[pc.inner + 1] /\ Circles(Around(P, Q, n, o), Outer.body, L[o], L[o + 1])
  <2>1. pc.outer # 0
    <3>1. pc.outer = 0 => o = 1
      OBVIOUS
    <3> QED
      BY <1>1, <1>2, <1>4, <3>1
  <2>2. World \in Around(P, Q, n, o)[pc.inner + 1]
    BY <1>1, <1>4, <2>1 DEF PlanInv, Assertion
  <2> QED
    BY <1>1, <1>4, <2>2, AlongCode
<1> QED
  BY <1>3, <1>4

\* The end of an epoch is not the start of the clock, ...
LEMMA EpochMoves ==
  ASSUME IInv, Bounded, Step, NEW inner, Continue(inner), pc'.outer = 0, MaxEpoch < TimestampMod
  PROVE  timestamp'.epoch # 0
<1> DEFINE e == timestamp.epoch
<1>1. e \in 0..(TimestampMod - 1) /\ timestamp'.epoch = (e + 1) % TimestampMod
  BY DEF IInv, TypeOK, Continue, AdvanceEpoch
<1>2. phase = "epoch"
  BY DEF Step, HandleSources, HandleInsert, HandleMerge, HandleSwap, HandlePurge, HandleExit, HandleSinks, At
<1>3. e < MaxEpoch
  BY <1>2 DEF Bounded
<1>4. MaxEpoch \in Nat /\ TimestampMod \in Nat \ {0}
  BY ConstantAssumption
<1> HIDE DEF e
<1>5. e \in Nat /\ e + 1 < TimestampMod
  BY <1>1, <1>3, <1>4
<1>6. (e + 1) % TimestampMod = e + 1
  BY <1>4, <1>5
<1> QED
  BY <1>1, <1>5, <1>6

\* ... and the next one starts only before the last.
LEMMA NextBounded ==
  ASSUME Bounded, [Next]_vars
  PROVE  Bounded'
<1>1. CASE Step
  <2>1. ASSUME NEW inner, Continue(inner) PROVE Bounded'
    BY <1>1, <2>1 DEF Continue, Bounded, Step, HandleSources, HandleInsert, HandleMerge, HandleSwap, HandlePurge,
      HandleExit, HandleSinks, At
  <2>2. HandleSources => Bounded'
    BY <2>1 DEF HandleSources, Bounded
  <2>3. HandleInsert \/ HandleMerge \/ HandleSwap \/ HandlePurge \/ HandleExit \/ HandleSinks => Bounded'
    BY <2>1 DEF HandleInsert, HandleMerge, HandleSwap, HandlePurge, HandleExit, HandleSinks
  <2> QED
    BY <1>1, <2>2, <2>3 DEF Step
<1>2. CASE \E f \in Facts : Push(f)
  BY <1>2 DEF Push, Bounded
<1>3. CASE \E f \in Facts : Pop(f)
  BY <1>3 DEF Pop, Bounded
<1>4. CASE StartEpoch
  BY <1>4 DEF StartEpoch, Bounded
<1>5. CASE UNCHANGED vars
  BY <1>5 DEF vars, Bounded
<1> QED
  BY <1>1, <1>2, <1>3, <1>4, <1>5 DEF Next

\* The machine is where the assertion at the statement that is next holds, if
\* what was made is of that assertion, or of Q at the end of an epoch.
LEMMA Arrived ==
  ASSUME NEW P, NEW Q, IsPlan(P, Q), IInv, Bounded, Step, program' = program,
         NEW inner, Continue(inner), inner = pc.inner \/ inner = None,
         IF pc'.outer = 0 THEN Made \in Q[program]
         ELSE Made \in Assertion(P, Q, program, pc'.outer, pc'.inner)
  PROVE  PlanInv(P, Q)'
<1>1. World' = [rel |-> rel', sunk |-> sunk', epoch |-> timestamp'.epoch]
  BY DEF World
<1>2. World' \in Worlds /\ Made \in Worlds /\ program \in DOMAIN Programs
  <2>1. IInv'
    BY NextInv DEF Next
  <2>2. /\ rel' \in [Keys -> SUBSET Facts] /\ sunk' \in [Facts -> Seq(0..(TimestampMod - 1))]
        /\ timestamp'.epoch \in 0..(TimestampMod - 1)
    BY <2>1 DEF IInv, TypeOK
  <2>3. [rel |-> rel', sunk |-> sunk', epoch |-> timestamp'.epoch] \in Worlds
    BY ONLY <2>2, WorldOf
  <2> QED
    BY <1>1, <2>3, MadeIs DEF IInv, TypeOK
<1>3. CASE pc'.outer = 0
  <2>1. MaxEpoch < TimestampMod => timestamp'.epoch # 0
    BY <1>3, EpochMoves
  <2>2. World' \in Q[program] /\ World' \in P[program]
    BY <1>1, <1>2, <1>3, <2>1 DEF IsPlan, Made
  <2> QED
    BY <1>3, <2>2 DEF PlanInv
<1>4. CASE pc'.outer # 0
  <2>1. timestamp'.epoch = timestamp.epoch
    BY <1>4 DEF Continue, AdvanceIteration, IInv, TypeOK
  <2>2. World' = Made
    BY <1>1, <2>1 DEF Made
  <2> QED
    BY <1>4, <2>2 DEF PlanInv, Assertion
<1> QED
  BY <1>3, <1>4

\* A statement outside the loops leads to the next one.
LEMMA GoesOnOutside ==
  ASSUME NEW P, NEW Q, IsPlan(P, Q), IInv, Bounded, PlanInv(P, Q), Step, Continue(pc.inner), Outer.op # "loop"
  PROVE  PlanInv(P, Q)'
<1> DEFINE n == program
           L == Along(P, Q, n)
           o == pc.outer + 1
           next == o % Len(Programs[n])
<1>1. /\ n \in DOMAIN Programs /\ program' = n /\ pc' = StepPc(pc.inner) /\ Code = Programs[n]
      /\ o \in 1..Len(Programs[n]) /\ Outer = Programs[n][o] /\ WellFormed(Code)
  BY AtStatement DEF IInv, TypeOK, Continue, Code, Outer
<1>2. pc.inner = None /\ Current = Outer
  BY DEF IInv, Control, PcOK, Current
<1>3. Current.op # "exit"
  BY <1>1, <1>2 DEF WellFormed
<1>4. World \in L[o] /\ Carries(L[o], Current, L[o + 1], {})
  BY Leading
<1>5. Made \in L[o + 1]
  BY <1>3, <1>4, StepMakes DEF Carries
<1>6. pc'.outer = next /\ pc'.inner = IF Programs[n][next + 1].op = "loop" /\ next # 0 THEN 0 ELSE None
  BY <1>1, <1>2 DEF StepPc
<1> HIDE DEF next
<1>7. /\ next = 0 => Made \in Q[n]
      /\ next # 0 => Made \in Assertion(P, Q, n, next, IF Programs[n][next + 1].op = "loop" /\ next # 0 THEN 0 ELSE None)
  BY <1>1, <1>5, Arriving DEF next
<1>8. IF pc'.outer = 0 THEN Made \in Q[n] ELSE Made \in Assertion(P, Q, n, pc'.outer, pc'.inner)
  BY <1>6, <1>7
<1> QED
  BY <1>1, <1>8, Arrived

\* One inside a loop leads to the next of the loop.
LEMMA GoesOnInside ==
  ASSUME NEW P, NEW Q, IsPlan(P, Q), IInv, Bounded, PlanInv(P, Q), Step, Continue(pc.inner), Outer.op = "loop",
         Current.op = "exit" => ~ \A k \in Current.keys : rel[k] = {}
  PROVE  PlanInv(P, Q)'
<1> DEFINE n == program
           o == pc.outer + 1
           L == Along(P, Q, n)
           B == Around(P, Q, n, o)
           i == pc.inner
           body == Outer.body
<1>1. /\ n \in DOMAIN Programs /\ program' = n /\ pc' = StepPc(i) /\ Code = Programs[n]
      /\ o \in 1..Len(Programs[n]) /\ Outer = Programs[n][o] /\ WellFormed(Code)
      /\ Len(body) \in Nat \ {0} /\ i \in Nat /\ i + 1 \in 1..Len(body)
      /\ Current = body[i + 1]
  BY AtStatement DEF IInv, TypeOK, Continue, Code, Outer, Current
<1>2. i # None /\ i \in 0..(Len(body) - 1)
  BY <1>1, ConstantAssumption
<1>3. World \in B[i + 1] /\ Circles(B, body, L[o], L[o + 1])
  BY Leading
<1>4. Carries(B[i + 1], Current, B[(i + 1) + 1], L[o + 1])
  BY <1>1, <1>3 DEF Circles
<1>5. World.rel = rel
  BY DEF World
<1>6. Made \in B[(i + 1) + 1]
  BY <1>3, <1>4, <1>5, StepMakes DEF Carries
<1>7. pc'.outer = pc.outer /\ pc'.inner = (i + 1) % Len(body)
  BY <1>1, <1>2 DEF StepPc
<1>8. pc.outer # 0
  <2>1. pc.outer = 0 => o = 1
    OBVIOUS
  <2> QED
    BY <1>1, <2>1 DEF WellFormed
<1>9. Assertion(P, Q, n, pc'.outer, pc'.inner) = B[((i + 1) % Len(body)) + 1]
  BY <1>1, <1>7 DEF Assertion
<1> HIDE DEF body, B
<1>10. Made \in B[((i + 1) % Len(body)) + 1]
  BY <1>1, <1>2, <1>3, <1>6, ArrivingInside
<1>11. IF pc'.outer = 0 THEN Made \in Q[n] ELSE Made \in Assertion(P, Q, n, pc'.outer, pc'.inner)
  BY <1>7, <1>8, <1>9, <1>10
<1> QED
  BY <1>1, <1>11, Arrived

\* An exit that finds nothing new leads out of its loop.
LEMMA GoesOut ==
  ASSUME NEW P, NEW Q, IsPlan(P, Q), IInv, Bounded, PlanInv(P, Q), HandleExit, \A k \in Current.keys : rel[k] = {}
  PROVE  PlanInv(P, Q)'
<1> DEFINE n == program
           o == pc.outer + 1
           L == Along(P, Q, n)
           B == Around(P, Q, n, o)
           next == o % Len(Programs[n])
<1>0. Step /\ Continue(None) /\ Current.op = "exit"
  BY DEF Step, HandleExit, At
<1>1. /\ n \in DOMAIN Programs /\ program' = n /\ pc' = StepPc(None) /\ Code = Programs[n]
      /\ o \in 1..Len(Programs[n]) /\ Outer = Programs[n][o] /\ WellFormed(Code)
  BY <1>0, AtStatement DEF IInv, TypeOK, Continue, Code, Outer
<1>2. Outer.op = "loop"
  <2>1. Outer.op # "loop" => Outer.op # "exit"
    BY <1>1 DEF WellFormed
  <2> QED
    BY <1>0, <2>1 DEF Current
<1>3. World \in B[pc.inner + 1] /\ Circles(B, Outer.body, L[o], L[o + 1])
      /\ pc.inner + 1 \in 1..Len(Outer.body) /\ Current = Outer.body[pc.inner + 1]
  BY <1>2, Leading, AtStatement DEF Current
<1>4. Carries(B[pc.inner + 1], Current, B[(pc.inner + 1) + 1], L[o + 1])
  BY <1>3 DEF Circles
<1>5. World.rel = rel
  BY DEF World
<1>6. Made \in L[o + 1]
  BY <1>0, <1>3, <1>4, <1>5, StepMakes DEF Carries
<1>7. pc'.outer = next /\ pc'.inner = IF Programs[n][next + 1].op = "loop" /\ next # 0 THEN 0 ELSE None
  BY <1>1 DEF StepPc
<1> HIDE DEF next, B
<1>8. /\ next = 0 => Made \in Q[n]
      /\ next # 0 => Made \in Assertion(P, Q, n, next, IF Programs[n][next + 1].op = "loop" /\ next # 0 THEN 0 ELSE None)
  BY ZenonT(60), <1>1, <1>6, Arriving DEF next
<1>9. IF pc'.outer = 0 THEN Made \in Q[n] ELSE Made \in Assertion(P, Q, n, pc'.outer, pc'.inner)
  BY <1>7, <1>8
<1> QED
  BY <1>0, <1>1, <1>9, Arrived

\* The assertions hold wherever the machine is.
LEMMA NextPlan ==
  ASSUME NEW P, NEW Q, IsPlan(P, Q), IInv, Bounded, PlanInv(P, Q), [Next]_vars
  PROVE  PlanInv(P, Q)'
<1>1. ASSUME rel' = rel, UNCHANGED <<program, timestamp, pc, sunk>> PROVE PlanInv(P, Q)'
  BY <1>1 DEF PlanInv, World, Assertion
<1>2. CASE Step
  <2>1. CASE Continue(pc.inner) /\ ~ (HandleExit /\ \A k \in Current.keys : rel[k] = {})
    <3>1. CASE Outer.op # "loop"
      BY <1>2, <2>1, <3>1, GoesOnOutside
    <3>2. CASE Outer.op = "loop"
      <4>1. Current.op = "exit" => HandleExit
        BY <1>2 DEF Step, HandleSources, HandleInsert, HandleMerge, HandleSwap, HandlePurge, HandleSinks, At
      <4> QED
        BY <1>2, <2>1, <3>2, <4>1, GoesOnInside
    <3> QED
      BY <3>1, <3>2
  <2>2. CASE HandleExit /\ \A k \in Current.keys : rel[k] = {}
    BY <2>2, GoesOut
  <2>3. CASE HandleSources /\ ~ Continue(pc.inner)
    <3>1. UNCHANGED timestamp
      BY <2>3 DEF HandleSources
    <3> QED
      BY <1>1, <2>3, <3>1, SourcesStop
  <2>4. CASE HandleInsert \/ HandleMerge \/ HandleSwap \/ HandlePurge \/ HandleSinks
             \/ (HandleExit /\ ~ \A k \in Current.keys : rel[k] = {})
    <3>1. Continue(pc.inner)
      BY <2>4 DEF HandleInsert, HandleMerge, HandleSwap, HandlePurge, HandleSinks, HandleExit
    <3> QED
      BY <2>1, <2>2, <3>1
  <2> QED
    BY <1>2, <2>1, <2>2, <2>3, <2>4 DEF Step
<1>3. CASE \E f \in Facts : Push(f)
  BY <1>1, <1>3 DEF Push, store
<1>4. CASE \E f \in Facts : Pop(f)
  BY <1>1, <1>4 DEF Pop
<1>5. CASE StartEpoch
  BY <1>1, <1>5 DEF StartEpoch, store
<1>6. CASE UNCHANGED vars
  BY <1>1, <1>6 DEF vars
<1> QED
  BY <1>2, <1>3, <1>4, <1>5, <1>6 DEF Next

-----------------------------------------------------------------------------
(* Nothing is missed.                                                       *)

\* Between epochs: nothing is missing but what searches nothing, and after the
\* first epoch nothing at all.
RestedBetween == [n \in DOMAIN Programs |-> Rested(Ast[n].source)]
EndedBetween == [n \in DOMAIN Programs |-> Ended(Ast[n].source)]

\* Every program has this plan.
LEMMA EndedPlan == IsPlan(RestedBetween, EndedBetween)
<1> SUFFICES ASSUME NEW n \in DOMAIN Programs
             PROVE  LET s == Ast[n].source
                    IN  /\ Course(Programs[n], Rested(s), Ended(s), {})
                        /\ \A W \in Ended(s), V \in Worlds : V.rel = W.rel => V \in Rested(s) /\ V \in Ended(s)
  BY DEF IsPlan, RestedBetween, EndedBetween
<1> DEFINE s == Ast[n].source
<1>1. Fits(s) /\ Stratifiable(s) /\ Ast[n].strata \in StrataOrders(s) /\ Programs[n] = LowerToRam(s, Ast[n].strata)
  BY ProgramsFit, LoweredAssumption
<1>2. Course(Programs[n], Rested(s), Ended(s), {})
  BY <1>1, CodeCourse
<1>3. Ended(s) \subseteq Rested(s)
  BY DEF Ended, Rested
<1>4. ASSUME NEW W \in Worlds, NEW V \in Worlds, V.rel = W.rel
      PROVE  \A i : Satisfied(W, i) => Satisfied(V, i)
  BY <1>4 DEF Satisfied, Seen, Sees, Open, Has
<1>5. ASSUME NEW W \in Ended(s), NEW V \in Worlds, V.rel = W.rel PROVE V \in Rested(s) /\ V \in Ended(s)
  BY <1>3, <1>4, <1>5 DEF Ended
<1> QED
  BY <1>2, <1>5

NothingMissing == PlanInv(RestedBetween, EndedBetween)

\* It holds at the start, where nothing is known, ...
LEMMA InitPlan == Init => NothingMissing
<1> SUFFICES ASSUME Init PROVE NothingMissing
  OBVIOUS
<1>1. IInv /\ pc.outer = 0 /\ timestamp = ClockStart /\ program \in DOMAIN Programs
  BY InitInv DEF Init
<1> DEFINE s == Ast[program].source
<1>2. Fits(s)
  BY <1>1, ProgramsFit
<1>3. World \in Worlds
  BY <1>1, WorldIs
<1>4. ASSUME NEW i \in Plain(s), i.pos # {} PROVE Satisfied(World, i)
  <2>1. PICK p \in i.pos : TRUE
    BY <1>4
  <2>2. p.rel \in Relations
    <3>1. p.rel \in s.edb \cup IdbNodes(s)
      BY <1>2, <2>1, PlainReads
    <3> QED
      BY <1>2, <3>1, NodesAreOutputs DEF Fits
  <2>3. \A v \in Versions : rel[<<p.rel, v>>] = {}
    BY <2>2 DEF Init, Keys
  <2>4. ~ Seen(World, p)
    BY <2>3 DEF Seen, Sees, World, Versions
  <2> QED
    BY <2>1, <2>4 DEF Satisfied
<1>5. World \in Rested(s)
  BY <1>3, <1>4 DEF Rested
<1> QED
  BY <1>1, <1>5 DEF NothingMissing, PlanInv, RestedBetween

\* ... and always.
LEMMA NothingMissingHolds == Spec => []NothingMissing
<1>1. Init => IInv /\ Bounded /\ NothingMissing
  BY InitInv, InitPlan DEF Init, Bounded
<1>2. IInv /\ Bounded /\ NothingMissing /\ [Next]_vars => (IInv /\ Bounded /\ NothingMissing)'
  BY NextInv, NextBounded, NextPlan, EndedPlan DEF NothingMissing
<1> QED
  BY <1>1, <1>2, PTL DEF Spec

\* Between epochs a pattern about a relation of the program is found among what is
\* known exactly if it is seen.
LEMMA FoundIsSeen ==
  ASSUME IInv, LabelInv, phase = "idle", NEW p, p.rel \in Source.edb \cup Source.idb,
         Source.edb \cup Source.idb \subseteq Relations
  PROVE  Found(p, TotalOf(Source.edb \cup Source.idb)) <=> Seen(World, p)
<1> DEFINE R == Source.edb \cup Source.idb
<1>1. \A r \in R : rel[<<r, "Delta">>] = {} /\ <<r, "Total">> \in Keys
  BY LabelsAtRest DEF Keys, Versions
<1>2. \A k \in Keys : \A f \in rel[k] : f.rel = k[1]
  BY DEF IInv, TypeOK
<1>3. Seen(World, p) <=> \E f \in rel[<<p.rel, "Total">>] : Matches(f, p)
  BY <1>1 DEF Seen, Sees, World
<1>4. ASSUME NEW f \in TotalOf(R), Matches(f, p) PROVE f \in rel[<<p.rel, "Total">>]
  <2>1. PICK r \in R : f \in rel[<<r, "Total">>]
    BY DEF TotalOf
  <2>2. f.rel = r
    BY <1>1, <1>2, <2>1
  <2>3. f.rel = p.rel
    BY <1>4 DEF Matches
  <2> QED
    BY <2>1, <2>2, <2>3
<1>5. rel[<<p.rel, "Total">>] \subseteq TotalOf(R)
  BY DEF TotalOf
<1> QED
  BY <1>3, <1>4, <1>5 DEF Found

\* After every epoch each rule without aggregations whose body is known has its
\* head known.
THEOREM NothingIsMissed == Spec => []ClosedUnderRules
<1>1. IInv /\ LabelInv /\ NothingMissing => ClosedUnderRules
  <2> SUFFICES ASSUME IInv, LabelInv, NothingMissing, AtFixpoint,
                      NEW r \in ToSet(Source.rules), r.aggs = <<>>,
                      NEW h \in Consequences(Instances(r), TotalOf(Source.edb \cup Source.idb),
                                             TotalOf(Source.edb \cup Source.idb), {})
               PROVE  h \in TotalOf(Source.edb \cup Source.idb)
    BY DEF ClosedUnderRules
  <2> DEFINE R == Source.edb \cup Source.idb
             known == TotalOf(R)
  <2>1. /\ phase = "idle" /\ timestamp # ClockStart /\ pc.outer = 0 /\ program \in DOMAIN Programs
    BY DEF AtFixpoint, IInv, Control, IdleOK, TypeOK
  <2>2. Fits(Source) /\ R \subseteq Relations /\ IdbNodes(Source) \subseteq Source.idb
    BY <2>1, ProgramsFit, NodesAreOutputs DEF Source, Fits
  <2>3. World \in Ended(Source)
    BY <2>1 DEF NothingMissing, PlanInv, EndedBetween, Source
  <2>4. PICK i \in Instances(r) : /\ h = i.head
                                  /\ \A p \in i.pos : Found(p, known)
                                  /\ \A p \in i.neg : ~ Found(p, known)
    BY DEF Consequences
  <2>5. i \in Plain(Source)
    BY DEF Plain
  <2>6. /\ h.rel \in Source.idb /\ \A p \in i.pos \cup i.neg : p.rel \in R
    BY <2>2, <2>4, <2>5, PlainReads
  <2>7. \A p \in i.pos \cup i.neg : Found(p, known) <=> Seen(World, p)
    BY <2>1, <2>2, <2>6, FoundIsSeen
  <2>8. Has(World, i)
    BY <2>3, <2>4, <2>5, <2>7 DEF Ended, Satisfied, Open
  <2>9. rel[<<h.rel, "Delta">>] = {} /\ h \in rel[<<h.rel, "Delta">>] \cup rel[<<h.rel, "Total">>]
    BY <2>1, <2>2, <2>4, <2>6, <2>8, LabelsAtRest DEF Has, World
  <2> QED
    BY <2>6, <2>9 DEF TotalOf
<1> QED
  BY Invariance, LabelsHold, NothingMissingHolds, <1>1, PTL

-----------------------------------------------------------------------------
(* How often a fact is written to the output.  Of the relations only what    *)
(* holds the fact g matters; the statements about others leave that alone.   *)

In(W, g, v) == g \in W.rel[<<g.rel, v>>]

SameFor(W, V, g) ==
  /\ \A v \in Versions : In(V, g, v) <=> In(W, g, v)
  /\ V.sunk[g] = W.sunk[g] /\ V.epoch = W.epoch

\* The worlds in which no other output has g.
Aloof(source, g) ==
  {W \in Worlds : \A q \in source.idb, v \in Versions : g \in W.rel[<<q, v>>] => q = g.rel}

\* Worlds that are told apart by what matters for g.
OnlyOf(source, g, J) ==
  /\ J \subseteq Aloof(source, g)
  /\ \A W \in J, V \in Aloof(source, g) : SameFor(W, V, g) => V \in J

\* The statements about one relation.
IsAbout(s, q) ==
  \/ \E v \in Versions : IsInsert(s, q, v)
  \/ \E u, v \in Versions : \/ s = Merge(Key(q, u), Key(q, v))
                            \/ s = Purge(Key(q, u))
                            \/ s = Swap(Key(q, u), Key(q, v))

\* They leave the other relations, and the output, as they are.
LEMMA AboutMakes ==
  ASSUME NEW q \in Relations, NEW s, IsAbout(s, q), NEW W, NEW V, Makes(s, W, V)
  PROVE  /\ s.op \notin {"exit", "loop", "sinks", "sources"}
         /\ V.sunk = W.sunk /\ V.epoch = W.epoch
         /\ \A x \in Relations \ {q}, w \in Versions : V.rel[<<x, w>>] = W.rel[<<x, w>>]
         /\ \A w \in Versions : \A f \in V.rel[<<q, w>>] :
              f.rel = q \/ \E u \in Versions : f \in W.rel[<<q, u>>]
<1>1. CASE \E v \in Versions : IsInsert(s, q, v)
  <2>1. PICK v \in Versions : IsInsert(s, q, v)
    BY <1>1
  <2>2. s.op = "insert" /\ s.into = <<q, v>> /\ \A row \in s.rows : row.head.rel = q
    BY <2>1 DEF IsInsert, Key
  <2>3. V.sunk = W.sunk /\ V.epoch = W.epoch /\ Inserts(s, W, V)
    BY <2>2 DEF Makes
  <2>4. PICK X \in SUBSET Facts : /\ V.rel[s.into] = W.rel[s.into] \cup X
                                  /\ SameBut(W, V, {s.into})
                                  /\ \A f \in X : \E row \in s.rows : f = row.head
    BY <2>3 DEF Inserts
  <2>5. \A x \in Relations, w \in Versions : x # q \/ w # v => V.rel[<<x, w>>] = W.rel[<<x, w>>]
    <3> SUFFICES ASSUME NEW x \in Relations, NEW w \in Versions, x # q \/ w # v
                 PROVE  V.rel[<<x, w>>] = W.rel[<<x, w>>]
      OBVIOUS
    <3>1. <<x, w>> \in Keys \ {s.into}
      BY <2>2, SameKey DEF Keys
    <3> QED
      BY <2>4, <3>1 DEF SameBut
  <2>6. \A f \in X : f.rel = q
    BY <2>2, <2>4
  <2>7. V.rel[<<q, v>>] = W.rel[<<q, v>>] \cup X
    BY <2>2, <2>4
  <2> QED
    BY <2>2, <2>3, <2>5, <2>6, <2>7
<1>2. CASE \E u, v \in Versions : s = Merge(Key(q, u), Key(q, v))
  <2>1. PICK u \in Versions, v \in Versions : s = Merge(Key(q, u), Key(q, v))
    BY <1>2
  <2>2. s.op = "merge"
    BY <2>1 DEF Merge
  <2>3. /\ V.rel[<<q, v>>] = W.rel[<<q, v>>] \cup W.rel[<<q, u>>]
        /\ \A x \in Relations, w \in Versions : x # q \/ w # v => V.rel[<<x, w>>] = W.rel[<<x, w>>]
        /\ V.sunk = W.sunk /\ V.epoch = W.epoch
    BY <2>1, MergeMakes
  <2> QED
    BY <2>2, <2>3
<1>3. CASE \E u \in Versions : s = Purge(Key(q, u))
  <2>1. PICK u \in Versions : s = Purge(Key(q, u))
    BY <1>3
  <2>2. s.op = "purge" /\ s.key = <<q, u>>
    BY <2>1 DEF Purge, Key
  <2>3. V.rel[s.key] = {} /\ SameBut(W, V, {s.key}) /\ V.sunk = W.sunk /\ V.epoch = W.epoch
    BY <2>2 DEF Makes
  <2>4. \A x \in Relations, w \in Versions : x # q \/ w # u => V.rel[<<x, w>>] = W.rel[<<x, w>>]
    <3> SUFFICES ASSUME NEW x \in Relations, NEW w \in Versions, x # q \/ w # u
                 PROVE  V.rel[<<x, w>>] = W.rel[<<x, w>>]
      OBVIOUS
    <3>1. <<x, w>> \in Keys \ {s.key}
      BY <2>2, SameKey DEF Keys
    <3> QED
      BY <2>3, <3>1 DEF SameBut
  <2> QED
    BY <2>2, <2>3, <2>4
<1>4. CASE \E u, v \in Versions : s = Swap(Key(q, u), Key(q, v))
  <2>1. PICK u \in Versions, v \in Versions : s = Swap(Key(q, u), Key(q, v))
    BY <1>4
  <2>2. s.op = "swap" /\ s.left = <<q, u>> /\ s.right = <<q, v>>
    BY <2>1 DEF Swap, Key
  <2>3. /\ V.rel[s.left] = W.rel[s.right] /\ V.rel[s.right] = W.rel[s.left]
        /\ SameBut(W, V, {s.left, s.right}) /\ V.sunk = W.sunk /\ V.epoch = W.epoch
    BY <2>2 DEF Makes
  <2>4. \A x \in Relations, w \in Versions : x # q \/ (w # u /\ w # v) => V.rel[<<x, w>>] = W.rel[<<x, w>>]
    <3> SUFFICES ASSUME NEW x \in Relations, NEW w \in Versions, x # q \/ (w # u /\ w # v)
                 PROVE  V.rel[<<x, w>>] = W.rel[<<x, w>>]
      OBVIOUS
    <3>1. <<x, w>> \in Keys \ {s.left, s.right}
      BY <2>2, SameKey DEF Keys
    <3> QED
      BY <2>3, <3>1 DEF SameBut
  <2> QED
    BY <2>2, <2>3, <2>4
<1> QED
  BY <1>1, <1>2, <1>3, <1>4 DEF IsAbout

\* A statement about an output, and what it leaves alone.
LEMMA AboutAloof ==
  ASSUME NEW source, Fits(source), NEW g \in Facts, NEW q \in source.idb, NEW s, IsAbout(s, q),
         NEW W \in Aloof(source, g), NEW V \in Worlds, Makes(s, W, V)
  PROVE  /\ V \in Aloof(source, g) /\ V.sunk = W.sunk /\ V.epoch = W.epoch
         /\ q # g.rel => SameFor(W, V, g)
<1>1. source.idb \subseteq Relations /\ q \in Relations /\ g.rel \in Relations
  BY ConstantAssumption DEF Fits
<1>2. /\ V.sunk = W.sunk /\ V.epoch = W.epoch
      /\ \A x \in Relations \ {q}, w \in Versions : V.rel[<<x, w>>] = W.rel[<<x, w>>]
      /\ \A w \in Versions : \A f \in V.rel[<<q, w>>] :
           f.rel = q \/ \E u \in Versions : f \in W.rel[<<q, u>>]
  BY <1>1, AboutMakes
<1>3. ASSUME NEW x \in source.idb, NEW v \in Versions, g \in V.rel[<<x, v>>] PROVE x = g.rel
  <2>1. CASE x = q
    BY <1>2, <1>3, <2>1 DEF Aloof
  <2>2. CASE x # q
    <3>1. x \in Relations \ {q}
      BY <1>1, <2>2
    <3>2. g \in W.rel[<<x, v>>]
      BY <1>2, <1>3, <3>1
    <3> QED
      BY <3>2 DEF Aloof
  <2> QED
    BY <2>1, <2>2
<1>4. V \in Aloof(source, g)
  BY <1>3 DEF Aloof
<1>5. ASSUME q # g.rel PROVE SameFor(W, V, g)
  <2>1. g.rel \in Relations \ {q}
    BY <1>1, <1>5
  <2> QED
    BY <1>2, <2>1 DEF SameFor, In
<1> QED
  BY <1>2, <1>4, <1>5

\* The sinks of some outputs write g if it is news of one of them.
LEMMA SinksMake ==
  ASSUME NEW source, Fits(source), NEW g \in Facts, NEW c \in SUBSET source.idb,
         NEW W \in Aloof(source, g), NEW V \in Worlds, Makes(Sinks(c), W, V)
  PROVE  /\ V \in Aloof(source, g) /\ V.rel = W.rel /\ V.epoch = W.epoch
         /\ V.sunk[g] = IF g.rel \in c /\ In(W, g, "Delta") THEN Append(W.sunk[g], W.epoch) ELSE W.sunk[g]
<1> DEFINE s == Sinks(c)
<1>1. s.op = "sinks" /\ s.relations = c
  BY DEF Sinks
<1> HIDE DEF s
<1>2. /\ V.rel = W.rel /\ V.epoch = W.epoch
      /\ V.sunk[g] = IF g \in Batch(s, W) THEN Append(W.sunk[g], W.epoch) ELSE W.sunk[g]
  BY <1>1 DEF Makes, s
<1>3. g \in Batch(s, W) <=> g.rel \in c /\ In(W, g, "Delta")
  <2>1. g \in Batch(s, W) <=> \E r \in c : g \in W.rel[<<r, "Delta">>]
    BY <1>1 DEF Batch
  <2>2. \A r \in c : g \in W.rel[<<r, "Delta">>] => r = g.rel
    BY DEF Aloof, Versions
  <2> QED
    BY <2>1, <2>2 DEF In
<1>4. V \in Aloof(source, g)
  BY <1>2 DEF Aloof
<1> QED
  BY <1>2, <1>3, <1>4

\* A statement about another relation is not noticed, ...
LEMMA GoesOther ==
  ASSUME NEW source, Fits(source), NEW g \in Facts, NEW J, OnlyOf(source, g, J),
         NEW q \in source.idb, q # g.rel, NEW s, IsAbout(s, q), NEW out
  PROVE  Goes(J, s, J, out)
<1>1. q \in Relations
  BY DEF Fits
<1>2. s.op # "loop"
  BY DEF IsAbout, IsInsert, Merge, Purge, Swap
<1>3. ASSUME NEW W \in J, NEW V \in Worlds, Makes(s, W, V)
      PROVE  s.op # "exit" /\ V \in J
  <2>1. s.op # "exit"
    BY <1>1, <1>3, AboutMakes
  <2>2. W \in Aloof(source, g)
    BY DEF OnlyOf
  <2>3. V \in Aloof(source, g) /\ SameFor(W, V, g)
    BY <1>3, <2>2, AboutAloof
  <2> QED
    BY <2>1, <2>3 DEF OnlyOf
<1>4. Carries(J, s, J, out)
  BY <1>3 DEF Carries
<1> QED
  BY <1>2, <1>4 DEF Goes

\* ... nor are the sinks of others ...
LEMMA GoesSinks ==
  ASSUME NEW source, Fits(source), NEW g \in Facts, NEW J, OnlyOf(source, g, J),
         NEW c \in SUBSET source.idb, g.rel \notin c, NEW out
  PROVE  Goes(J, Sinks(c), J, out)
<1> DEFINE s == Sinks(c)
<1>1. s.op = "sinks"
  BY DEF Sinks
<1>2. ASSUME NEW W \in J, NEW V \in Worlds, Makes(s, W, V) PROVE V \in J
  <2>1. W \in Aloof(source, g)
    BY DEF OnlyOf
  <2>2. V \in Aloof(source, g) /\ V.rel = W.rel /\ V.epoch = W.epoch /\ V.sunk[g] = W.sunk[g]
    BY <1>2, <2>1, SinksMake
  <2>3. SameFor(W, V, g)
    BY <2>2 DEF SameFor, In
  <2> QED
    BY <2>2, <2>3 DEF OnlyOf
<1> HIDE DEF s
<1>3. Carries(J, s, J, out)
  BY <1>1, <1>2 DEF Carries
<1>4. Goes(J, s, J, out)
  BY <1>1, <1>3 DEF Goes
<1> QED
  BY <1>4 DEF s

\* ... and an exit.
LEMMA GoesExit ==
  ASSUME NEW source, NEW g \in Facts, NEW J, OnlyOf(source, g, J), NEW keys, NEW out, J \subseteq out
  PROVE  Goes(J, Exit(keys), J, out)
<1> DEFINE s == Exit(keys)
<1>1. s.op = "exit"
  BY DEF Exit
<1> HIDE DEF s
<1>2. ASSUME NEW W \in J, NEW V \in Worlds, Makes(s, W, V) PROVE V \in J
  <2>1. V.rel = W.rel /\ V.sunk = W.sunk /\ V.epoch = W.epoch
    BY <1>1, <1>2 DEF Makes
  <2>2. W \in Aloof(source, g)
    BY DEF OnlyOf
  <2>3. V \in Aloof(source, g) /\ SameFor(W, V, g)
    BY <2>1, <2>2 DEF Aloof, SameFor, In
  <2> QED
    BY <2>3 DEF OnlyOf
<1>3. Goes(J, s, J, out)
  BY <1>1, <1>2 DEF Goes, Carries
<1> QED
  BY <1>3 DEF s

\* A sequence each statement of which keeps J does.
LEMMA CourseStays ==
  ASSUME NEW p, IsSeq(p), NEW J, NEW out, \A s \in ToSet(p) : Goes(J, s, J, out)
  PROVE  Course(p, J, J, out)
<1> DEFINE L == [i \in 1..(Len(p) + 1) |-> J]
<1>1. Len(p) \in Nat /\ \A i \in 1..Len(p) : p[i] \in ToSet(p)
  BY SeqParts
<1>2. 1 \in 1..(Len(p) + 1) /\ Len(p) + 1 \in 1..(Len(p) + 1)
  BY <1>1
<1>3. \A i \in 1..Len(p) : i \in 1..(Len(p) + 1) /\ i + 1 \in 1..(Len(p) + 1)
  BY <1>1
<1>4. \A i \in 1..Len(p) : L[i] = J /\ L[i + 1] = J
  BY <1>3
<1>5. L[1] = J /\ L[Len(p) + 1] = J
  BY <1>2
<1> HIDE DEF L
<1>6. \A i \in 1..Len(p) : Goes(L[i], p[i], L[i + 1], out)
  BY <1>1, <1>4
<1> QED
  BY <1>5, <1>6 DEF Course, IsCourse

\* The statements of a stratum are about its relations, or its sinks or exit.
LEMMA OfAbout ==
  ASSUME NEW s, NEW c, IsOf(s, c)
  PROVE  \/ \E q \in c : IsAbout(s, q)
         \/ s = Sinks(c)
         \/ s = Exit({Key(r, "New") : r \in c})
BY DEF IsOf, IsAbout, Versions

\* A stratum that g is not of does not notice it.
LEMMA StratumStays ==
  ASSUME NEW source, Fits(source), NEW g \in Facts, NEW J, OnlyOf(source, g, J),
         NEW c \in SUBSET source.idb, g.rel \notin c, NEW p, IsStratum(p, c), NEW out
  PROVE  Course(p, J, J, out)
<1>1. ASSUME NEW s, IsOf(s, c) PROVE Goes(J, s, J, J) /\ (s.op # "exit" => Goes(J, s, J, out))
  <2>1. CASE \E q \in c : IsAbout(s, q)
    BY <2>1, GoesOther
  <2>2. CASE s = Sinks(c)
    BY <2>2, GoesSinks
  <2>3. CASE s = Exit({Key(r, "New") : r \in c})
    <3>1. s.op = "exit"
      BY <2>3 DEF Exit
    <3> QED
      BY <2>3, <3>1, GoesExit
  <2> QED
    BY <1>1, <2>1, <2>2, <2>3, OfAbout
<1>2. ASSUME NEW s, IsLoopOf(s, c) PROVE Goes(J, s, J, out)
  <2> DEFINE body == s.body
             B == [i \in 1..(Len(body) + 1) |-> J]
  <2>1. s.op = "loop" /\ IsSeq(body) /\ \A t \in ToSet(body) : IsOf(t, c)
    BY <1>2 DEF IsLoopOf, AllOf, Loop
  <2>2. Len(body) \in Nat /\ \A i \in 1..Len(body) : body[i] \in ToSet(body)
    BY <2>1, SeqParts
  <2>3. \A i \in 1..Len(body) : i \in 1..(Len(body) + 1) /\ i + 1 \in 1..(Len(body) + 1)
    BY <2>2
  <2>4. /\ 1 \in 1..(Len(body) + 1) /\ Len(body) + 1 \in 1..(Len(body) + 1)
    BY <2>2
  <2>5. B[1] = J /\ B[Len(body) + 1] = J /\ \A i \in 1..Len(body) : B[i] = J /\ B[i + 1] = J
    BY <2>3, <2>4
  <2> HIDE DEF B, body
  <2>6. ASSUME NEW i \in 1..Len(body) PROVE Carries(B[i], body[i], B[i + 1], J)
    <3>1. IsOf(body[i], c) /\ body[i].op # "loop"
      BY <2>1, <2>2, NoLoopInside
    <3>2. Goes(J, body[i], J, J)
      BY <1>1, <3>1
    <3> QED
      BY <2>5, <3>1, <3>2 DEF Goes
  <2>7. Circles(B, body, J, J)
    BY <2>5, <2>6 DEF Circles
  <2> QED
    BY <2>1, <2>7 DEF Goes, body
<1>3. IsSeq(p) /\ \A s \in ToSet(p) : Goes(J, s, J, out)
  BY <1>1, <1>2 DEF IsStratum
<1> QED
  BY <1>3, CourseStays

\* One statement about each of some outputs: that about g's relation leads
\* from A to B.
LEMMA CourseAbout ==
  ASSUME NEW source, Fits(source), NEW g \in Facts, NEW A, OnlyOf(source, g, A), NEW B, OnlyOf(source, g, B),
         NEW R \in SUBSET source.idb, IsFiniteSet(R),
         NEW q, NEW F, q = [i \in DOMAIN SetToSeq(R) |-> F[SetToSeq(R)[i]]],
         \A y \in R : IsAbout(F[y], y),
         NEW out, g.rel \in R => Goes(A, F[g.rel], B, out)
  PROVE  IsSeq(q) /\ Course(q, A, IF g.rel \in R THEN B ELSE A, out)
<1> DEFINE T == [S \in SUBSET R |-> IF g.rel \in S THEN B ELSE A]
<1>1. ASSUME NEW S \in SUBSET R, NEW x \in R \ S PROVE Goes(T[S], F[x], T[S \cup {x}], out)
  <2>1. T[S] = (IF g.rel \in S THEN B ELSE A) /\ T[S \cup {x}] = IF g.rel \in S \cup {x} THEN B ELSE A
    OBVIOUS
  <2> HIDE DEF T
  <2>2. CASE x = g.rel
    <3>1. T[S] = A /\ T[S \cup {x}] = B
      BY <2>1, <2>2
    <3> QED
      BY <2>2, <3>1
  <2>3. CASE x # g.rel
    <3>1. T[S \cup {x}] = T[S] /\ T[S] \in {A, B}
      BY <2>1, <2>3
    <3>2. OnlyOf(source, g, T[S]) /\ x \in source.idb /\ IsAbout(F[x], x)
      BY <3>1
    <3> QED
      BY <2>3, <3>1, <3>2, GoesOther
  <2> QED
    BY <2>2, <2>3
<1>2. T[{}] = A /\ T[R] = IF g.rel \in R THEN B ELSE A
  OBVIOUS
<1> HIDE DEF T
<1>3. IsSeq(q) /\ Course(q, T[{}], T[R], out)
  BY <1>1, CourseOfSome
<1> QED
  BY <1>2, <1>3

\* What was written of a fact is of one epoch, and was written at most twice;
\* or it is nothing, or what this epoch wrote first.
Alike(k) == Len(k) <= 2 /\ \A i, j \in DOMAIN k : k[i] = k[j]
Few(k, e) == k = <<>> \/ k = <<e>>

\* Outside its stratum g was not written in two epochs, and if it was written it is known,
\* ...
Once(source, g) ==
  {W \in Aloof(source, g) : Alike(W.sunk[g]) /\ (W.sunk[g] # <<>> => In(W, g, "Total"))}

\* ... before its stratum it is no news if it was written, ...
Fresh(source, g) ==
  {W \in Once(source, g) : In(W, g, "Delta") \/ W.epoch = 0 => W.sunk[g] = <<>>}

Shown(source, g) == {W \in Fresh(source, g) : In(W, g, "Delta") => In(W, g, "Total")}

\* ... and between epochs it is no news at all.
Resting(source, g) == {W \in Once(source, g) : ~ In(W, g, "Delta")}

\* Inside a loop it may be news that this epoch has written; it is derived anew
\* only if it was not written before the derivation.
Opening(source, g) ==
  {W \in Once(source, g) : In(W, g, "Delta") => Few(W.sunk[g], W.epoch)}

Filling(source, g) ==
  {W \in Opening(source, g) : In(W, g, "New") => W.sunk[g] = <<>>}

Sent(source, g) ==
  {W \in Aloof(source, g) :
     /\ Alike(W.sunk[g])
     /\ W.sunk[g] # <<>> => In(W, g, "Total") \/ In(W, g, "Delta")
     /\ In(W, g, "New") => Few(W.sunk[g], W.epoch)}

Renewed(source, g) ==
  {W \in Once(source, g) : In(W, g, "New") => Few(W.sunk[g], W.epoch)}

\* They tell no worlds apart but by what matters for g.
LEMMA OnlyAboutFact ==
  ASSUME NEW source, NEW g
  PROVE  /\ OnlyOf(source, g, {}) /\ OnlyOf(source, g, Once(source, g))
         /\ OnlyOf(source, g, Fresh(source, g)) /\ OnlyOf(source, g, Shown(source, g))
         /\ OnlyOf(source, g, Resting(source, g))
         /\ OnlyOf(source, g, Opening(source, g)) /\ OnlyOf(source, g, Filling(source, g))
         /\ OnlyOf(source, g, Sent(source, g)) /\ OnlyOf(source, g, Renewed(source, g))
<1>1. OnlyOf(source, g, {})
  BY DEF OnlyOf
<1>2. OnlyOf(source, g, Once(source, g))
  BY DEF OnlyOf, Once, SameFor, Versions
<1>3. OnlyOf(source, g, Fresh(source, g))
  BY <1>2 DEF OnlyOf, Fresh, SameFor, Versions
<1>4. OnlyOf(source, g, Shown(source, g))
  BY <1>3 DEF OnlyOf, Shown, SameFor, Versions
<1>5. OnlyOf(source, g, Resting(source, g))
  BY <1>2 DEF OnlyOf, Resting, SameFor, Versions
<1>6. OnlyOf(source, g, Opening(source, g))
  BY <1>2 DEF OnlyOf, Opening, SameFor, Versions
<1>7. OnlyOf(source, g, Filling(source, g))
  BY <1>6 DEF OnlyOf, Filling, SameFor, Versions
<1>8. OnlyOf(source, g, Sent(source, g))
  BY DEF OnlyOf, Sent, SameFor, Versions
<1>9. OnlyOf(source, g, Renewed(source, g))
  BY <1>2 DEF OnlyOf, Renewed, SameFor, Versions
<1> QED
  BY <1>1, <1>2, <1>3, <1>4, <1>5, <1>6, <1>7, <1>8, <1>9

\* A statement about the relation of g that leads to where what matters for g
\* is of B.
LEMMA GoesAbout ==
  ASSUME NEW source, Fits(source), NEW g \in Facts, g.rel \in source.idb, NEW s, IsAbout(s, g.rel), NEW out,
         NEW A, A \subseteq Aloof(source, g), NEW B,
         \A W \in A, V \in Aloof(source, g) :
           Makes(s, W, V) /\ V.sunk = W.sunk /\ V.epoch = W.epoch => V \in B
  PROVE  Goes(A, s, B, out)
<1>1. g.rel \in Relations
  BY DEF Fits
<1>2. s.op # "loop"
  BY DEF IsAbout, IsInsert, Merge, Purge, Swap
<1>3. ASSUME NEW W \in A, NEW V \in Worlds, Makes(s, W, V)
      PROVE  s.op # "exit" /\ V \in B
  <2>1. s.op # "exit"
    BY <1>1, <1>3, AboutMakes
  <2>2. V \in Aloof(source, g) /\ V.sunk = W.sunk /\ V.epoch = W.epoch
    BY <1>3, AboutAloof
  <2> QED
    BY <1>3, <2>1, <2>2
<1>4. Carries(A, s, B, out)
  BY <1>3 DEF Carries
<1> QED
  BY <1>2, <1>4 DEF Goes

\* What a merge, a purge and a swap of its relation do to g.
LEMMA MergeIn ==
  ASSUME NEW g \in Facts, NEW u \in Versions, NEW v \in Versions, NEW W, NEW V,
         Makes(Merge(Key(g.rel, u), Key(g.rel, v)), W, V)
  PROVE  \A w \in Versions : In(V, g, w) <=> In(W, g, w) \/ (w = v /\ In(W, g, u))
<1>1. g.rel \in Relations
  BY ConstantAssumption
<1>2. /\ V.rel[<<g.rel, v>>] = W.rel[<<g.rel, v>>] \cup W.rel[<<g.rel, u>>]
      /\ \A x \in Relations, w \in Versions : x # g.rel \/ w # v => V.rel[<<x, w>>] = W.rel[<<x, w>>]
  BY <1>1, MergeMakes
<1> QED
  BY <1>1, <1>2 DEF In

\* (a purge)
LEMMA PurgeIn ==
  ASSUME NEW g \in Facts, NEW u \in Versions, NEW W, NEW V, Makes(Purge(Key(g.rel, u)), W, V)
  PROVE  \A w \in Versions : In(V, g, w) <=> In(W, g, w) /\ w # u
<1> DEFINE s == Purge(Key(g.rel, u))
<1>1. g.rel \in Relations
  BY ConstantAssumption
<1>2. s.op = "purge" /\ s.key = <<g.rel, u>>
  BY DEF Purge, Key
<1> HIDE DEF s
<1>3. V.rel[s.key] = {} /\ SameBut(W, V, {s.key})
  BY <1>2 DEF Makes, s
<1>4. \A w \in Versions \ {u} : V.rel[<<g.rel, w>>] = W.rel[<<g.rel, w>>]
  <2> SUFFICES ASSUME NEW w \in Versions, w # u PROVE V.rel[<<g.rel, w>>] = W.rel[<<g.rel, w>>]
    OBVIOUS
  <2>1. <<g.rel, w>> \in Keys \ {s.key}
    BY <1>1, <1>2, SameKey DEF Keys
  <2> QED
    BY <1>3, <2>1 DEF SameBut
<1> QED
  BY <1>2, <1>3, <1>4 DEF In

\* (the swap of a loop)
LEMMA SwapIn ==
  ASSUME NEW g \in Facts, NEW W, NEW V, Makes(Swap(Key(g.rel, "New"), Key(g.rel, "Delta")), W, V)
  PROVE  /\ In(V, g, "Total") <=> In(W, g, "Total")
         /\ In(V, g, "Delta") <=> In(W, g, "New")
<1> DEFINE s == Swap(Key(g.rel, "New"), Key(g.rel, "Delta"))
<1>1. g.rel \in Relations
  BY ConstantAssumption
<1>2. s.op = "swap" /\ s.left = <<g.rel, "New">> /\ s.right = <<g.rel, "Delta">>
  BY DEF Swap, Key
<1> HIDE DEF s
<1>3. V.rel[s.right] = W.rel[s.left] /\ SameBut(W, V, {s.left, s.right})
  BY <1>2 DEF Makes, s
<1>4. <<g.rel, "Total">> \in Keys \ {s.left, s.right}
  BY <1>1, <1>2 DEF Keys, Versions
<1>5. V.rel[<<g.rel, "Total">>] = W.rel[<<g.rel, "Total">>]
  BY <1>3, <1>4 DEF SameBut
<1> QED
  BY <1>2, <1>3, <1>5 DEF In

\* What an insert into its relation does: g is there already, or a row with
\* that head was reached, or it is a ground fact of the first epoch.
LEMMA InsertIn ==
  ASSUME NEW g \in Facts, NEW v \in Versions, NEW s, IsInsert(s, g.rel, v), NEW W, NEW V, Makes(s, W, V)
  PROVE  /\ \A w \in Versions : w # v => (In(V, g, w) <=> In(W, g, w))
         /\ In(V, g, v) /\ ~ In(W, g, v) =>
              IF s.ground THEN W.epoch = 0 ELSE \E row \in s.rows : g = row.head /\ ReachedIn(W, row)
<1>1. g.rel \in Relations /\ s.op = "insert" /\ s.into = <<g.rel, v>>
  BY ConstantAssumption DEF IsInsert, Key
<1>2. PICK X \in SUBSET Facts :
        /\ V.rel[s.into] = W.rel[s.into] \cup X
        /\ SameBut(W, V, {s.into})
        /\ \A f \in X : \E row \in s.rows : f = row.head /\ (s.ground \/ ReachedIn(W, row))
        /\ s.ground /\ W.epoch # 0 => X = {}
  BY <1>1 DEF Makes, Inserts
<1>3. \A w \in Versions \ {v} : V.rel[<<g.rel, w>>] = W.rel[<<g.rel, w>>]
  <2> SUFFICES ASSUME NEW w \in Versions, w # v PROVE V.rel[<<g.rel, w>>] = W.rel[<<g.rel, w>>]
    OBVIOUS
  <2>1. <<g.rel, w>> \in Keys \ {s.into}
    BY <1>1, SameKey DEF Keys
  <2> QED
    BY <1>2, <2>1 DEF SameBut
<1>4. In(V, g, v) /\ ~ In(W, g, v) => g \in X
  BY <1>1, <1>2 DEF In
<1> QED
  BY <1>2, <1>3, <1>4 DEF In

-----------------------------------------------------------------------------
(* The rules that drop a row with a known head.                             *)

GuardedIn(source) ==
  {r \in source.idb : \A c \in ToSet(source.rules) :
     c.head.rel = r => c.pos # <<>> /\ VarsOf(c, c.head) \subseteq SearchedVars(c)}

\* A row of such a rule is not reached when its head is in Total.
LEMMA GuardHolds ==
  ASSUME NEW source, Fits(source), NEW r \in ToSet(source.rules), r.head.rel \in GuardedIn(source),
         NEW v, NEW s \in ToSet(LowerRule(r, v)), NEW row \in s.rows, NEW W, ReachedIn(W, row)
  PROVE  ~ In(W, row.head, "Total") /\ ~ s.ground
<1>1. r.pos # <<>> /\ VarsOf(r, r.head) \subseteq SearchedVars(r)
  BY DEF GuardedIn
<1>2. IsSeq(r.pos)
  BY DEF Fits, Proper, ProperRule
<1>3. PICK versions \in ToSet(SemiNaiveRewrites(r)) : s = LowerRewrite(r, versions, v)
  BY <1>2, LoweredInserts
<1> DEFINE order == OrderTerms(r, versions)
<1>4. PICK b \in Bindings(r) : row = LowerRow(r, order, b)
  <2>1. \A k \in s.rows : \E b \in Bindings(r) : k = LowerRow(r, order, b)
    BY <1>3 DEF LowerRewrite, Insert
  <2> QED
    BY <2>1
<1>5. row.head = Resolve(r.head, b) /\ <<Resolve(r.head, b), "Total">> \in row.absent
  <2>1. HeadGuard(r, b) = {<<Resolve(r.head, b), "Total">>}
    BY <1>1 DEF HeadGuard
  <2>2. row.head = Resolve(r.head, b) /\ HeadGuard(r, b) \subseteq row.absent
    <3> HIDE DEF order
    <3> QED
      BY <1>4 DEF LowerRow
  <2> QED
    BY <2>1, <2>2
<1>6. ~ Sees(W, row.head, "Total")
  <2> DEFINE a == <<row.head, "Total">>
  <2>1. a \in row.absent /\ a[1] = row.head /\ a[2] = "Total"
    BY <1>5
  <2> HIDE DEF a
  <2> QED
    BY <2>1 DEF ReachedIn
<1>7. Matches(row.head, row.head)
  BY DEF Matches
<1>8. ~ s.ground
  BY <1>3, RewriteRows
<1> QED
  BY <1>6, <1>7, <1>8 DEF Sees, In

\* A statement for each of some outputs, where that for g's relation leads from A to B:
\* the merges into Total, ...
LEMMA DeltasAbout ==
  ASSUME NEW source, Fits(source), NEW g \in Facts, NEW A, OnlyOf(source, g, A), NEW B, OnlyOf(source, g, B),
         NEW R \in SUBSET source.idb, IsFiniteSet(R), NEW out,
         Goes(A, Merge(Key(g.rel, "Delta"), Key(g.rel, "Total")), B, out)
  PROVE  IsSeq(MergeDelta(R)) /\ Course(MergeDelta(R), A, IF g.rel \in R THEN B ELSE A, out)
<1> DEFINE F == [q \in R |-> Merge(Key(q, "Delta"), Key(q, "Total"))]
           order == SetToSeq(R)
           p == MergeDelta(R)
<1>1. p = [i \in DOMAIN order |-> F[order[i]]]
  <2>1. \A i \in DOMAIN order : order[i] \in R
    BY SetToSeqIs DEF ToSet
  <2>2. p = [i \in DOMAIN order |-> Merge(Key(order[i], "Delta"), Key(order[i], "Total"))]
    BY DEF MergeDelta, ForEach
  <2> QED
    BY <2>1, <2>2
<1>2. \A y \in R : IsAbout(F[y], y)
  BY DEF IsAbout, Versions
<1>3. g.rel \in R => Goes(A, F[g.rel], B, out)
  OBVIOUS
<1> HIDE DEF F, p
<1>4. IsSeq(p) /\ Course(p, A, IF g.rel \in R THEN B ELSE A, out)
  BY <1>1, <1>2, <1>3, CourseAbout
<1> QED
  BY <1>4 DEF p

\* ... those that feed the strata after them, ...
LEMMA TotalsAbout ==
  ASSUME NEW source, Fits(source), NEW g \in Facts, NEW A, OnlyOf(source, g, A), NEW B, OnlyOf(source, g, B),
         NEW R \in SUBSET source.idb, IsFiniteSet(R), NEW out,
         Goes(A, Merge(Key(g.rel, "Total"), Key(g.rel, "Delta")), B, out)
  PROVE  IsSeq(MergeTotal(R)) /\ Course(MergeTotal(R), A, IF g.rel \in R THEN B ELSE A, out)
<1> DEFINE F == [q \in R |-> Merge(Key(q, "Total"), Key(q, "Delta"))]
           order == SetToSeq(R)
           p == MergeTotal(R)
<1>1. p = [i \in DOMAIN order |-> F[order[i]]]
  <2>1. \A i \in DOMAIN order : order[i] \in R
    BY SetToSeqIs DEF ToSet
  <2>2. p = [i \in DOMAIN order |-> Merge(Key(order[i], "Total"), Key(order[i], "Delta"))]
    BY DEF MergeTotal, ForEach
  <2> QED
    BY <2>1, <2>2
<1>2. \A y \in R : IsAbout(F[y], y)
  BY DEF IsAbout, Versions
<1>3. g.rel \in R => Goes(A, F[g.rel], B, out)
  OBVIOUS
<1> HIDE DEF F, p
<1>4. IsSeq(p) /\ Course(p, A, IF g.rel \in R THEN B ELSE A, out)
  BY <1>1, <1>2, <1>3, CourseAbout
<1> QED
  BY <1>4 DEF p

\* ... the purges of a version, ...
PurgesOf(R, v) == ForEach(R, LAMBDA r : Purge(Key(r, v)))

\* (the purges)
LEMMA PurgesAbout ==
  ASSUME NEW source, Fits(source), NEW g \in Facts, NEW A, OnlyOf(source, g, A), NEW B, OnlyOf(source, g, B),
         NEW R \in SUBSET source.idb, IsFiniteSet(R), NEW out, NEW v \in Versions,
         Goes(A, Purge(Key(g.rel, v)), B, out)
  PROVE  IsSeq(PurgesOf(R, v)) /\ Course(PurgesOf(R, v), A, IF g.rel \in R THEN B ELSE A, out)
<1> DEFINE F == [q \in R |-> Purge(Key(q, v))]
           order == SetToSeq(R)
           p == PurgesOf(R, v)
<1>1. p = [i \in DOMAIN order |-> F[order[i]]]
  <2>1. \A i \in DOMAIN order : order[i] \in R
    BY SetToSeqIs DEF ToSet
  <2>2. p = [i \in DOMAIN order |-> Purge(Key(order[i], v))]
    BY DEF ForEach, PurgesOf
  <2> QED
    BY <2>1, <2>2
<1>2. \A y \in R : IsAbout(F[y], y)
  BY DEF IsAbout
<1>3. g.rel \in R => Goes(A, F[g.rel], B, out)
  OBVIOUS
<1> HIDE DEF F, p
<1>4. IsSeq(p) /\ Course(p, A, IF g.rel \in R THEN B ELSE A, out)
  BY <1>1, <1>2, <1>3, CourseAbout
<1> QED
  BY <1>4 DEF p

\* ... and the swaps of a loop.
LEMMA SwapsAbout ==
  ASSUME NEW source, Fits(source), NEW g \in Facts, NEW A, OnlyOf(source, g, A), NEW B, OnlyOf(source, g, B),
         NEW R \in SUBSET source.idb, IsFiniteSet(R), NEW out,
         Goes(A, Swap(Key(g.rel, "New"), Key(g.rel, "Delta")), B, out)
  PROVE  LET p == ForEach(R, LAMBDA r : Swap(Key(r, "New"), Key(r, "Delta")))
         IN  IsSeq(p) /\ Course(p, A, IF g.rel \in R THEN B ELSE A, out)
<1> DEFINE F == [q \in R |-> Swap(Key(q, "New"), Key(q, "Delta"))]
           order == SetToSeq(R)
           p == ForEach(R, LAMBDA r : Swap(Key(r, "New"), Key(r, "Delta")))
<1>1. p = [i \in DOMAIN order |-> F[order[i]]]
  <2>1. \A i \in DOMAIN order : order[i] \in R
    BY SetToSeqIs DEF ToSet
  <2>2. p = [i \in DOMAIN order |-> Swap(Key(order[i], "New"), Key(order[i], "Delta"))]
    BY DEF ForEach
  <2> QED
    BY <2>1, <2>2
<1>2. \A y \in R : IsAbout(F[y], y)
  BY DEF IsAbout, Versions
<1>3. g.rel \in R => Goes(A, F[g.rel], B, out)
  OBVIOUS
<1> HIDE DEF F, p
<1>4. IsSeq(p) /\ Course(p, A, IF g.rel \in R THEN B ELSE A, out)
  BY <1>1, <1>2, <1>3, CourseAbout
<1> QED
  BY <1>4 DEF p

-----------------------------------------------------------------------------
(* What each statement about its relation makes of what is known of g.      *)

\* The merges, the purges and the swap.
LEMMA OnceMoves ==
  ASSUME NEW source, Fits(source), NEW g \in Facts, g.rel \in source.idb, NEW out
  PROVE  /\ Goes(Fresh(source, g), Merge(Key(g.rel, "Delta"), Key(g.rel, "Total")), Shown(source, g), out)
         /\ Goes(Sent(source, g), Merge(Key(g.rel, "Delta"), Key(g.rel, "Total")), Renewed(source, g), out)
         /\ Goes(Once(source, g), Merge(Key(g.rel, "Total"), Key(g.rel, "Delta")), Once(source, g), out)
         /\ Goes(Opening(source, g), Purge(Key(g.rel, "New")), Filling(source, g), out)
         /\ Goes(Once(source, g), Purge(Key(g.rel, "Delta")), Resting(source, g), out)
         /\ Goes(Renewed(source, g), Swap(Key(g.rel, "New"), Key(g.rel, "Delta")), Opening(source, g), out)
<1> DEFINE A == Aloof(source, g)
           m == Merge(Key(g.rel, "Delta"), Key(g.rel, "Total"))
           f == Merge(Key(g.rel, "Total"), Key(g.rel, "Delta"))
           n == Purge(Key(g.rel, "New"))
           d == Purge(Key(g.rel, "Delta"))
           t == Swap(Key(g.rel, "New"), Key(g.rel, "Delta"))
<1>1. /\ IsAbout(m, g.rel) /\ IsAbout(f, g.rel) /\ IsAbout(n, g.rel) /\ IsAbout(d, g.rel) /\ IsAbout(t, g.rel)
      /\ "Total" \in Versions /\ "Delta" \in Versions /\ "New" \in Versions
  BY DEF IsAbout, Versions
<1>2. /\ Once(source, g) \subseteq A /\ Fresh(source, g) \subseteq A /\ Sent(source, g) \subseteq A
      /\ Opening(source, g) \subseteq A /\ Renewed(source, g) \subseteq A
  BY DEF Once, Fresh, Sent, Opening, Renewed
<1>3. ASSUME NEW W, NEW V, Makes(m, W, V)
      PROVE  /\ In(V, g, "Total") <=> In(W, g, "Total") \/ In(W, g, "Delta")
             /\ In(V, g, "Delta") <=> In(W, g, "Delta")
             /\ In(V, g, "New") <=> In(W, g, "New")
  <2>1. PICK u \in Versions, v \in Versions : u = "Delta" /\ v = "Total"
    BY <1>1
  <2>2. \A w \in Versions : In(V, g, w) <=> In(W, g, w) \/ (w = v /\ In(W, g, u))
    BY <1>3, <2>1, MergeIn
  <2> QED
    BY <1>1, <2>1, <2>2
<1>4. ASSUME NEW W, NEW V, Makes(f, W, V)
      PROVE  In(V, g, "Total") <=> In(W, g, "Total")
  <2>1. PICK u \in Versions, v \in Versions : u = "Total" /\ v = "Delta"
    BY <1>1
  <2>2. \A w \in Versions : In(V, g, w) <=> In(W, g, w) \/ (w = v /\ In(W, g, u))
    BY <1>4, <2>1, MergeIn
  <2> QED
    BY <1>1, <2>1, <2>2
<1>5. ASSUME NEW W, NEW V, Makes(n, W, V)
      PROVE  /\ In(V, g, "Total") <=> In(W, g, "Total")
             /\ In(V, g, "Delta") <=> In(W, g, "Delta")
             /\ ~ In(V, g, "New")
  <2>1. PICK u \in Versions : u = "New"
    BY <1>1
  <2>2. \A w \in Versions : In(V, g, w) <=> In(W, g, w) /\ w # u
    BY <1>5, <2>1, PurgeIn
  <2> QED
    BY <1>1, <2>1, <2>2
<1>6. ASSUME NEW W, NEW V, Makes(d, W, V)
      PROVE  (In(V, g, "Total") <=> In(W, g, "Total")) /\ ~ In(V, g, "Delta")
  <2>1. PICK u \in Versions : u = "Delta"
    BY <1>1
  <2>2. \A w \in Versions : In(V, g, w) <=> In(W, g, w) /\ w # u
    BY <1>6, <2>1, PurgeIn
  <2> QED
    BY <1>1, <2>1, <2>2
<1>7. ASSUME NEW W, NEW V, Makes(t, W, V)
      PROVE  /\ In(V, g, "Total") <=> In(W, g, "Total")
             /\ In(V, g, "Delta") <=> In(W, g, "New")
  BY <1>7, SwapIn
<1> HIDE DEF m, f, n, d, t
<1>8. Goes(Fresh(source, g), m, Shown(source, g), out)
  <2>1. ASSUME NEW W \in Fresh(source, g), NEW V \in A, Makes(m, W, V), V.sunk = W.sunk, V.epoch = W.epoch
        PROVE  V \in Shown(source, g)
    BY <1>3, <2>1 DEF Shown, Fresh, Once
  <2> QED
    BY <1>1, <1>2, <2>1, GoesAbout
<1>9. Goes(Sent(source, g), m, Renewed(source, g), out)
  <2>1. ASSUME NEW W \in Sent(source, g), NEW V \in A, Makes(m, W, V), V.sunk = W.sunk, V.epoch = W.epoch
        PROVE  V \in Renewed(source, g)
    BY <1>3, <2>1 DEF Sent, Renewed, Once
  <2> QED
    BY <1>1, <1>2, <2>1, GoesAbout
<1>10. Goes(Once(source, g), f, Once(source, g), out)
  <2>1. ASSUME NEW W \in Once(source, g), NEW V \in A, Makes(f, W, V), V.sunk = W.sunk, V.epoch = W.epoch
        PROVE  V \in Once(source, g)
    BY <1>4, <2>1 DEF Once
  <2> QED
    BY <1>1, <1>2, <2>1, GoesAbout
<1>11. Goes(Opening(source, g), n, Filling(source, g), out)
  <2>1. ASSUME NEW W \in Opening(source, g), NEW V \in A, Makes(n, W, V), V.sunk = W.sunk, V.epoch = W.epoch
        PROVE  V \in Filling(source, g)
    BY <1>5, <2>1 DEF Opening, Filling, Once
  <2> QED
    BY <1>1, <1>2, <2>1, GoesAbout
<1>12. Goes(Once(source, g), d, Resting(source, g), out)
  <2>1. ASSUME NEW W \in Once(source, g), NEW V \in A, Makes(d, W, V), V.sunk = W.sunk, V.epoch = W.epoch
        PROVE  V \in Resting(source, g)
    BY <1>6, <2>1 DEF Resting, Once
  <2> QED
    BY <1>1, <1>2, <2>1, GoesAbout
<1>13. Goes(Renewed(source, g), t, Opening(source, g), out)
  <2>1. ASSUME NEW W \in Renewed(source, g), NEW V \in A, Makes(t, W, V), V.sunk = W.sunk, V.epoch = W.epoch
        PROVE  V \in Opening(source, g)
    BY <1>7, <2>1 DEF Renewed, Opening, Once
  <2> QED
    BY <1>1, <1>2, <2>1, GoesAbout
<1> QED
  BY <1>8, <1>9, <1>10, <1>11, <1>12, <1>13 DEF m, f, n, d, t

\* One more entry of an epoch that was the only one so far.
LEMMA OneMore ==
  ASSUME NEW k, NEW e, Few(k, e)
  PROVE  Alike(Append(k, e)) /\ Append(k, e) # <<>> /\ (k = <<>> => Few(Append(k, e), e))
<1>1. CASE k = <<>>
  <2>1. Append(k, e) = <<e>> /\ Len(<<e>>) = 1 /\ DOMAIN <<e>> = 1..1 /\ <<e>>[1] = e /\ <<e>> # <<>>
    BY <1>1
  <2>2. \A i \in 1..1 : i = 1
    OBVIOUS
  <2> QED
    BY <2>1, <2>2 DEF Alike, Few
<1>2. CASE k = <<e>>
  <2> DEFINE m == Append(k, e)
  <2>1. <<e>> \in Seq({e}) /\ Len(<<e>>) = 1 /\ <<e>>[1] = e
    OBVIOUS
  <2>2. m \in Seq({e}) /\ Len(m) = 2 /\ k # <<>>
    BY <1>2, <2>1
  <2> HIDE DEF m
  <2>3. \A i \in DOMAIN m : m[i] = e
    BY <2>2
  <2>4. m # <<>>
    BY <2>2
  <2> QED
    BY <2>2, <2>3, <2>4 DEF Alike, m
<1> QED
  BY <1>1, <1>2 DEF Few

\* The sinks of its stratum write it if it is news.
LEMMA SinksOnce ==
  ASSUME NEW source, Fits(source), NEW g \in Facts, NEW c \in SUBSET source.idb, g.rel \in c, NEW out
  PROVE  /\ Goes(Shown(source, g), Sinks(c), Once(source, g), out)
         /\ Goes(Filling(source, g), Sinks(c), Sent(source, g), out)
<1> DEFINE s == Sinks(c)
<1>1. s.op = "sinks"
  BY DEF Sinks
<1>2. ASSUME NEW W \in Aloof(source, g), NEW V \in Worlds, Makes(s, W, V)
      PROVE  /\ V \in Aloof(source, g) /\ V.epoch = W.epoch /\ \A v : In(V, g, v) <=> In(W, g, v)
             /\ V.sunk[g] = IF In(W, g, "Delta") THEN Append(W.sunk[g], W.epoch) ELSE W.sunk[g]
  BY <1>2, SinksMake DEF In
<1> HIDE DEF s
<1>3. ASSUME NEW W \in Shown(source, g), NEW V \in Worlds, Makes(s, W, V) PROVE V \in Once(source, g)
  <2>1. W \in Aloof(source, g) /\ Alike(W.sunk[g]) /\ (W.sunk[g] # <<>> => In(W, g, "Total"))
        /\ (In(W, g, "Delta") => W.sunk[g] = <<>> /\ In(W, g, "Total"))
    BY DEF Shown, Fresh, Once
  <2>2. /\ V \in Aloof(source, g) /\ (In(V, g, "Total") <=> In(W, g, "Total"))
        /\ V.sunk[g] = IF In(W, g, "Delta") THEN Append(W.sunk[g], W.epoch) ELSE W.sunk[g]
    BY <1>2, <1>3, <2>1
  <2>3. CASE In(W, g, "Delta")
    <3>1. Few(W.sunk[g], W.epoch)
      BY <2>1, <2>3 DEF Few
    <3>2. Alike(Append(W.sunk[g], W.epoch))
      BY <3>1, OneMore
    <3> QED
      BY <2>1, <2>2, <2>3, <3>2 DEF Once
  <2>4. CASE ~ In(W, g, "Delta")
    BY <2>1, <2>2, <2>4 DEF Once
  <2> QED
    BY <2>3, <2>4
<1>4. ASSUME NEW W \in Filling(source, g), NEW V \in Worlds, Makes(s, W, V) PROVE V \in Sent(source, g)
  <2>1. /\ W \in Aloof(source, g) /\ Alike(W.sunk[g]) /\ (W.sunk[g] # <<>> => In(W, g, "Total"))
        /\ In(W, g, "Delta") => Few(W.sunk[g], W.epoch)
        /\ In(W, g, "New") => W.sunk[g] = <<>>
    BY DEF Filling, Opening, Once
  <2>2. /\ V \in Aloof(source, g) /\ V.epoch = W.epoch
        /\ In(V, g, "Total") <=> In(W, g, "Total")
        /\ In(V, g, "Delta") <=> In(W, g, "Delta")
        /\ In(V, g, "New") <=> In(W, g, "New")
        /\ V.sunk[g] = IF In(W, g, "Delta") THEN Append(W.sunk[g], W.epoch) ELSE W.sunk[g]
    BY <1>2, <1>4, <2>1
  <2>3. CASE In(W, g, "Delta")
    <3>1. Alike(V.sunk[g]) /\ (W.sunk[g] = <<>> => Few(V.sunk[g], V.epoch))
      BY <2>1, <2>2, <2>3, OneMore
    <3> QED
      BY <2>1, <2>2, <2>3, <3>1 DEF Sent
  <2>4. CASE ~ In(W, g, "Delta")
    BY <2>1, <2>2, <2>4 DEF Sent, Few
  <2> QED
    BY <2>3, <2>4
<1>5. Carries(Shown(source, g), s, Once(source, g), out) /\ Carries(Filling(source, g), s, Sent(source, g), out)
  BY <1>1, <1>3, <1>4 DEF Carries
<1>6. Goes(Shown(source, g), s, Once(source, g), out) /\ Goes(Filling(source, g), s, Sent(source, g), out)
  BY <1>1, <1>5 DEF Goes
<1> QED
  BY <1>6 DEF s

\* Ground facts are no news in a later epoch than the first, ...
LEMMA FactsOnce ==
  ASSUME NEW source, Fits(source), NEW g \in Facts, g.rel \in source.idb,
         NEW facts, IsFiniteSet(facts), facts \subseteq source.facts, NEW out
  PROVE  IsSeq(LowerFacts(facts)) /\ Course(LowerFacts(facts), Fresh(source, g), Fresh(source, g), out)
<1> DEFINE p == LowerFacts(facts)
           order == SetToSeq(facts)
           J == Fresh(source, g)
<1>1. facts \subseteq Facts /\ \A f \in facts : f.rel \in source.idb
  BY DEF Fits, Writable, Proper
<1>2. IsSeq(p)
  BY <1>1, LowerFactsParts
<1>3. ASSUME NEW s \in ToSet(p) PROVE \E f \in facts : IsInsert(s, f.rel, "Delta") /\ s.ground
  <2>1. ToSet(order) = facts
    BY SetToSeqIs
  <2>2. p = [i \in DOMAIN order |-> LowerFact(order[i])]
    BY DEF LowerFacts
  <2>3. PICK f \in facts : s = LowerFact(f)
    <3> HIDE DEF order, p
    <3> QED
      BY <1>3, <2>1, <2>2 DEF ToSet
  <2> DEFINE row == [head |-> f, search |-> {}, absent |-> {}, aggs |-> {}]
  <2>4. s = [op |-> "insert", into |-> Key(f.rel, "Delta"), ground |-> TRUE, rows |-> {row}]
    BY <2>3 DEF LowerFact, Insert
  <2>5. row.head = f /\ row.search = {}
    OBVIOUS
  <2> HIDE DEF row
  <2>6. s.op = "insert" /\ s.into = Key(f.rel, "Delta") /\ s.rows = {row} /\ s.ground
    BY <2>4
  <2> QED
    BY <1>1, <2>5, <2>6 DEF IsInsert
<1> HIDE DEF p
<1>4. OnlyOf(source, g, J) /\ J \subseteq Aloof(source, g)
  BY OnlyAboutFact DEF Fresh, Once
<1>5. ASSUME NEW s \in ToSet(p) PROVE Goes(J, s, J, out)
  <2>1. PICK f \in facts : IsInsert(s, f.rel, "Delta") /\ s.ground
    BY <1>3
  <2>2. f.rel \in source.idb /\ IsAbout(s, f.rel)
    BY <1>1, <2>1 DEF IsAbout, Versions
  <2>3. CASE f.rel # g.rel
    <3> HIDE DEF J
    <3> QED
      BY <1>4, <2>2, <2>3, GoesOther
  <2>4. CASE f.rel = g.rel
    <3>1. ASSUME NEW W \in J, NEW V \in Aloof(source, g), Makes(s, W, V), V.sunk = W.sunk, V.epoch = W.epoch
          PROVE  V \in J
      <4>1. /\ In(V, g, "Total") <=> In(W, g, "Total")
            /\ In(V, g, "Delta") /\ ~ In(W, g, "Delta") => W.epoch = 0
        <5>1. PICK v \in Versions : v = "Delta"
          BY DEF Versions
        <5>2. IsInsert(s, g.rel, v) /\ Makes(s, W, V)
          BY <2>1, <2>4, <3>1, <5>1
        <5>3. /\ \A w \in Versions : w # v => (In(V, g, w) <=> In(W, g, w))
              /\ In(V, g, v) /\ ~ In(W, g, v) => W.epoch = 0
          BY <2>1, <5>2, InsertIn
        <5> QED
          BY <5>1, <5>3 DEF Versions
      <4> QED
        BY <3>1, <4>1 DEF Fresh, Once
    <3> HIDE DEF J
    <3> QED
      BY <1>4, <2>2, <2>4, <3>1, GoesAbout
  <2> QED
    BY <2>3, <2>4
<1> HIDE DEF J
<1>6. Course(p, J, J, out)
  BY <1>2, <1>5, CourseStays
<1> QED
  BY <1>2, <1>6 DEF p, J

\* ... and a guarded rule derives into v no fact that was written before.
LEMMA RulesOnce ==
  ASSUME NEW source, Fits(source), NEW g \in Facts, g.rel \in GuardedIn(source),
         NEW rules, IsSeq(rules), ToSet(rules) \subseteq ToSet(source.rules),
         NEW v \in {"Delta", "New"},
         v = "Delta" => \A r \in ToSet(rules) : \A a \in ToSet(r.pos) : a.rel # r.head.rel,
         NEW J, OnlyOf(source, g, J), J \subseteq Once(source, g),
         \A W \in J, V \in Aloof(source, g) :
           /\ V.sunk = W.sunk /\ V.epoch = W.epoch
           /\ \A w \in Versions : w # v => (In(V, g, w) <=> In(W, g, w))
           /\ In(V, g, v) => In(W, g, v) \/ W.sunk[g] = <<>>
           => V \in J,
         NEW out
  PROVE  IsSeq(LowerRules(rules, v)) /\ Course(LowerRules(rules, v), J, J, out)
<1> DEFINE p == LowerRules(rules, v)
<1>1. \A r \in ToSet(rules) : IsSeq(r.pos) /\ r.head.rel \in source.idb
  BY DEF Fits, Proper, ProperRule, IsAtom
<1>2. IsSeq(p) /\ \A s \in ToSet(p) : \E r \in ToSet(rules) : s \in ToSet(LowerRule(r, v))
  BY <1>1, LoweredRules
<1> HIDE DEF p
<1>3. J \subseteq Aloof(source, g) /\ g.rel \in source.idb /\ v \in Versions
  BY DEF Once, GuardedIn, Versions
<1>4. ASSUME NEW s \in ToSet(p) PROVE Goes(J, s, J, out)
  <2>1. PICK r \in ToSet(rules) : s \in ToSet(LowerRule(r, v))
    BY <1>2
  <2>2. IsInsert(s, r.head.rel, v)
    BY <2>1, LowerRuleParts DEF Fits
  <2>3. r.head.rel \in source.idb /\ IsAbout(s, r.head.rel)
    BY <1>1, <1>3, <2>2 DEF IsAbout
  <2>4. CASE r.head.rel # g.rel
    BY <2>3, <2>4, GoesOther
  <2>5. CASE r.head.rel = g.rel
    <3>1. ASSUME NEW W \in J, NEW V \in Aloof(source, g), Makes(s, W, V), V.sunk = W.sunk, V.epoch = W.epoch
          PROVE  V \in J
      <4>1. /\ \A w \in Versions : w # v => (In(V, g, w) <=> In(W, g, w))
            /\ In(V, g, v) /\ ~ In(W, g, v) =>
                 IF s.ground THEN W.epoch = 0 ELSE \E row \in s.rows : g = row.head /\ ReachedIn(W, row)
        BY <1>3, <2>2, <2>5, <3>1, InsertIn
      <4>2. ASSUME In(V, g, v), ~ In(W, g, v) PROVE W.sunk[g] = <<>>
        <5>1. ~ s.ground
          BY <1>1, <2>1, LoweredInto
        <5>2. PICK row \in s.rows : g = row.head /\ ReachedIn(W, row)
          BY <4>1, <4>2, <5>1
        <5>3. ~ In(W, row.head, "Total")
          BY <2>1, <2>5, <5>2, GuardHolds
        <5> QED
          BY <5>2, <5>3 DEF Once
      <4> QED
        BY <3>1, <4>1, <4>2
    <3> QED
      BY <1>3, <2>3, <2>5, <3>1, GoesAbout
  <2> QED
    BY <2>4, <2>5
<1>5. Course(p, J, J, out)
  BY <1>2, <1>4, CourseStays
<1> QED
  BY <1>2, <1>5 DEF p

\* Static rules, and the merges that feed later strata.
LEMMA StaticOnce ==
  ASSUME NEW source, Fits(source), NEW g \in Facts, g.rel \in GuardedIn(source), NEW c,
         NEW rules, IsSeq(rules), ToSet(rules) \subseteq ToSet(source.rules),
         \A r \in ToSet(rules) : r.head.rel \in c /\ \A a \in ToSet(r.pos) : a.rel \notin c, NEW out
  PROVE  IsSeq(LowerRules(rules, "Delta")) /\ Course(LowerRules(rules, "Delta"), Fresh(source, g), Fresh(source, g), out)
<1> DEFINE J == Fresh(source, g)
<1>1. \A W \in J, V \in Aloof(source, g) :
        /\ V.sunk = W.sunk /\ V.epoch = W.epoch
        /\ \A w \in Versions : w # "Delta" => (In(V, g, w) <=> In(W, g, w))
        /\ In(V, g, "Delta") => In(W, g, "Delta") \/ W.sunk[g] = <<>>
        => V \in J
  BY DEF Fresh, Once, Versions
<1>2. OnlyOf(source, g, J) /\ J \subseteq Once(source, g)
  BY OnlyAboutFact DEF Fresh
<1> HIDE DEF J
<1>3. PICK v \in {"Delta", "New"} : v = "Delta"
  OBVIOUS
<1>4. \A W \in J, V \in Aloof(source, g) :
        /\ V.sunk = W.sunk /\ V.epoch = W.epoch
        /\ \A w \in Versions : w # v => (In(V, g, w) <=> In(W, g, w))
        /\ In(V, g, v) => In(W, g, v) \/ W.sunk[g] = <<>>
        => V \in J
  BY <1>1, <1>3
<1>5. \A r \in ToSet(rules) : \A a \in ToSet(r.pos) : a.rel # r.head.rel
  OBVIOUS
<1>6. IsSeq(LowerRules(rules, v)) /\ Course(LowerRules(rules, v), J, J, out)
  BY <1>2, <1>4, <1>5, RulesOnce
<1> QED
  BY <1>3, <1>6 DEF J

\* (the merges)
LEMMA FeedsOnce ==
  ASSUME NEW source, Fits(source), NEW g \in Facts, g.rel \in source.idb,
         NEW c \in SUBSET source.idb, IsFiniteSet(c), NEW out
  PROVE  IsSeq(MergeTotal(c)) /\ Course(MergeTotal(c), Once(source, g), Once(source, g), out)
<1> DEFINE O == Once(source, g)
<1>1. OnlyOf(source, g, O) /\ Goes(O, Merge(Key(g.rel, "Total"), Key(g.rel, "Delta")), O, out)
  BY OnlyAboutFact, OnceMoves
<1> HIDE DEF O
<1>2. IsSeq(MergeTotal(c)) /\ Course(MergeTotal(c), O, IF g.rel \in c THEN O ELSE O, out)
  BY <1>1, TotalsAbout
<1> QED
  BY <1>2 DEF O

\* The stratum of g, when it does not read itself.
LEMMA FlatOnce ==
  ASSUME NEW source, Fits(source), NEW g \in Facts, g.rel \in GuardedIn(source),
         NEW c \in SUBSET source.idb, IsFiniteSet(c), g.rel \in c,
         NEW stratum, stratum = StratumOf(source, c), ~ stratum.recursive, NEW out
  PROVE  IsSeq(LowerStratum(stratum)) /\ Course(LowerStratum(stratum), Fresh(source, g), Once(source, g), out)
<1> DEFINE facts == LowerFacts(stratum.facts)
           rules == LowerRules(stratum.rules, "Delta")
           merges == MergeDelta(c)
           sinks == <<Sinks(c)>>
           feeds == MergeTotal(c)
           J == Fresh(source, g)
           S == Shown(source, g)
           O == Once(source, g)
<1>1. /\ stratum.relations = c /\ IsSeq(stratum.rules)
      /\ ToSet(stratum.rules) \subseteq ToSet(source.rules)
      /\ \A r \in ToSet(stratum.rules) : r.head.rel \in c
      /\ IsFiniteSet(stratum.facts) /\ stratum.facts \subseteq source.facts
      /\ \A r \in ToSet(stratum.rules) : \A a \in ToSet(r.pos) : a.rel \notin c
  BY StratumRules DEF Fits
<1>2. LowerStratum(stratum) = facts \o rules \o merges \o sinks \o feeds
  BY <1>1 DEF LowerStratum, LowerFlatStratum
<1>3. g.rel \in source.idb /\ OnlyOf(source, g, J) /\ OnlyOf(source, g, S) /\ OnlyOf(source, g, O) /\ J \subseteq O
  BY OnlyAboutFact DEF GuardedIn, Fresh
<1>4. IsSeq(facts) /\ Course(facts, J, J, out)
  BY <1>1, <1>3, FactsOnce
<1>5. IsSeq(rules) /\ Course(rules, J, J, out)
  BY <1>1, StaticOnce
<1> HIDE DEF J, S, O
<1>6. IsSeq(merges) /\ Course(merges, J, S, out)
  <2>1. Goes(J, Merge(Key(g.rel, "Delta"), Key(g.rel, "Total")), S, out)
    BY <1>3, OnceMoves DEF J, S
  <2>2. IsSeq(merges) /\ Course(merges, J, IF g.rel \in c THEN S ELSE J, out)
    BY <1>3, <2>1, DeltasAbout
  <2> QED
    BY <2>2
<1>7. IsSeq(sinks) /\ Course(sinks, S, O, out)
  <2>1. Goes(S, Sinks(c), O, out)
    BY SinksOnce DEF S, O
  <2> QED
    BY <2>1, CourseOne, SeqOne
<1>8. IsSeq(feeds) /\ Course(feeds, O, O, out)
  BY <1>3, FeedsOnce DEF O
<1> HIDE DEF facts, rules, merges, sinks, feeds
<1>9. ASSUME NEW p, NEW q, IsSeq(p), IsSeq(q), NEW A, NEW B, NEW C,
             Course(p, A, B, out), Course(q, B, C, out)
      PROVE  IsSeq(p \o q) /\ Course(p \o q, A, C, out)
  BY <1>9, CourseConcat, SeqConcat
<1>10. IsSeq(facts \o rules) /\ Course(facts \o rules, J, J, out)
  BY <1>4, <1>5, <1>9
<1>11. IsSeq(facts \o rules \o merges) /\ Course(facts \o rules \o merges, J, S, out)
  BY <1>6, <1>9, <1>10
<1>12. /\ IsSeq(facts \o rules \o merges \o sinks)
       /\ Course(facts \o rules \o merges \o sinks, J, O, out)
  BY <1>7, <1>9, <1>11
<1>13. IsSeq(LowerStratum(stratum)) /\ Course(LowerStratum(stratum), J, O, out)
  BY <1>2, <1>8, <1>9, <1>12
<1> QED
  BY <1>13 DEF J, O

\* The body of its loop.
LEMMA LoopOnce ==
  ASSUME NEW source, Fits(source), NEW g \in Facts, g.rel \in GuardedIn(source),
         NEW c \in SUBSET source.idb, IsFiniteSet(c), g.rel \in c,
         NEW stratum, stratum = StratumOf(source, c),
         NEW dynamic, IsSeq(dynamic), ToSet(dynamic) \subseteq ToSet(stratum.rules), NEW out
  PROVE  Goes(Opening(source, g), Loop(LoopBody(stratum, dynamic)), Once(source, g), out)
<1> DEFINE purges == ForEach(c, LAMBDA r : Purge(Key(r, "New")))
           inserts == LowerRules(dynamic, "New")
           sinks == <<Sinks(c)>>
           merges == MergeDelta(c)
           exit == <<Exit({Key(r, "New") : r \in c})>>
           swaps == ForEach(c, LAMBDA r : Swap(Key(r, "New"), Key(r, "Delta")))
           body == LoopBody(stratum, dynamic)
           P == Opening(source, g)
           F == Filling(source, g)
           T == Sent(source, g)
           N == Renewed(source, g)
           O == Once(source, g)
<1>1. stratum.relations = c /\ ToSet(dynamic) \subseteq ToSet(source.rules)
  BY StratumRules DEF Fits
<1>2. body = purges \o inserts \o sinks \o merges \o exit \o swaps
  BY <1>1 DEF LoopBody
<1>3. /\ g.rel \in source.idb /\ OnlyOf(source, g, P) /\ OnlyOf(source, g, F) /\ OnlyOf(source, g, T)
      /\ OnlyOf(source, g, N) /\ F \subseteq O /\ N \subseteq O
  BY OnlyAboutFact DEF GuardedIn, Filling, Opening, Renewed
<1>4. IsSeq(inserts) /\ Course(inserts, F, F, O)
  <2>1. \A W \in F, V \in Aloof(source, g) :
          /\ V.sunk = W.sunk /\ V.epoch = W.epoch
          /\ \A w \in Versions : w # "New" => (In(V, g, w) <=> In(W, g, w))
          /\ In(V, g, "New") => In(W, g, "New") \/ W.sunk[g] = <<>>
          => V \in F
    BY DEF Filling, Opening, Once, Versions
  <2>2. PICK v \in {"Delta", "New"} : v = "New"
    OBVIOUS
  <2> HIDE DEF F, O
  <2>3. \A W \in F, V \in Aloof(source, g) :
          /\ V.sunk = W.sunk /\ V.epoch = W.epoch
          /\ \A w \in Versions : w # v => (In(V, g, w) <=> In(W, g, w))
          /\ In(V, g, v) => In(W, g, v) \/ W.sunk[g] = <<>>
          => V \in F
    BY <2>1, <2>2
  <2>4. F \subseteq Once(source, g) /\ v # "Delta"
    BY <1>3, <2>2 DEF O
  <2>5. IsSeq(LowerRules(dynamic, v)) /\ Course(LowerRules(dynamic, v), F, F, O)
    BY <1>1, <1>3, <2>3, <2>4, RulesOnce
  <2> QED
    BY <2>2, <2>5
<1> HIDE DEF P, F, T, N, O
<1>5. IsSeq(purges) /\ Course(purges, P, F, O)
  <2>1. Goes(P, Purge(Key(g.rel, "New")), F, O)
    BY <1>3, OnceMoves DEF P, F
  <2>2. PICK v \in Versions : v = "New"
    BY DEF Versions
  <2>3. Goes(P, Purge(Key(g.rel, v)), F, O)
    BY <2>1, <2>2
  <2>4. IsSeq(PurgesOf(c, v)) /\ Course(PurgesOf(c, v), P, IF g.rel \in c THEN F ELSE P, O)
    BY <1>3, <2>3, PurgesAbout
  <2>5. PurgesOf(c, v) = purges
    BY <2>2 DEF PurgesOf
  <2> HIDE DEF purges
  <2> QED
    BY <2>4, <2>5
<1>6. IsSeq(sinks) /\ Course(sinks, F, T, O)
  <2>1. Goes(F, Sinks(c), T, O)
    BY SinksOnce DEF F, T
  <2> QED
    BY <2>1, CourseOne, SeqOne
<1>7. IsSeq(merges) /\ Course(merges, T, N, O)
  <2>1. Goes(T, Merge(Key(g.rel, "Delta"), Key(g.rel, "Total")), N, O)
    BY <1>3, OnceMoves DEF T, N
  <2>2. IsSeq(merges) /\ Course(merges, T, IF g.rel \in c THEN N ELSE T, O)
    BY <1>3, <2>1, DeltasAbout
  <2> QED
    BY <2>2
<1>8. IsSeq(exit) /\ Course(exit, N, N, O)
  <2>1. Goes(N, Exit({Key(r, "New") : r \in c}), N, O)
    BY <1>3, GoesExit
  <2> QED
    BY <2>1, CourseOne, SeqOne
<1>9. IsSeq(swaps) /\ Course(swaps, N, P, O)
  <2>1. Goes(N, Swap(Key(g.rel, "New"), Key(g.rel, "Delta")), P, O)
    BY <1>3, OnceMoves DEF N, P
  <2>2. IsSeq(swaps) /\ Course(swaps, N, IF g.rel \in c THEN P ELSE N, O)
    BY <1>3, <2>1, SwapsAbout
  <2> QED
    BY <2>2
<1>10. \A i \in 1..Len(body) : body[i].op # "loop"
  <2>1. AllOf(body, c)
    BY LoopBodyParts DEF Fits
  <2> HIDE DEF body
  <2> QED
    BY <2>1, NoLoopInside, SeqParts DEF AllOf
<1> HIDE DEF purges, inserts, sinks, merges, exit, swaps, body
<1>11. ASSUME NEW p, NEW q, IsSeq(p), IsSeq(q), NEW A, NEW B, NEW C,
              Course(p, A, B, O), Course(q, B, C, O)
       PROVE  IsSeq(p \o q) /\ Course(p \o q, A, C, O)
  BY <1>11, CourseConcat, SeqConcat
<1>12. IsSeq(purges \o inserts) /\ Course(purges \o inserts, P, F, O)
  BY <1>4, <1>5, <1>11
<1>13. IsSeq(purges \o inserts \o sinks) /\ Course(purges \o inserts \o sinks, P, T, O)
  BY <1>6, <1>11, <1>12
<1>14. IsSeq(purges \o inserts \o sinks \o merges) /\ Course(purges \o inserts \o sinks \o merges, P, N, O)
  BY <1>7, <1>11, <1>13
<1>15. /\ IsSeq(purges \o inserts \o sinks \o merges \o exit)
       /\ Course(purges \o inserts \o sinks \o merges \o exit, P, N, O)
  BY <1>8, <1>11, <1>14
<1>16. Course(body, P, P, O)
  BY <1>2, <1>9, <1>11, <1>15
<1>17. PICK B : IsCourse(B, body, P, P, O)
  BY <1>16 DEF Course
<1>18. Circles(B, body, P, O)
  <2>1. P \subseteq B[1] /\ B[Len(body) + 1] \subseteq B[1]
    BY <1>17 DEF IsCourse
  <2>2. \A j \in 1..Len(body) : Carries(B[j], body[j], B[j + 1], O)
    BY <1>10, <1>17 DEF IsCourse, Goes
  <2> QED
    BY <2>1, <2>2 DEF Circles
<1>19. Loop(body).op = "loop" /\ Loop(body).body = body
  BY DEF Loop
<1>20. Goes(P, Loop(body), O, out)
  BY <1>18, <1>19 DEF Goes
<1> QED
  BY <1>20 DEF P, O, body

\* The stratum of g, when it reads itself.
LEMMA RecursiveOnce ==
  ASSUME NEW source, Fits(source), NEW g \in Facts, g.rel \in GuardedIn(source),
         NEW c \in SUBSET source.idb, IsFiniteSet(c), g.rel \in c,
         NEW stratum, stratum = StratumOf(source, c), stratum.recursive, NEW out
  PROVE  IsSeq(LowerStratum(stratum)) /\ Course(LowerStratum(stratum), Fresh(source, g), Once(source, g), out)
<1> DEFINE inside == {r \in ToSet(stratum.rules) : IsDynamic(r, stratum)}
           dynamic == Keep(stratum.rules, inside)
           static == Keep(stratum.rules, ToSet(stratum.rules) \ inside)
           facts == LowerFacts(stratum.facts)
           rules == LowerRules(static, "Delta")
           heads == {r.head.rel : r \in ToSet(static)}
           merges == MergeDelta(heads)
           loop == <<Loop(LoopBody(stratum, dynamic))>>
           feeds == MergeTotal(c)
           J == Fresh(source, g)
           O == Once(source, g)
<1>1. /\ stratum.relations = c /\ IsSeq(stratum.rules)
      /\ ToSet(stratum.rules) \subseteq ToSet(source.rules)
      /\ \A r \in ToSet(stratum.rules) : r.head.rel \in c
      /\ IsFiniteSet(stratum.facts) /\ stratum.facts \subseteq source.facts
  BY StratumRules DEF Fits
<1>2. LowerStratum(stratum) = facts \o rules \o merges \o loop \o feeds
  BY <1>1 DEF LowerStratum, LowerRecursiveStratum
<1>3. /\ IsSeq(dynamic) /\ ToSet(dynamic) = ToSet(stratum.rules) \cap inside
      /\ IsSeq(static) /\ ToSet(static) = ToSet(stratum.rules) \cap (ToSet(stratum.rules) \ inside)
  <2>1. stratum.rules \in Seq(ToSet(stratum.rules))
    BY <1>1 DEF IsSeq
  <2> HIDE DEF inside
  <2> QED
    BY <2>1, KeepType, KeepRange DEF IsSeq
<1>4. /\ ToSet(dynamic) \subseteq ToSet(stratum.rules)
      /\ ToSet(static) \subseteq ToSet(source.rules)
      /\ \A r \in ToSet(static) : r.head.rel \in c /\ \A a \in ToSet(r.pos) : a.rel \notin c
  BY <1>1, <1>3 DEF IsDynamic
<1>5. heads \in SUBSET c /\ IsFiniteSet(heads)
  <2>1. heads \in SUBSET c
    BY <1>4
  <2> QED
    BY <2>1, FS_Subset
<1> HIDE DEF inside, dynamic, static, heads
<1>6. /\ g.rel \in source.idb /\ OnlyOf(source, g, J) /\ OnlyOf(source, g, O) /\ J \subseteq O
      /\ J \subseteq Opening(source, g) /\ Shown(source, g) \subseteq J /\ heads \in SUBSET source.idb
      /\ OnlyOf(source, g, Shown(source, g))
  BY <1>5, OnlyAboutFact DEF GuardedIn, Fresh, Opening, Few, Shown
<1>7. IsSeq(facts) /\ Course(facts, J, J, out)
  BY <1>1, <1>6, FactsOnce
<1>8. IsSeq(rules) /\ Course(rules, J, J, out)
  BY <1>3, <1>4, StaticOnce
<1>9. IsSeq(merges) /\ Course(merges, J, J, out)
  <2>1. Goes(J, Merge(Key(g.rel, "Delta"), Key(g.rel, "Total")), Shown(source, g), out)
    BY <1>6, OnceMoves
  <2> HIDE DEF J
  <2>2. IsSeq(merges) /\ Course(merges, J, IF g.rel \in heads THEN Shown(source, g) ELSE J, out)
    BY <1>5, <1>6, <2>1, DeltasAbout
  <2> HIDE DEF merges
  <2> QED
    BY <1>6, <2>2, CourseLess
<1>10. IsSeq(loop) /\ Course(loop, J, O, out)
  <2>1. Goes(Opening(source, g), Loop(LoopBody(stratum, dynamic)), O, out)
    BY <1>3, <1>4, LoopOnce
  <2>2. Goes(J, Loop(LoopBody(stratum, dynamic)), O, out)
    BY <1>6, <2>1, GoesLess
  <2> HIDE DEF J, O
  <2> QED
    BY <2>2, CourseOne, SeqOne
<1>11. IsSeq(feeds) /\ Course(feeds, O, O, out)
  BY <1>6, FeedsOnce
<1> HIDE DEF facts, rules, merges, loop, feeds, J, O
<1>12. ASSUME NEW p, NEW q, IsSeq(p), IsSeq(q), NEW A, NEW B, NEW C,
              Course(p, A, B, out), Course(q, B, C, out)
       PROVE  IsSeq(p \o q) /\ Course(p \o q, A, C, out)
  BY <1>12, CourseConcat, SeqConcat
<1>13. IsSeq(facts \o rules) /\ Course(facts \o rules, J, J, out)
  BY <1>7, <1>8, <1>12
<1>14. IsSeq(facts \o rules \o merges) /\ Course(facts \o rules \o merges, J, J, out)
  BY <1>9, <1>12, <1>13
<1>15. /\ IsSeq(facts \o rules \o merges \o loop)
       /\ Course(facts \o rules \o merges \o loop, J, O, out)
  BY <1>10, <1>12, <1>14
<1>16. IsSeq(LowerStratum(stratum)) /\ Course(LowerStratum(stratum), J, O, out)
  BY <1>2, <1>11, <1>12, <1>15
<1> QED
  BY <1>16 DEF J, O

\* What leaves the outputs as they are is not noticed.
LEMMA OutputsStay ==
  ASSUME NEW source, NEW g, g.rel \in source.idb, NEW J, OnlyOf(source, g, J), NEW W \in J, NEW V \in Worlds,
         V.sunk = W.sunk, V.epoch = W.epoch,
         \A q \in source.idb, v \in Versions : V.rel[<<q, v>>] = W.rel[<<q, v>>]
  PROVE  V \in J
<1>1. W \in Aloof(source, g)
  BY DEF OnlyOf
<1>2. V \in Aloof(source, g)
  BY <1>1 DEF Aloof
<1>3. SameFor(W, V, g)
  BY DEF SameFor, In
<1> QED
  BY <1>2, <1>3 DEF OnlyOf

\* The inputs arrive in Delta, ...
LEMMA SourcesStay ==
  ASSUME NEW source, Fits(source), NEW g, g.rel \in source.idb, NEW J, OnlyOf(source, g, J), NEW out
  PROVE  Goes(J, Sources(source.edb), J, out)
<1> DEFINE s == Sources(source.edb)
<1>1. s.op = "sources" /\ s.relations = source.edb
  BY DEF Sources
<1>2. source.idb \subseteq Relations /\ source.edb \cap source.idb = {}
  BY DEF Fits, Proper
<1> HIDE DEF s
<1>3. ASSUME NEW W \in J, NEW V \in Worlds, Makes(s, W, V) PROVE V \in J
  <2>1. V.sunk = W.sunk /\ V.epoch = W.epoch
    BY <1>1, <1>3 DEF Makes
  <2>2. ASSUME NEW q \in source.idb, NEW v \in Versions PROVE V.rel[<<q, v>>] = W.rel[<<q, v>>]
    <3>1. <<q, v>> \in Keys /\ <<q, v>>[1] \notin source.edb
      BY <1>2 DEF Keys
    <3> QED
      BY <1>1, <1>3, <3>1 DEF Makes
  <2> QED
    BY <2>1, <2>2, OutputsStay
<1>4. Carries(J, s, J, out)
  BY <1>1, <1>3 DEF Carries
<1> QED
  BY <1>1, <1>4 DEF Goes, s

\* ... and are merged into Total at the end.
LEMMA InputsStay ==
  ASSUME NEW source, Fits(source), NEW g, g.rel \in source.idb, NEW J, OnlyOf(source, g, J), NEW out
  PROVE  LET p == FlattenSeq(ForEach(source.edb, MergeInput))
         IN  IsSeq(p) /\ Course(p, J, J, out)
<1> DEFINE p == FlattenSeq(ForEach(source.edb, MergeInput))
<1>1. IsFiniteSet(source.edb)
  <2>1. IsFiniteSet(source.edb \cup source.idb) /\ source.edb \subseteq source.edb \cup source.idb
    BY DEF Fits, Proper
  <2> QED
    BY <2>1, FS_Subset
<1>2. /\ IsSeq(p)
      /\ \A s \in ToSet(p) : \E r \in source.edb : \/ s = Merge(Key(r, "Delta"), Key(r, "Total"))
                                                   \/ s = Purge(Key(r, "Delta"))
  BY <1>1, MergeInputsParts
<1> HIDE DEF p
<1>3. source.idb \subseteq Relations /\ source.edb \subseteq Relations /\ source.edb \cap source.idb = {}
  BY DEF Fits, Proper
<1>4. ASSUME NEW s \in ToSet(p) PROVE Goes(J, s, J, out)
  <2>1. PICK r \in source.edb : IsAbout(s, r)
    BY <1>2 DEF IsAbout, Versions
  <2>2. s.op # "loop"
    BY <2>1 DEF IsAbout, IsInsert, Merge, Purge, Swap
  <2>3. ASSUME NEW W \in J, NEW V \in Worlds, Makes(s, W, V) PROVE s.op # "exit" /\ V \in J
    <3>1. /\ s.op # "exit" /\ V.sunk = W.sunk /\ V.epoch = W.epoch
          /\ \A x \in Relations \ {r}, w \in Versions : V.rel[<<x, w>>] = W.rel[<<x, w>>]
      BY <1>3, <2>1, <2>3, AboutMakes
    <3>2. \A q \in source.idb, v \in Versions : V.rel[<<q, v>>] = W.rel[<<q, v>>]
      BY <1>3, <3>1
    <3> QED
      BY <3>1, <3>2, OutputsStay
  <2>4. Carries(J, s, J, out)
    BY <2>3 DEF Carries
  <2> QED
    BY <2>2, <2>4 DEF Goes
<1>5. Course(p, J, J, out)
  BY <1>2, <1>4, CourseStays
<1> QED
  BY <1>2, <1>5 DEF p

\* The strata: g is as before until its stratum has run, and then as after it.
LEMMA StrataOnce ==
  ASSUME NEW source, Fits(source), Stratifiable(source), NEW strata \in StrataOrders(source),
         NEW g \in Facts, g.rel \in GuardedIn(source), NEW out
  PROVE  Course(FlattenSeq(LoweredStrata(strata)), Fresh(source, g), Once(source, g), out)
<1> DEFINE seqs == LoweredStrata(strata)
           n == Len(strata)
           J == Fresh(source, g)
           O == Once(source, g)
<1>1. /\ IsSeq(seqs) /\ Len(seqs) = n /\ n \in Nat
      /\ \A i \in 1..n : seqs[i] = LowerStratum(strata[i])
  <2>1. /\ IsSeq(seqs) /\ Len(seqs) = n
        /\ \A i \in 1..n : \E c \in Components(source) : seqs[i] = LowerStratum(strata[i])
    BY LoweredStrataParts DEF Fits
  <2> QED
    BY <2>1, SeqParts
<1>2. PICK s : IsOrder(source, s, n) /\ \A i \in 1..n : strata[i] = StratumOf(source, s[i])
  BY StrataOrdered DEF Fits
<1>3. OnlyOf(source, g, J) /\ OnlyOf(source, g, O) /\ J \subseteq O
  BY OnlyAboutFact DEF Fresh
<1> DEFINE T == [i \in 1..(n + 1) |-> IF g.rel \in Done(s, i) THEN O ELSE J]
<1> HIDE DEF seqs, n
<1>4. ASSUME NEW i \in 1..Len(seqs) PROVE IsSeq(seqs[i]) /\ Course(seqs[i], T[i], T[i + 1], out)
  <2>1. i \in 1..n /\ i \in 1..(n + 1) /\ i + 1 \in 1..(n + 1)
    BY <1>1
  <2>2. /\ Placed(source, Done(s, i), s[i]) /\ IsFiniteSet(s[i])
        /\ Done(s, i + 1) = Done(s, i) \cup s[i]
    BY <1>1, <1>2, <2>1, StrataPlaced
  <2>3. s[i] \in SUBSET source.idb /\ Done(s, i) \cap s[i] = {}
    <3>1. \A j \in 1..n : s[j] \in Components(source)
      BY <1>2 DEF IsOrder
    <3>2. s[i] \in SUBSET source.idb
      BY <2>1, <3>1, ComponentOutputs DEF Fits
    <3> QED
      BY <2>2, <3>2 DEF Placed
  <2>4. strata[i] = StratumOf(source, s[i]) /\ seqs[i] = LowerStratum(strata[i])
    BY <1>1, <1>2, <2>1
  <2>5. T[i] = (IF g.rel \in Done(s, i) THEN O ELSE J) /\ T[i + 1] = (IF g.rel \in Done(s, i + 1) THEN O ELSE J)
    BY <2>1
  <2> HIDE DEF T, J, O
  <2>6. CASE g.rel \in s[i]
    <3>1. IsSeq(LowerStratum(strata[i])) /\ Course(LowerStratum(strata[i]), J, O, out)
      <4>1. CASE strata[i].recursive
        BY <2>2, <2>3, <2>4, <2>6, <4>1, RecursiveOnce DEF J, O
      <4>2. CASE ~ strata[i].recursive
        BY <2>2, <2>3, <2>4, <2>6, <4>2, FlatOnce DEF J, O
      <4> QED
        BY <4>1, <4>2
    <3>2. T[i] = J /\ T[i + 1] = O
      BY <2>2, <2>3, <2>5, <2>6
    <3> QED
      BY <2>4, <3>1, <3>2
  <2>7. CASE g.rel \notin s[i]
    <3>1. IsStratum(seqs[i], s[i])
      BY <2>2, <2>4, StratumParts DEF Fits
    <3>2. T[i + 1] = T[i] /\ OnlyOf(source, g, T[i])
      BY <1>3, <2>2, <2>5, <2>7
    <3>3. Course(seqs[i], T[i], T[i], out)
      BY <2>3, <2>7, <3>1, <3>2, StratumStays
    <3> QED
      BY <3>1, <3>2, <3>3 DEF IsStratum
  <2> QED
    BY <2>6, <2>7
<1>5. T[1] = J /\ T[n + 1] \subseteq O
  <2>1. 1 \in 1..(n + 1) /\ n + 1 \in 1..(n + 1)
    BY <1>1
  <2>2. Done(s, 1) = {}
    BY DEF Done
  <2> QED
    BY <1>3, <2>1, <2>2
<1> HIDE DEF T, J, O
<1>6. Course(FlattenSeq(seqs), T[1], T[n + 1], out)
  BY <1>1, <1>4, CourseFlatten
<1>7. Course(FlattenSeq(seqs), J, O, out)
  BY <1>5, <1>6, CourseLess
<1> QED
  BY <1>7 DEF seqs, J, O

\* A program leads from where g is no news, if it was written, to there.
LEMMA CodeOnce ==
  ASSUME NEW source, Fits(source), Stratifiable(source), NEW strata \in StrataOrders(source),
         NEW g \in Facts, g.rel \in GuardedIn(source), NEW out
  PROVE  Course(LowerToRam(source, strata), Fresh(source, g), Resting(source, g), out)
<1> DEFINE sources == <<Sources(source.edb)>>
           body == FlattenSeq(LoweredStrata(strata))
           inputs == FlattenSeq(ForEach(source.edb, MergeInput))
           purges == ForEach(source.idb, LAMBDA r : Purge(Key(r, "Delta")))
           J == Fresh(source, g)
           O == Once(source, g)
           R == Resting(source, g)
<1>1. LowerToRam(source, strata) = sources \o body \o inputs \o purges
  BY DEF LowerToRam, LoweredStrata
<1>2. /\ g.rel \in source.idb /\ IsFiniteSet(source.idb)
      /\ OnlyOf(source, g, J) /\ OnlyOf(source, g, O) /\ OnlyOf(source, g, R)
  <2>1. IsFiniteSet(source.edb \cup source.idb) /\ source.idb \subseteq source.edb \cup source.idb
    BY DEF Fits, Proper
  <2> QED
    BY <2>1, FS_Subset, OnlyAboutFact DEF GuardedIn
<1>3. Course(body, J, O, out)
  BY StrataOnce
<1>4. IsSeq(body)
  <2>1. /\ IsSeq(LoweredStrata(strata)) /\ Len(LoweredStrata(strata)) = Len(strata)
        /\ \A i \in 1..Len(strata) : \E c : IsStratum(LoweredStrata(strata)[i], c)
    BY LoweredStrataParts DEF Fits
  <2> QED
    BY <2>1, FlattenRange DEF IsStratum
<1> HIDE DEF J, O, R
<1>5. IsSeq(sources) /\ Course(sources, J, J, out)
  <2>1. Goes(J, Sources(source.edb), J, out)
    BY <1>2, SourcesStay
  <2> QED
    BY <2>1, CourseOne, SeqOne
<1>6. IsSeq(inputs) /\ Course(inputs, O, O, out)
  BY <1>2, InputsStay
<1>7. IsSeq(purges) /\ Course(purges, O, R, out)
  <2>1. Goes(O, Purge(Key(g.rel, "Delta")), R, out)
    BY <1>2, OnceMoves DEF O, R
  <2>2. PICK v \in Versions : v = "Delta"
    BY DEF Versions
  <2>3. Goes(O, Purge(Key(g.rel, v)), R, out)
    BY <2>1, <2>2
  <2>4. IsSeq(PurgesOf(source.idb, v)) /\ Course(PurgesOf(source.idb, v), O, IF g.rel \in source.idb THEN R ELSE O, out)
    BY <1>2, <2>3, PurgesAbout
  <2>5. PurgesOf(source.idb, v) = purges
    BY <2>2 DEF PurgesOf
  <2> HIDE DEF purges
  <2> QED
    BY <1>2, <2>4, <2>5
<1> HIDE DEF sources, body, inputs, purges
<1>8. ASSUME NEW p, NEW q, IsSeq(p), IsSeq(q), NEW A, NEW B, NEW C,
             Course(p, A, B, out), Course(q, B, C, out)
      PROVE  IsSeq(p \o q) /\ Course(p \o q, A, C, out)
  BY <1>8, CourseConcat, SeqConcat
<1>9. IsSeq(sources \o body) /\ Course(sources \o body, J, O, out)
  BY <1>3, <1>4, <1>5, <1>8
<1>10. IsSeq(sources \o body \o inputs) /\ Course(sources \o body \o inputs, J, O, out)
  BY <1>6, <1>8, <1>9
<1>11. Course(sources \o body \o inputs \o purges, J, R, out)
  BY <1>7, <1>8, <1>10
<1> QED
  BY <1>1, <1>11 DEF J, R

\* Nothing leads on from nowhere.
LEMMA GoesNowhere ==
  ASSUME NEW s, NEW out
  PROVE  Goes({}, s, {}, out)
<1>1. CASE s.op = "loop"
  <2> DEFINE n == Len(s.body)
             B == [j \in {1, n + 1} \cup 1..n \cup {i + 1 : i \in 1..n} |-> {}]
  <2>1. B[1] = {} /\ B[n + 1] = {} /\ \A j \in 1..n : B[j] = {} /\ B[j + 1] = {}
    OBVIOUS
  <2> HIDE DEF B
  <2>2. Circles(B, s.body, {}, {})
    BY <2>1 DEF Circles, Carries
  <2> QED
    BY <1>1, <2>2 DEF Goes
<1>2. CASE s.op # "loop"
  BY <1>2 DEF Goes, Carries
<1> QED
  BY <1>1, <1>2

\* (a program)
LEMMA CourseNowhere ==
  ASSUME NEW p, NEW out
  PROVE  Course(p, {}, {}, out)
<1> DEFINE n == Len(p)
           L == [j \in {1, n + 1} \cup 1..n \cup {i + 1 : i \in 1..n} |-> {}]
<1>1. L[1] = {} /\ L[n + 1] = {} /\ \A i \in 1..n : L[i] = {} /\ L[i + 1] = {}
  OBVIOUS
<1> HIDE DEF L
<1>2. IsCourse(L, p, {}, {}, out)
  BY <1>1, GoesNowhere DEF IsCourse
<1> QED
  BY <1>2 DEF Course

\* Between the epochs of the programs that check the head of what derives g: it is
\* no news if it was written.
FreshIn(g) ==
  [n \in DOMAIN Programs |-> IF g.rel \in GuardedIn(Ast[n].source) THEN Fresh(Ast[n].source, g) ELSE {}]

RestingIn(g) ==
  [n \in DOMAIN Programs |-> IF g.rel \in GuardedIn(Ast[n].source) THEN Resting(Ast[n].source, g) ELSE {}]

\* Every program has this plan, unless the clock returns to the first epoch,
\* which would insert the ground facts again.
LEMMA OncePlan ==
  ASSUME MaxEpoch < TimestampMod, NEW g \in Facts
  PROVE  IsPlan(FreshIn(g), RestingIn(g))
<1> DEFINE P == FreshIn(g)
           Q == RestingIn(g)
<1>1. ASSUME NEW n \in DOMAIN Programs, g.rel \in GuardedIn(Ast[n].source)
      PROVE  /\ Course(Programs[n], P[n], Q[n], {})
             /\ \A W \in Q[n], V \in Worlds :
                  V.rel = W.rel /\ V.sunk = W.sunk /\ V.epoch # 0 => V \in P[n] /\ V \in Q[n]
  <2> DEFINE s == Ast[n].source
  <2>1. /\ Fits(s) /\ Stratifiable(s) /\ Ast[n].strata \in StrataOrders(s)
        /\ Programs[n] = LowerToRam(s, Ast[n].strata)
    BY ProgramsFit, LoweredAssumption
  <2>2. P[n] = Fresh(s, g) /\ Q[n] = Resting(s, g)
    BY <1>1 DEF FreshIn, RestingIn
  <2> HIDE DEF P, Q
  <2>3. Course(Programs[n], Fresh(s, g), Resting(s, g), {})
    BY <1>1, <2>1, CodeOnce
  <2>4. ASSUME NEW W \in Resting(s, g), NEW V \in Worlds, V.rel = W.rel, V.sunk = W.sunk, V.epoch # 0
        PROVE  V \in Fresh(s, g) /\ V \in Resting(s, g)
    <3>1. V \in Aloof(s, g)
      BY <2>4 DEF Resting, Once, Aloof
    <3>2. V \in Resting(s, g)
      BY <2>4, <3>1 DEF Resting, Once, In
    <3> QED
      BY <2>4, <3>2 DEF Fresh, Resting
  <2> QED
    BY <2>2, <2>3, <2>4
<1>2. ASSUME NEW n \in DOMAIN Programs, g.rel \notin GuardedIn(Ast[n].source)
      PROVE  P[n] = {} /\ Q[n] = {} /\ Course(Programs[n], {}, {}, {})
  <2>1. Course(Programs[n], {}, {}, {})
    BY CourseNowhere
  <2> QED
    BY <1>2, <2>1 DEF FreshIn, RestingIn
<1> HIDE DEF P, Q
<1>3. IsPlan(P, Q)
  BY <1>1, <1>2 DEF IsPlan
<1> QED
  BY <1>3 DEF P, Q

\* For each fact that is only derived by rules that check their heads.
WrittenOnce == \A g \in Facts : g.rel \in GuardedIn(Ast[program].source) => PlanInv(FreshIn(g), RestingIn(g))

\* At the start nothing has been written, ...
LEMMA InitOnce == Init => WrittenOnce
<1> SUFFICES ASSUME Init, NEW g \in Facts, g.rel \in GuardedIn(Ast[program].source)
             PROVE  PlanInv(FreshIn(g), RestingIn(g))
  BY DEF WrittenOnce
<1>1. IInv /\ pc.outer = 0 /\ timestamp = ClockStart /\ program \in DOMAIN Programs
  BY InitInv DEF Init
<1> DEFINE s == Ast[program].source
<1>2. s.idb \subseteq Relations
  BY <1>1, ProgramsFit DEF Fits
<1>3. World \in Worlds /\ World.sunk[g] = <<>> /\ \A k \in Keys : World.rel[k] = {}
  BY <1>1, WorldIs DEF World, Init
<1>4. World \in Aloof(s, g)
  BY <1>2, <1>3 DEF Aloof, Keys
<1>5. Alike(<<>>)
  BY DEF Alike
<1>6. World \in Fresh(s, g)
  BY <1>3, <1>4, <1>5 DEF Fresh, Once
<1>7. FreshIn(g)[program] = Fresh(s, g)
  BY <1>1 DEF FreshIn
<1> QED
  BY <1>1, <1>6, <1>7 DEF PlanInv

\* ... and each step keeps what holds of each fact.
LEMMA NextOnce ==
  ASSUME MaxEpoch < TimestampMod, IInv, Bounded, WrittenOnce, [Next]_vars
  PROVE  WrittenOnce'
<1>1. program' = program
  BY DEF Next, vars, Step, Push, Pop, StartEpoch, HandleSources, HandleInsert, HandleMerge, HandleSwap, HandlePurge,
    HandleExit, HandleSinks, Continue, store
<1> SUFFICES ASSUME NEW g \in Facts, g.rel \in GuardedIn(Ast[program].source)
             PROVE  PlanInv(FreshIn(g), RestingIn(g))'
  BY <1>1 DEF WrittenOnce
<1>2. PlanInv(FreshIn(g), RestingIn(g)) /\ IsPlan(FreshIn(g), RestingIn(g))
  BY OncePlan DEF WrittenOnce
<1> QED
  BY <1>2, NextPlan

\* It always holds.
LEMMA WrittenOnceHolds ==
  ASSUME MaxEpoch < TimestampMod
  PROVE  Spec => [](IInv /\ WrittenOnce)
<1>1. Init => IInv /\ Bounded /\ WrittenOnce
  BY InitInv, InitOnce DEF Init, Bounded
<1>2. IInv /\ Bounded /\ WrittenOnce /\ [Next]_vars => (IInv /\ Bounded /\ WrittenOnce)'
  BY NextInv, NextBounded, NextOnce
<1> QED
  BY <1>1, <1>2, PTL DEF Spec

\* What it says of the output between epochs.
LEMMA OnceSaid ==
  ASSUME IInv, WrittenOnce, phase = "idle", NEW r \in Guarded, NEW f \in Facts, f.rel = r
  PROVE  Alike(sunk[f])
<1>1. pc.outer = 0 /\ program \in DOMAIN Programs
  BY DEF IInv, Control, IdleOK, TypeOK
<1>2. f.rel \in GuardedIn(Ast[program].source)
  BY DEF Guarded, GuardedIn, Source
<1>3. World \in FreshIn(f)[program]
  BY <1>1, <1>2 DEF WrittenOnce, PlanInv
<1>4. World \in Fresh(Ast[program].source, f)
  BY <1>1, <1>2, <1>3 DEF FreshIn
<1>5. World.sunk = sunk
  BY DEF World
<1> QED
  BY <1>4, <1>5 DEF Fresh, Once

\* A fact whose rules check their head is written in one epoch only.
THEOREM EmittedOnce ==
  ASSUME MaxEpoch < TimestampMod
  PROVE  Spec => []EmittedInOneEpoch
<1>1. IInv /\ WrittenOnce => EmittedInOneEpoch
  BY OnceSaid DEF EmittedInOneEpoch, Alike
<1> QED
  BY WrittenOnceHolds, <1>1, PTL

\* In that epoch it is written at most twice.
THEOREM EmittedTwice ==
  ASSUME MaxEpoch < TimestampMod
  PROVE  Spec => []EmittedAtMostTwice
<1>1. IInv /\ WrittenOnce => EmittedAtMostTwice
  BY OnceSaid DEF EmittedAtMostTwice, Alike
<1> QED
  BY WrittenOnceHolds, <1>1, PTL

-----------------------------------------------------------------------------
(* Nothing more is derived than the rules allow.                            *)

\* A row that is reached has the head of an instance of its rule whose positive
\* body is known.
LEMMA RowSupported ==
  ASSUME NEW rule, NEW D, NEW O, ProperRule(rule, D, O), ReadsOnce(rule),
         rule.aggs = <<>> \/ rule.preds = <<>>,
         SafeRule(rule), NEW v, NEW s \in ToSet(LowerRule(rule, v)),
         NEW row \in s.rows, NEW W, ReachedIn(W, row)
  PROVE  \E j \in Instances(rule) : j.head = row.head /\ \A p \in j.pos : Seen(W, p)
<1>1. /\ IsSeq(rule.pos) /\ IsSeq(rule.preds)
      /\ \A a \in ToSet(rule.pos) : a = Atom(a.rel, a.args)
  BY DEF ProperRule, IsAtom
<1>2. PICK versions \in ToSet(SemiNaiveRewrites(rule)) : s = LowerRewrite(rule, versions, v)
  BY <1>1, LoweredInserts
<1>3. IsRewrite(rule, versions)
  BY <1>1, RewriteParts
<1> DEFINE order == OrderTerms(rule, versions)
<1>4. IsSeq(order) /\ \A i \in DOMAIN order : IsTerm(order[i], rule, versions)
  BY <1>3, OrderedTerms
<1>5. ToSet(Terms(rule, versions)) \subseteq ToSet(order)
  BY <1>3, SafeOrder
<1>6. /\ \A k \in DOMAIN versions :
           [kind |-> "rel", at |-> k, version |-> versions[k]] \in ToSet(Terms(rule, versions))
      /\ \A k \in DOMAIN rule.preds :
           [kind |-> "pred", at |-> k, version |-> "none"] \in ToSet(Terms(rule, versions))
  BY <1>3, AllTerms
<1>7. PICK b \in Bindings(rule) :
        /\ row = LowerRow(rule, order, b)
        /\ \A p \in Formulae(order, "pred") : PredicateHolds(rule.preds[p], b)
  <2> DEFINE kept == {c \in Bindings(rule) :
                        \A p \in Formulae(order, "pred") : PredicateHolds(rule.preds[p], c)}
             t == LowerRewrite(rule, versions, v)
  <2>1. t.rows = {LowerRow(rule, order, c) : c \in kept}
    BY DEF LowerRewrite, Insert
  <2>2. t = s
    BY <1>2
  <2> HIDE DEF kept, t, order
  <2>3. PICK b \in kept : row = LowerRow(rule, order, b)
    BY <2>1, <2>2
  <2> QED
    BY <2>3 DEF kept
<1> HIDE DEF order
<1>8. row.head = Resolve(rule.head, b) /\ row.search = Searches(rule, order, b)
  BY <1>7 DEF LowerRow
<1>9. ASSUME NEW p \in ToSet(rule.preds) PROVE PredicateHolds(p, b)
  <2>1. PICK k \in DOMAIN rule.preds : p = rule.preds[k]
    BY <1>1, SeqParts
  <2>2. DOMAIN rule.preds # {} => rule.aggs = <<>>
    <3>1. rule.preds = <<>> => DOMAIN rule.preds = {}
      OBVIOUS
    <3> QED
      BY <3>1
  <2>3. \A i \in DOMAIN order : order[i].kind # "agg"
    <3> SUFFICES ASSUME NEW i \in DOMAIN order, order[i].kind = "agg" PROVE FALSE
      OBVIOUS
    <3>1. order[i].at \in DOMAIN rule.aggs
      BY <1>4 DEF IsTerm
    <3>2. rule.aggs = <<>>
      BY <2>1, <2>2
    <3> QED
      BY <3>1, <3>2
  <2>4. PICK i \in DOMAIN order : order[i] = [kind |-> "pred", at |-> k, version |-> "none"]
    <3>1. [kind |-> "pred", at |-> k, version |-> "none"] \in ToSet(order)
      BY <1>5, <1>6
    <3> QED
      BY <1>4, <3>1, SeqParts
  <2>5. order[i].kind = "pred" /\ order[i].at = k /\ Evaluated(order, i)
    BY <1>4, <2>3, <2>4, AllEvaluated
  <2>6. k \in Formulae(order, "pred")
    BY <2>5 DEF Formulae
  <2> QED
    BY <1>7, <2>1, <2>6
<1> DEFINE j == Ground(rule, b)
<1>10. j \in Instances(rule)
  BY <1>9 DEF Instances
<1>11. j.head = row.head /\ j.pos = {Resolve(a, b) : a \in ToSet(rule.pos)}
  BY <1>8 DEF Ground
<1> HIDE DEF j
<1>12. ASSUME NEW a \in ToSet(rule.pos) PROVE Seen(W, Resolve(a, b))
  <2>1. PICK k \in DOMAIN rule.pos : a = rule.pos[k]
    BY <1>1, SeqParts
  <2>2. k \in DOMAIN versions /\ versions[k] \in {"Delta", "Total"}
    BY <1>3, <2>1 DEF IsRewrite, ToSet
  <2>3. PICK i \in DOMAIN order : order[i] = [kind |-> "rel", at |-> k, version |-> versions[k]]
    <3>1. [kind |-> "rel", at |-> k, version |-> versions[k]] \in ToSet(order)
      BY <1>5, <1>6, <2>2
    <3> QED
      BY <1>4, <3>1, SeqParts
  <2>4. order[i].kind = "rel" /\ order[i].at = k /\ order[i].version = versions[k]
    BY <2>3
  <2> DEFINE w == Resolve(Constrained(rule, order, i), b)
             q == <<w, order[i].version>>
  <2>5. q \in row.search
    BY <1>8, <2>4 DEF Searches
  <2>6. q[1] = w /\ q[2] = versions[k]
    BY <2>4
  <2>7. Part(Resolve(a, b), w)
    <3>1. \A c, d \in DOMAIN a.args : a.args[c] = a.args[d] /\ a.args[c] \in DOMAIN rule.vars => c = d
      BY DEF ReadsOnce
    <3>2. a = rule.pos[order[i].at] /\ a = Atom(a.rel, a.args)
      BY <1>1, <2>1, <2>4
    <3> QED
      BY <3>1, <3>2, ConstrainedAll
  <2> HIDE DEF w, q
  <2>8. Sees(W, w, versions[k])
    BY <2>5, <2>6 DEF ReachedIn
  <2>9. PICK f \in W.rel[<<w.rel, versions[k]>>] : Matches(f, w)
    BY <2>8 DEF Sees
  <2>10. Matches(f, Resolve(a, b)) /\ w.rel = Resolve(a, b).rel
    BY <2>7, <2>9, PartMatches DEF Part
  <2>11. Sees(W, Resolve(a, b), versions[k])
    BY <2>9, <2>10 DEF Sees
  <2> QED
    BY <2>2, <2>11 DEF Seen
<1> QED
  BY <1>10, <1>11, <1>12

-----------------------------------------------------------------------------
(* What the rules allow: the least models of the reference semantics.       *)

\* Instances without negations and aggregations, whose body holds.
Positive(I) == \A i \in I : i.neg = {} /\ i.aggs = {}
BodyIn(i, K) == \A p \in i.pos : Found(p, K)
IsClosed(I, K) == \A i \in I : BodyIn(i, K) => i.head \in K

\* More facts hold more bodies.
LEMMA BodyInMore ==
  ASSUME NEW i, NEW K, NEW L, K \subseteq L, BodyIn(i, K)
  PROVE  BodyIn(i, L)
BY DEF BodyIn, Found

\* The consequences of such instances.
LEMMA PositiveConsequences ==
  ASSUME NEW I, Positive(I), NEW known, NEW settled, NEW counted
  PROVE  /\ \A i \in I : BodyIn(i, known) => i.head \in Consequences(I, known, settled, counted)
         /\ \A h \in Consequences(I, known, settled, counted) : \E i \in I : h = i.head /\ BodyIn(i, known)
<1>1. \A i \in I : i.neg = {} /\ i.aggs = {}
  BY DEF Positive
<1>2. ASSUME NEW i \in I, BodyIn(i, known) PROVE i.head \in Consequences(I, known, settled, counted)
  BY <1>1, <1>2 DEF Consequences, BodyIn
<1>3. ASSUME NEW h \in Consequences(I, known, settled, counted)
      PROVE  \E i \in I : h = i.head /\ BodyIn(i, known)
  BY <1>3 DEF Consequences, BodyIn
<1> QED
  BY <1>2, <1>3

\* The rounds of LeastModel.
Iterates(f, base, g, n) == f = [k \in 0..n |-> IF k = 0 THEN base ELSE g[f[k - 1]]]

\* There are such.
LEMMA IteratesExist ==
  ASSUME NEW base, NEW g, NEW n \in Nat
  PROVE  \E f : Iterates(f, base, g, n)
<1> DEFINE N == {k \in Nat : \E f : Iterates(f, base, g, k)}
<1>1. 0 \in N
  <2>1. Iterates([i \in 0..0 |-> base], base, g, 0)
    BY DEF Iterates
  <2> QED
    BY <2>1
<1>2. ASSUME NEW k \in Nat, k \in N PROVE k + 1 \in N
  <2>1. PICK f : Iterates(f, base, g, k)
    BY <1>2
  <2> DEFINE h == [i \in 0..(k + 1) |-> IF i <= k THEN f[i] ELSE g[f[i - 1]]]
  <2>2. ASSUME NEW i \in 0..(k + 1)
        PROVE h[i] = IF i = 0 THEN base ELSE g[h[i - 1]]
    <3>1. i # 0 => i - 1 \in 0..k /\ h[i - 1] = f[i - 1]
      OBVIOUS
    <3>2. CASE i <= k
      <4>1. h[i] = f[i] /\ i \in 0..k
        BY <3>2
      <4> QED
        BY <2>1, <3>1, <4>1 DEF Iterates
    <3>3. CASE ~ (i <= k)
      BY <3>1, <3>3
    <3> QED
      BY <3>2, <3>3
  <2>3. Iterates(h, base, g, k + 1)
    BY <2>2 DEF Iterates
  <2> QED
    BY <2>3
<1>3. Nat \subseteq N
  <2> HIDE DEF N
  <2> QED
    BY <1>1, <1>2, NatSet
<1> QED
  BY <1>3

\* What one round makes of some facts, and the least facts that have a base and
\* are closed.
IsRound(I, K, L) ==
  /\ K \subseteq L
  /\ \A i \in I : BodyIn(i, K) => i.head \in L
  /\ \A h \in L : h \in K \/ \E i \in I : h = i.head /\ BodyIn(i, K)

Rounds(I, H, base, g) == \A K \in SUBSET (base \cup H) : IsRound(I, K, g[K])

IsLeast(I, H, base, L) ==
  /\ L \subseteq base \cup H /\ base \subseteq L /\ IsClosed(I, L)
  /\ \A K : base \subseteq K /\ IsClosed(I, K) => L \subseteq K

\* After as many rounds as there are heads nothing is added any more.
LEMMA RoundsClose ==
  ASSUME NEW I, NEW H, H = {i.head : i \in I}, IsFiniteSet(H), NEW base, NEW g, NEW f,
         NEW n, n = Cardinality(H), Iterates(f, base, g, n), Rounds(I, H, base, g)
  PROVE  IsLeast(I, H, base, f[n])
<1> DEFINE S == base \cup H
           Fine(k) == /\ f[k] \subseteq S /\ base \subseteq f[k]
                      /\ \A K : base \subseteq K /\ IsClosed(I, K) => f[k] \subseteq K
                      /\ IsClosed(I, f[k]) \/ Cardinality(f[k] \ base) >= k
           N == {k \in Nat : k <= n => Fine(k)}
<1>1. n \in Nat
  BY FS_CardinalityType
<1>2. \A i \in I : i.head \in H
  OBVIOUS
<1>3. f[0] = base /\ \A k \in Nat : k + 1 <= n => f[k + 1] = g[f[k]]
  <2> DEFINE e == [k \in 0..n |-> IF k = 0 THEN base ELSE g[f[k - 1]]]
  <2>1. f = e
    BY DEF Iterates
  <2>2. 0 \in 0..n
    BY <1>1
  <2>3. e[0] = base
    BY <2>2
  <2>4. ASSUME NEW k \in Nat, k + 1 <= n PROVE f[k + 1] = g[f[k]]
    <3>1. k + 1 \in 0..n /\ k + 1 # 0 /\ (k + 1) - 1 = k
      BY <1>1, <2>4
    <3>2. e[k + 1] = g[f[(k + 1) - 1]]
      BY <3>1
    <3> HIDE DEF e
    <3>3. f[k + 1] = g[f[(k + 1) - 1]]
      BY <2>1, <3>2
    <3> QED
      BY <3>1, <3>3
  <2> HIDE DEF e
  <2> QED
    BY <2>1, <2>3, <2>4
<1>4. 0 \in N
  <2>1. Cardinality(base \ base) = 0
    <3>1. base \ base = {}
      OBVIOUS
    <3> QED
      BY <3>1, FS_EmptySet
  <2>2. Cardinality(f[0] \ base) >= 0
    BY <1>3, <2>1
  <2>3. Fine(0)
    BY <1>3, <2>2
  <2> QED
    BY <2>3
<1>5. ASSUME NEW k \in Nat, k \in N PROVE k + 1 \in N
  <2> SUFFICES ASSUME k + 1 <= n PROVE Fine(k + 1)
    OBVIOUS
  <2> DEFINE K == f[k]
             L == f[k + 1]
  <2>1. k <= n
    BY <1>1
  <2>2. Fine(k) /\ L = g[K]
    BY <1>3, <1>5, <2>1
  <2> HIDE DEF K, L, S
  <2>3. K \in SUBSET S /\ base \subseteq K
    BY <2>2 DEF K
  <2>4. /\ K \subseteq L /\ \A i \in I : BodyIn(i, K) => i.head \in L
        /\ \A h \in L : h \in K \/ \E i \in I : h = i.head /\ BodyIn(i, K)
    BY <2>2, <2>3 DEF S, Rounds, IsRound
  <2>5. L \subseteq S /\ base \subseteq L
    BY <1>2, <2>3, <2>4 DEF S
  <2>6. ASSUME NEW M, base \subseteq M, IsClosed(I, M) PROVE L \subseteq M
    <3>1. K \subseteq M
      BY <2>2, <2>6 DEF K
    <3>2. ASSUME NEW i \in I, BodyIn(i, K) PROVE i.head \in M
      BY <2>6, <3>1, <3>2, BodyInMore DEF IsClosed
    <3> QED
      BY <2>4, <3>1, <3>2
  <2>7. IsClosed(I, L) \/ Cardinality(L \ base) >= k + 1
    <3>1. CASE IsClosed(I, K)
      <4>1. L = K
        BY <2>4, <3>1 DEF IsClosed
      <4> QED
        BY <3>1, <4>1
    <3>2. CASE ~ IsClosed(I, K)
      <4>1. PICK i \in I : BodyIn(i, K) /\ i.head \notin K
        BY <3>2 DEF IsClosed
      <4> DEFINE X == K \ base
                 Y == L \ base
                 x == i.head
      <4>2. X \in SUBSET H /\ Y \in SUBSET H /\ x \notin X /\ X \cup {x} \in SUBSET Y
        BY <2>3, <2>4, <2>5, <4>1 DEF S
      <4>3. Cardinality(X) >= k
        BY <2>2, <3>2 DEF K
      <4> HIDE DEF X, Y, x
      <4>4. IsFiniteSet(X) /\ IsFiniteSet(Y)
        BY <4>2, FS_Subset
      <4>5. Cardinality(X \cup {x}) = Cardinality(X) + 1
        BY <4>2, <4>4, FS_AddElement
      <4>6. Cardinality(X \cup {x}) <= Cardinality(Y)
        BY <4>2, <4>4, FS_Subset
      <4>7. Cardinality(X) \in Nat /\ Cardinality(Y) \in Nat
        BY <4>4, FS_CardinalityType
      <4>8. Cardinality(Y) >= k + 1
        BY <4>3, <4>5, <4>6, <4>7
      <4> QED
        BY <4>8 DEF Y
    <3> QED
      BY <3>1, <3>2
  <2> QED
    BY <2>5, <2>6, <2>7 DEF L
<1>6. Nat \subseteq N
  <2> HIDE DEF N
  <2> QED
    BY <1>4, <1>5, NatSet
<1> DEFINE L == f[n]
<1>7. Fine(n)
  <2>1. n \in N
    <3> HIDE DEF N
    <3> QED
      BY <1>1, <1>6
  <2>2. n <= n
    BY <1>1
  <2> QED
    BY <2>1, <2>2
<1>8. IsClosed(I, L)
  <2>1. CASE Cardinality(L \ base) >= n
    <3> DEFINE Y == L \ base
    <3>1. Y \in SUBSET H /\ Cardinality(Y) >= n
      BY <1>7, <2>1
    <3> HIDE DEF Y
    <3>2. Cardinality(Y) \in Nat /\ Cardinality(Y) <= Cardinality(H)
      BY <3>1, FS_Subset, FS_CardinalityType
    <3>3. Cardinality(Y) = Cardinality(H)
      BY <1>1, <3>1, <3>2
    <3>4. Y = H
      BY <3>1, <3>3, FS_Subset
    <3>5. H \subseteq L
      BY <3>4 DEF Y
    <3> HIDE DEF L
    <3> QED
      BY <1>2, <3>5 DEF IsClosed
  <2>2. CASE ~ (Cardinality(L \ base) >= n)
    BY <1>7, <2>2
  <2> QED
    BY <2>1, <2>2
<1> QED
  BY <1>7, <1>8 DEF IsLeast

\* The least model of such instances over some facts is one, and is the least.
LEMMA LeastModelIs ==
  ASSUME NEW I, Positive(I), NEW H, H = {i.head : i \in I}, IsFiniteSet(H), NEW base, NEW counted
  PROVE  IsLeast(I, H, base, LeastModel(I, base, counted))
<1> DEFINE g == [known \in SUBSET (base \cup H) |-> known \cup Consequences(I, known, base, counted)]
           n == Cardinality(H)
           f == CHOOSE h : Iterates(h, base, g, n)
<1>1. n \in Nat
  BY FS_CardinalityType
<1>3. LeastModel(I, base, counted) = f[n]
  BY DEF LeastModel, Iterates
<1>4. Rounds(I, H, base, g)
  <2> SUFFICES ASSUME NEW K \in SUBSET (base \cup H) PROVE IsRound(I, K, g[K])
    BY DEF Rounds
  <2>1. g[K] = K \cup Consequences(I, K, base, counted)
    OBVIOUS
  <2> HIDE DEF g
  <2>2. /\ \A i \in I : BodyIn(i, K) => i.head \in Consequences(I, K, base, counted)
        /\ \A h \in Consequences(I, K, base, counted) : \E i \in I : h = i.head /\ BodyIn(i, K)
    BY PositiveConsequences
  <2> QED
    BY <2>1, <2>2 DEF IsRound
<1> HIDE DEF g, n
<1>2. Iterates(f, base, g, n)
  BY <1>1, IteratesExist
<1> HIDE DEF f
<1>5. IsLeast(I, H, base, f[n])
  BY <1>2, <1>4, RoundsClose DEF n
<1> QED
  BY <1>3, <1>5

\* The instances of a stratum, and the models of the strata up to each.
InstancesOf(stratum) == UNION {Instances(r) : r \in ToSet(stratum.rules)}

LevelOn(known, stratum, E, counted) ==
  LeastModel(InstancesOf(stratum), known \cup stratum.facts, (known \ E) \cup counted)

Levels(m, strata, E, counted, n) ==
  m = [k \in 0..n |-> IF k = 0 THEN E ELSE LevelOn(m[k - 1], strata[k], E, counted)]

\* There are such.
LEMMA LevelsExist ==
  ASSUME NEW strata, NEW E, NEW counted, NEW n \in Nat
  PROVE  \E m : Levels(m, strata, E, counted, n)
<1> DEFINE N == {k \in Nat : \E m : Levels(m, strata, E, counted, k)}
<1>1. 0 \in N
  <2>1. Levels([i \in 0..0 |-> E], strata, E, counted, 0)
    BY DEF Levels
  <2> QED
    BY <2>1
<1>2. ASSUME NEW k \in Nat, k \in N PROVE k + 1 \in N
  <2>1. PICK m : Levels(m, strata, E, counted, k)
    BY <1>2
  <2> DEFINE h == [i \in 0..(k + 1) |-> IF i <= k THEN m[i] ELSE LevelOn(m[i - 1], strata[i], E, counted)]
  <2>2. ASSUME NEW i \in 0..(k + 1)
        PROVE h[i] = IF i = 0 THEN E ELSE LevelOn(h[i - 1], strata[i], E, counted)
    <3>1. i # 0 => i - 1 \in 0..k /\ h[i - 1] = m[i - 1]
      OBVIOUS
    <3>2. CASE i <= k
      <4>1. h[i] = m[i] /\ i \in 0..k
        BY <3>2
      <4> QED
        BY <2>1, <3>1, <4>1 DEF Levels
    <3>3. CASE ~ (i <= k)
      BY <3>1, <3>3
    <3> QED
      BY <3>2, <3>3
  <2>3. Levels(h, strata, E, counted, k + 1)
    BY <2>2 DEF Levels
  <2> QED
    BY <2>3
<1>3. Nat \subseteq N
  <2> HIDE DEF N
  <2> QED
    BY <1>1, <1>2, NatSet
<1> QED
  BY <1>3

\* What they are.
LEMMA LevelsAre ==
  ASSUME NEW strata, NEW E, NEW counted, NEW n \in Nat, NEW m, Levels(m, strata, E, counted, n)
  PROVE  m[0] = E /\ \A k \in 1..n : m[k] = LevelOn(m[k - 1], strata[k], E, counted)
<1> DEFINE e == [k \in 0..n |-> IF k = 0 THEN E ELSE LevelOn(m[k - 1], strata[k], E, counted)]
<1>1. m = e
  BY DEF Levels
<1>2. e[0] = E
  OBVIOUS
<1>3. ASSUME NEW k \in 1..n PROVE e[k] = LevelOn(m[k - 1], strata[k], E, counted)
  <2>1. k \in 0..n /\ k # 0
    OBVIOUS
  <2> QED
    BY <2>1
<1> HIDE DEF e
<1> QED
  BY <1>1, <1>2, <1>3

\* The model of a program whose strata are in s: the least facts that have the
\* inputs and the ground facts and are closed under the rules.
IsModel(source, E, M) ==
  /\ E \cup source.facts \subseteq M
  /\ M \subseteq E \cup Facts
  /\ IsClosed(Plain(source), M)
  /\ \A K : E \cup source.facts \subseteq K /\ IsClosed(Plain(source), K) => M \subseteq K

\* The instances of the strata of a program without negations and aggregations.
LEMMA StratumInstances ==
  ASSUME NEW source, Fits(source), Monotone(source), NEW c, NEW stratum, stratum = StratumOf(source, c)
  PROVE  /\ InstancesOf(stratum) \subseteq Plain(source)
         /\ Positive(InstancesOf(stratum))
         /\ \A i \in InstancesOf(stratum) : i.head.rel \in c /\ i.head \in Facts
         /\ \A i \in Plain(source) : i.head.rel \in c => i \in InstancesOf(stratum)
<1>1. /\ ToSet(stratum.rules) \subseteq ToSet(source.rules)
      /\ \A r \in ToSet(stratum.rules) : r.head.rel \in c
  BY StratumRules DEF Fits
<1>2. \A r \in ToSet(source.rules) : r.neg = <<>> /\ r.aggs = <<>>
  BY DEF Monotone
<1>3. InstancesOf(stratum) \subseteq Plain(source)
  BY <1>1, <1>2 DEF InstancesOf, Plain
<1>4. ASSUME NEW r \in ToSet(source.rules), NEW i \in Instances(r)
      PROVE  i.neg = {} /\ i.aggs = {} /\ i.head.rel = r.head.rel
  <2>1. PICK b \in Bindings(r) : i = Ground(r, b)
    BY DEF Instances
  <2>2. ToSet(r.neg) = {} /\ ToSet(r.aggs) = {}
    BY <1>2 DEF ToSet
  <2>3. i.neg = {} /\ i.aggs = {} /\ i.head = Resolve(r.head, b)
    BY <2>1, <2>2 DEF Ground
  <2>4. r.head = Atom(r.head.rel, r.head.args)
    BY DEF Fits, Proper, ProperRule, IsAtom
  <2> QED
    BY <2>3, <2>4, ResolveParts
<1>5. Positive(InstancesOf(stratum))
  BY <1>1, <1>4 DEF Positive, InstancesOf
<1>6. ASSUME NEW i \in InstancesOf(stratum) PROVE i.head.rel \in c /\ i.head \in Facts
  BY <1>1, <1>3, <1>4, PlainReads DEF InstancesOf
<1>7. ASSUME NEW i \in Plain(source), i.head.rel \in c PROVE i \in InstancesOf(stratum)
  <2>1. PICK r \in ToSet(source.rules) : i \in Instances(r)
    BY DEF Plain
  <2>2. r.head.rel \in c
    BY <1>4, <1>7, <2>1
  <2>3. r \in ToSet(stratum.rules)
    BY <2>2, StratumHas DEF Fits
  <2> QED
    BY <2>1, <2>3 DEF InstancesOf
<1> QED
  BY <1>3, <1>5, <1>6, <1>7

\* Each level is the least model of its stratum over the one below.
LEMMA LevelIs ==
  ASSUME NEW source, Fits(source), Monotone(source), IsFiniteSet(Facts),
         NEW c, NEW stratum, stratum = StratumOf(source, c), NEW known, NEW E, NEW counted
  PROVE  LET I == InstancesOf(stratum)
         IN  IsLeast(I, {i.head : i \in I}, known \cup stratum.facts, LevelOn(known, stratum, E, counted))
<1> DEFINE I == InstancesOf(stratum)
           H == {i.head : i \in I}
           base == known \cup stratum.facts
           C == (known \ E) \cup counted
<1>1. Positive(I) /\ H \in SUBSET Facts
  BY StratumInstances
<1>2. IsFiniteSet(H)
  BY <1>1, FS_Subset
<1>3. LevelOn(known, stratum, E, counted) = LeastModel(I, base, C)
  BY DEF LevelOn
<1> HIDE DEF I, base, C
<1>4. IsLeast(I, H, base, LeastModel(I, base, C))
  BY <1>1, <1>2, LeastModelIs
<1> QED
  BY <1>3, <1>4 DEF I, base

\* The models of the strata in s, each on top of the one below it.
Tower(source, s, n, E, m) ==
  /\ n \in Nat /\ IsOrder(source, s, n) /\ m[0] = E
  /\ \A k \in 1..n :
       LET stratum == StratumOf(source, s[k])
           I == InstancesOf(stratum)
       IN  IsLeast(I, {i.head : i \in I}, m[k - 1] \cup stratum.facts, m[k])

\* What a stratum adds is about its relations.
LEMMA TowerStep ==
  ASSUME NEW source, Fits(source), Monotone(source), NEW s, NEW n, NEW E, NEW m, Tower(source, s, n, E, m),
         NEW k \in 1..n
  PROVE  /\ m[k - 1] \subseteq m[k]
         /\ \A f \in source.facts : f.rel \in s[k] => f \in m[k]
         /\ IsClosed(InstancesOf(StratumOf(source, s[k])), m[k])
         /\ \A f \in m[k] : f \in m[k - 1] \/ (f.rel \in s[k] /\ f \in Facts)
         /\ \A K : m[k - 1] \cup source.facts \subseteq K /\ IsClosed(Plain(source), K) => m[k] \subseteq K
<1> DEFINE stratum == StratumOf(source, s[k])
           I == InstancesOf(stratum)
           H == {i.head : i \in I}
           B == m[k - 1] \cup stratum.facts
<1>1. IsLeast(I, H, B, m[k])
  BY DEF Tower
<1>2. stratum.facts = {f \in source.facts : f.rel \in s[k]}
  BY DEF StratumOf
<1>3. I \subseteq Plain(source) /\ \A i \in I : i.head.rel \in s[k] /\ i.head \in Facts
  BY StratumInstances
<1>4. source.facts \subseteq Facts
  BY DEF Fits, Writable
<1> HIDE DEF stratum, I
<1>5. m[k] \subseteq B \cup H /\ B \subseteq m[k] /\ IsClosed(I, m[k])
  BY <1>1 DEF IsLeast
<1>6. ASSUME NEW K, m[k - 1] \cup source.facts \subseteq K, IsClosed(Plain(source), K) PROVE m[k] \subseteq K
  <2>1. B \subseteq K /\ IsClosed(I, K)
    BY <1>2, <1>3, <1>6 DEF IsClosed
  <2> QED
    BY <1>1, <2>1 DEF IsLeast
<1>7. \A f \in m[k] : f \in m[k - 1] \/ (f.rel \in s[k] /\ f \in Facts)
  BY <1>2, <1>3, <1>4, <1>5
<1>8. m[k - 1] \subseteq m[k] /\ \A f \in source.facts : f.rel \in s[k] => f \in m[k]
  BY <1>2, <1>5
<1> QED
  BY <1>5, <1>6, <1>7, <1>8 DEF stratum, I

\* The strata above a level add nothing to its relations.
LEMMA TowerAbove ==
  ASSUME NEW source, Fits(source), Monotone(source), NEW s, NEW n, NEW E, NEW m, Tower(source, s, n, E, m),
         NEW j \in 0..n
  PROVE  /\ m[j] \subseteq m[n]
         /\ \A f \in m[n] : f.rel \in source.edb \cup Done(s, j + 1) => f \in m[j]
<1> DEFINE Fine(k) == /\ m[j] \subseteq m[k]
                      /\ \A f \in m[k] : f.rel \in source.edb \cup Done(s, j + 1) => f \in m[j]
           N == {k \in Nat : j <= k /\ k <= n => Fine(k)}
<1>1. n \in Nat /\ j \in Nat
  BY DEF Tower
<1>2. 0 \in N
  <2>1. j <= 0 => j = 0
    BY <1>1
  <2>2. j = 0 => Fine(0)
    OBVIOUS
  <2> HIDE DEF Fine
  <2> QED
    BY <2>1, <2>2
<1>3. ASSUME NEW k \in Nat, k \in N PROVE k + 1 \in N
  <2> SUFFICES ASSUME j <= k + 1, k + 1 <= n PROVE Fine(k + 1)
    OBVIOUS
  <2>1. CASE j = k + 1
    BY <2>1
  <2>2. CASE j # k + 1
    <3>1. j <= k /\ k <= n /\ k + 1 \in 1..n /\ (k + 1) - 1 = k
      BY <1>1, <2>2
    <3>2. Fine(k)
      BY <1>3, <3>1
    <3>3. m[k] \subseteq m[k + 1] /\ \A f \in m[k + 1] : f \in m[k] \/ f.rel \in s[k + 1]
      BY <3>1, TowerStep
    <3>4. s[k + 1] \cap Done(s, j + 1) = {}
      <4> SUFFICES ASSUME NEW i \in 1..((j + 1) - 1) PROVE s[k + 1] \cap s[i] = {}
        BY DEF Done
      <4>1. i \in 1..n /\ i # k + 1
        BY <1>1, <3>1
      <4> QED
        BY <3>1, <4>1 DEF Tower, IsOrder
    <3>5. s[k + 1] \cap source.edb = {}
      <4>1. s[k + 1] \in Components(source)
        BY <3>1 DEF Tower, IsOrder
      <4> QED
        BY <4>1, ComponentOutputs DEF Fits, Proper
    <3> QED
      BY <3>2, <3>3, <3>4, <3>5
  <2> QED
    BY <2>1, <2>2
<1>4. Nat \subseteq N
  <2> HIDE DEF N
  <2> QED
    BY <1>2, <1>3, NatSet
<1>5. n \in N /\ j <= n /\ n <= n
  <2> HIDE DEF N
  <2> QED
    BY <1>1, <1>4
<1> QED
  BY <1>5

\* The last level is a model of the program ...
LEMMA TowerCloses ==
  ASSUME NEW source, Fits(source), Monotone(source), NEW s, NEW n, NEW E, NEW m, Tower(source, s, n, E, m)
  PROVE  /\ E \cup source.facts \subseteq m[n] /\ IsClosed(Plain(source), m[n])
<1>1. n \in Nat /\ m[0] = E /\ IdbNodes(source) \subseteq Done(s, n + 1)
  BY DEF Tower, IsOrder
<1>2. ASSUME NEW q \in IdbNodes(source) PROVE \E k \in 1..n : q \in s[k]
  <2>1. (n + 1) - 1 = n
    BY <1>1
  <2> QED
    BY <1>1, <2>1 DEF Done
<1>3. \A k \in 0..n : m[k] \subseteq m[n]
  BY TowerAbove
<1>4. E \subseteq m[n]
  <2>1. 0 \in 0..n
    BY <1>1
  <2> QED
    BY <1>1, <1>3, <2>1
<1>5. ASSUME NEW f \in source.facts PROVE f \in m[n]
  <2>1. f.rel \in IdbNodes(source)
    BY DEF IdbNodes
  <2>2. PICK k \in 1..n : f.rel \in s[k]
    BY <1>2, <2>1
  <2>3. f \in m[k] /\ k \in 0..n
    BY <2>2, TowerStep
  <2> QED
    BY <1>3, <2>3
<1>6. ASSUME NEW i \in Plain(source), BodyIn(i, m[n]) PROVE i.head \in m[n]
  <2>1. i.head.rel \in IdbNodes(source)
    BY PlainReads
  <2>2. PICK k \in 1..n : i.head.rel \in s[k]
    BY <1>2, <2>1
  <2>3. k \in 0..n /\ Done(s, k + 1) = Done(s, k) \cup s[k]
    <3>1. 1..((k + 1) - 1) = 1..(k - 1) \cup {k}
      BY <1>1
    <3> QED
      BY <3>1 DEF Done
  <2>4. ASSUME NEW p \in i.pos PROVE Found(p, m[k])
    <3>1. PICK f \in m[n] : Matches(f, p)
      BY <1>6 DEF BodyIn, Found
    <3>2. f.rel = p.rel
      BY <3>1 DEF Matches
    <3>3. /\ p.rel \in source.edb \cup IdbNodes(source)
          /\ \E d \in Dependencies(source) : d.from = p.rel /\ d.to = i.head.rel
      BY PlainReads
    <3>4. p.rel \in source.edb \cup Done(s, k + 1)
      BY <2>2, <2>3, <3>3 DEF Tower, IsOrder
    <3>5. f \in m[k]
      BY <2>3, <3>2, <3>4, TowerAbove
    <3> QED
      BY <3>1, <3>5 DEF Found
  <2>5. i \in InstancesOf(StratumOf(source, s[k]))
    BY <2>2, StratumInstances
  <2>6. i.head \in m[k]
    BY <2>4, <2>5, TowerStep DEF IsClosed, BodyIn
  <2> QED
    BY <1>3, <2>3, <2>6
<1> QED
  BY <1>4, <1>5, <1>6 DEF IsClosed

\* ... and the least one.
LEMMA TowerIsLeast ==
  ASSUME NEW source, Fits(source), Monotone(source), NEW s, NEW n, NEW E, NEW m, Tower(source, s, n, E, m),
         NEW K, E \cup source.facts \subseteq K, IsClosed(Plain(source), K)
  PROVE  m[n] \subseteq K
<1> DEFINE N == {k \in Nat : k <= n => m[k] \subseteq K}
<1>1. n \in Nat /\ m[0] = E
  BY DEF Tower
<1>2. 0 \in N
  BY <1>1
<1>3. ASSUME NEW k \in Nat, k \in N PROVE k + 1 \in N
  <2> SUFFICES ASSUME k + 1 <= n PROVE m[k + 1] \subseteq K
    OBVIOUS
  <2>1. k + 1 \in 1..n /\ (k + 1) - 1 = k /\ k <= n
    BY <1>1
  <2>2. m[k] \cup source.facts \subseteq K
    BY <1>3, <2>1
  <2> QED
    BY <2>1, <2>2, TowerStep
<1>4. n \in N
  <2> HIDE DEF N
  <2> QED
    BY <1>1, <1>2, <1>3, NatSet
<1> QED
  BY <1>1, <1>4

\* Nothing else is in it.
LEMMA TowerBound ==
  ASSUME NEW source, Fits(source), Monotone(source), NEW s, NEW n, NEW E, NEW m, Tower(source, s, n, E, m)
  PROVE  m[n] \subseteq E \cup Facts
<1>1. E \cup source.facts \subseteq E \cup Facts
  BY DEF Fits, Writable
<1>2. IsClosed(Plain(source), E \cup Facts)
  BY PlainReads DEF IsClosed
<1> QED
  BY <1>1, <1>2, TowerIsLeast

\* The model that the strata lead to, in whatever order they come, is the least
\* one of the whole program.
LEMMA PerfectModelIs ==
  ASSUME NEW source, Fits(source), Monotone(source), IsFiniteSet(Facts),
         NEW strata \in StrataOrders(source), NEW E
  PROVE  IsModel(source, E, PerfectModel(strata, E))
<1> DEFINE n == Len(strata)
           chosen == CHOOSE h : Levels(h, strata, E, E, n)
<1>1. PICK s : IsOrder(source, s, n) /\ \A k \in 1..n : strata[k] = StratumOf(source, s[k])
  BY StrataOrdered DEF Fits
<1>2. n \in Nat
  <2>1. IsSeq(LoweredStrata(strata)) /\ Len(LoweredStrata(strata)) = n
    BY LoweredStrataParts DEF Fits
  <2> QED
    BY <2>1, SeqParts
<1>3. PerfectModel(strata, E) = chosen[n]
  BY DEF PerfectModel, ModelCounting, Levels, LevelOn, InstancesOf
<1> HIDE DEF n
<1>4. PICK m : Levels(m, strata, E, E, n) /\ PerfectModel(strata, E) = m[n]
  <2>1. Levels(chosen, strata, E, E, n)
    BY <1>2, LevelsExist
  <2> HIDE DEF chosen
  <2> QED
    BY <1>3, <2>1
<1>5. m[0] = E /\ \A k \in 1..n : m[k] = LevelOn(m[k - 1], strata[k], E, E)
  BY <1>2, <1>4, LevelsAre
<1>6. Tower(source, s, n, E, m)
  <2> SUFFICES ASSUME NEW k \in 1..n
               PROVE  LET stratum == StratumOf(source, s[k])
                          I == InstancesOf(stratum)
                      IN  IsLeast(I, {i.head : i \in I}, m[k - 1] \cup stratum.facts, m[k])
    BY <1>1, <1>2, <1>5 DEF Tower
  <2>1. m[k] = LevelOn(m[k - 1], StratumOf(source, s[k]), E, E)
    BY <1>1, <1>5
  <2> QED
    BY <2>1, LevelIs
<1> QED
  BY <1>4, <1>6, TowerCloses, TowerIsLeast, TowerBound DEF IsModel

-----------------------------------------------------------------------------
(* Nothing is held that has no reason.                                      *)

\* A fact that is a ground fact, or the head of an instance whose positive body
\* is known.
Earned(source, W, f) ==
  \/ f \in source.facts
  \/ \E r \in ToSet(source.rules) : \E i \in Instances(r) : f = i.head /\ \A p \in i.pos : Seen(W, p)

\* W yields V: what is known stays so, and the outputs hold nothing but what
\* they held or what was earned.
Yields(source, W, V) ==
  /\ \A q \in source.edb \cup source.idb : Knows(W, q) \subseteq Knows(V, q)
  /\ \A q \in source.idb, v \in Versions : \A f \in V.rel[<<q, v>>] :
       (\E u \in Versions : f \in W.rel[<<q, u>>]) \/ Earned(source, W, f)

\* Worlds that are kept by what each of them yields.
IsJust(source, J) ==
  J \subseteq Worlds /\ \A W \in J, V \in Worlds : Yields(source, W, V) => V \in J

\* V knows no less of q than W, and what it holds of it was held or earned.
Gains(source, W, V, q) ==
  /\ SameOff(W, V, {q}) /\ Knows(W, q) \subseteq Knows(V, q)
  /\ \A v \in Versions : \A f \in V.rel[<<q, v>>] :
       (\E u \in Versions : f \in W.rel[<<q, u>>]) \/ (q \in source.idb => Earned(source, W, f))

\* What differs in one relation only, where it knows no less and holds nothing
\* unearned, is kept; its Delta may then hold more than its Total.
LEMMA JustStep ==
  ASSUME NEW source, Fits(source), NEW J, IsJust(source, J), NEW D,
         NEW q \in Relations, NEW W \in Spent(J, D), NEW V \in Worlds,
         Gains(source, W, V, q), D \subseteq Relations
  PROVE  /\ V \in Spent(J, D \ {q})
         /\ V.rel[<<q, "Delta">>] \subseteq V.rel[<<q, "Total">>] => V \in Spent(J, D \cup {q})
<1>1. source.edb \cup source.idb \subseteq Relations /\ "Delta" \in Versions /\ "Total" \in Versions
  BY DEF Fits, Versions
<1>0. \A x \in Relations \ {q}, w \in Versions : V.rel[<<x, w>>] = W.rel[<<x, w>>]
  BY DEF Gains, SameOff
<1>2. \A x \in Relations \ {q} : /\ V.rel[<<x, "Delta">>] = W.rel[<<x, "Delta">>]
                                 /\ V.rel[<<x, "Total">>] = W.rel[<<x, "Total">>]
  BY <1>0, <1>1
<1>3. ASSUME NEW x \in source.edb \cup source.idb PROVE Knows(W, x) \subseteq Knows(V, x)
  BY <1>1, <1>2 DEF Gains, Knows
<1>4. ASSUME NEW x \in source.idb, NEW v \in Versions, NEW f \in V.rel[<<x, v>>]
      PROVE  (\E u \in Versions : f \in W.rel[<<x, u>>]) \/ Earned(source, W, f)
  <2>1. CASE x = q
    BY <2>1 DEF Gains
  <2>2. CASE x # q
    <3>1. f \in W.rel[<<x, v>>]
      BY <1>0, <1>1, <2>2
    <3> QED
      BY <3>1
  <2> QED
    BY <2>1, <2>2
<1>5. Yields(source, W, V)
  BY <1>3, <1>4 DEF Yields
<1>6. V \in J /\ \A x \in D : W.rel[<<x, "Delta">>] \subseteq W.rel[<<x, "Total">>]
  BY <1>5 DEF IsJust, Spent
<1>7. \A x \in D \ {q} : V.rel[<<x, "Delta">>] \subseteq V.rel[<<x, "Total">>]
  BY <1>2, <1>6
<1> QED
  BY <1>6, <1>7 DEF Spent

\* What leaves the relations alone keeps everything.
LEMMA JustStill ==
  ASSUME NEW source, NEW J, IsJust(source, J), NEW D, NEW W \in Spent(J, D), NEW V \in Worlds, V.rel = W.rel
  PROVE  V \in Spent(J, D)
<1>1. Yields(source, W, V)
  BY DEF Yields, Knows
<1> QED
  BY <1>1 DEF IsJust, Spent

\* What an insert may add: ground facts, or the heads its rows have earned.
Honest(source, s) ==
  \A row \in s.rows : \/ s.ground /\ row.head \in source.facts
                      \/ ~ s.ground /\ \A W \in Worlds : ReachedIn(W, row) => Earned(source, W, row.head)

\* An insert that has earned what it adds, into a relation that is not spent.
LEMMA JustInsert ==
  ASSUME NEW source, Fits(source), NEW J, IsJust(source, J), NEW D, D \subseteq Relations,
         NEW q \in source.idb, q \notin D, NEW v \in Versions,
         NEW s, s.op = "insert", s.into = <<q, v>>, Honest(source, s), NEW out
  PROVE  Goes(Spent(J, D), s, Spent(J, D), out)
<1>1. q \in Relations /\ Spent(J, D) \subseteq Worlds
  BY DEF Fits, IsJust, Spent
<1>2. ASSUME NEW W \in Spent(J, D), NEW V \in Worlds, Makes(s, W, V) PROVE V \in Spent(J, D)
  <2>1. PICK X \in SUBSET Facts :
          /\ V.rel[<<q, v>>] = W.rel[<<q, v>>] \cup X
          /\ SameBut(W, V, {<<q, v>>})
          /\ \A f \in X : \E row \in s.rows : f = row.head /\ (s.ground \/ ReachedIn(W, row))
    BY <1>2 DEF Makes, Inserts
  <2>2. \A x \in Relations, w \in Versions : x # q \/ w # v => V.rel[<<x, w>>] = W.rel[<<x, w>>]
    BY <2>1 DEF SameBut, Keys
  <2>3. \A w \in Versions : W.rel[<<q, w>>] \subseteq V.rel[<<q, w>>]
    BY <1>1, <2>1, <2>2
  <2>4. Knows(W, q) \subseteq Knows(V, q)
    BY <2>3 DEF Knows, Versions
  <2>5. ASSUME NEW f \in X PROVE Earned(source, W, f)
    <3>1. PICK row \in s.rows : f = row.head /\ (s.ground \/ ReachedIn(W, row))
      BY <2>1
    <3>2. CASE s.ground
      <4>1. f \in source.facts
        BY <3>1, <3>2 DEF Honest
      <4> QED
        BY <4>1 DEF Earned
    <3>3. CASE ~ s.ground
      BY <1>1, <3>1, <3>3 DEF Honest
    <3> QED
      BY <3>2, <3>3
  <2>6. ASSUME NEW w \in Versions, NEW f \in V.rel[<<q, w>>]
        PROVE  (\E u \in Versions : f \in W.rel[<<q, u>>]) \/ Earned(source, W, f)
    <3>1. CASE w = v
      BY <2>1, <2>5, <3>1
    <3>2. CASE w # v
      <4>1. f \in W.rel[<<q, w>>]
        BY <1>1, <2>2, <3>2
      <4> QED
        BY <4>1
    <3> QED
      BY <3>1, <3>2
  <2>7. \A x \in Relations \ {q}, w \in Versions : V.rel[<<x, w>>] = W.rel[<<x, w>>]
    BY <2>2
  <2>8. V \in Spent(J, D \ {q})
    <3>1. Gains(source, W, V, q)
      BY <2>4, <2>6, <2>7 DEF Gains, SameOff
    <3> QED
      BY <1>1, <3>1, JustStep
  <2>9. D \ {q} = D
    OBVIOUS
  <2> QED
    BY <2>8, <2>9
<1>3. Carries(Spent(J, D), s, Spent(J, D), out)
  BY <1>2 DEF Carries
<1> QED
  BY <1>3 DEF Goes

\* A statement about an output that is no insert.
LEMMA JustAbout ==
  ASSUME NEW source, Fits(source), NEW J, IsJust(source, J), NEW D, D \subseteq Relations,
         NEW q \in source.edb \cup source.idb, NEW s, IsAbout(s, q),
         NEW B, B \in {D \ {q}, D \cup {q}}, NEW out,
         \A W \in Spent(J, D), V \in Worlds : Makes(s, W, V) =>
           /\ Knows(W, q) \subseteq Knows(V, q)
           /\ \A v \in Versions : \A f \in V.rel[<<q, v>>] : \E u \in Versions : f \in W.rel[<<q, u>>]
           /\ B = D \ {q} \/ V.rel[<<q, "Delta">>] \subseteq V.rel[<<q, "Total">>]
  PROVE  Goes(Spent(J, D), s, Spent(J, B), out)
<1>1. q \in Relations
  BY DEF Fits
<1>2. s.op # "loop"
  BY DEF IsAbout, IsInsert, Merge, Purge, Swap
<1>3. ASSUME NEW W \in Spent(J, D), NEW V \in Worlds, Makes(s, W, V) PROVE s.op # "exit" /\ V \in Spent(J, B)
  <2>1. s.op # "exit" /\ \A x \in Relations \ {q}, w \in Versions : V.rel[<<x, w>>] = W.rel[<<x, w>>]
    BY <1>1, <1>3, AboutMakes
  <2>2. /\ Knows(W, q) \subseteq Knows(V, q)
        /\ \A v \in Versions : \A f \in V.rel[<<q, v>>] : \E u \in Versions : f \in W.rel[<<q, u>>]
        /\ B = D \ {q} \/ V.rel[<<q, "Delta">>] \subseteq V.rel[<<q, "Total">>]
    BY <1>3
  <2>3. /\ V \in Spent(J, D \ {q})
        /\ V.rel[<<q, "Delta">>] \subseteq V.rel[<<q, "Total">>] => V \in Spent(J, D \cup {q})
    <3>1. Gains(source, W, V, q)
      BY <2>1, <2>2 DEF Gains, SameOff
    <3> QED
      BY <1>1, <3>1, JustStep
  <2> QED
    BY <2>1, <2>2, <2>3
<1>4. Carries(Spent(J, D), s, Spent(J, B), out)
  BY <1>3 DEF Carries
<1> QED
  BY <1>2, <1>4 DEF Goes

\* What the statements about one relation lead to.
LEMMA JustMoves ==
  ASSUME NEW source, Fits(source), NEW J, IsJust(source, J), NEW D, D \subseteq Relations,
         NEW q \in source.edb \cup source.idb, NEW out
  PROVE  /\ Goes(Spent(J, D), Merge(Key(q, "Delta"), Key(q, "Total")), Spent(J, D \cup {q}), out)
         /\ q \in D => Goes(Spent(J, D), Merge(Key(q, "Total"), Key(q, "Delta")), Spent(J, D \cup {q}), out)
         /\ q \notin D => Goes(Spent(J, D), Purge(Key(q, "New")), Spent(J, D \ {q}), out)
         /\ q \in D => Goes(Spent(J, D), Purge(Key(q, "Delta")), Spent(J, D \cup {q}), out)
         /\ q \in D => Goes(Spent(J, D), Swap(Key(q, "New"), Key(q, "Delta")), Spent(J, D \ {q}), out)
<1> DEFINE m == Merge(Key(q, "Delta"), Key(q, "Total"))
           f == Merge(Key(q, "Total"), Key(q, "Delta"))
           n == Purge(Key(q, "New"))
           d == Purge(Key(q, "Delta"))
           t == Swap(Key(q, "New"), Key(q, "Delta"))
<1>1. /\ IsAbout(m, q) /\ IsAbout(f, q) /\ IsAbout(n, q) /\ IsAbout(d, q) /\ IsAbout(t, q)
      /\ Versions = {"Delta", "Total", "New"} /\ q \in Relations
  BY DEF IsAbout, Versions, Fits
<1>2. ASSUME NEW W \in Spent(J, D), q \in D PROVE W.rel[<<q, "Delta">>] \subseteq W.rel[<<q, "Total">>]
  BY <1>2 DEF Spent
<1>3. ASSUME NEW W, NEW V, Makes(m, W, V)
      PROVE  /\ V.rel[<<q, "Total">>] = W.rel[<<q, "Total">>] \cup W.rel[<<q, "Delta">>]
             /\ V.rel[<<q, "Delta">>] = W.rel[<<q, "Delta">>] /\ V.rel[<<q, "New">>] = W.rel[<<q, "New">>]
  <2>1. m.op = "merge" /\ m.into = <<q, "Total">> /\ m.from = <<q, "Delta">>
    BY DEF Merge, Key
  <2> HIDE DEF m
  <2>2. <<q, "Delta">> \in Keys \ {<<q, "Total">>} /\ <<q, "New">> \in Keys \ {<<q, "Total">>}
    BY <1>1 DEF Keys
  <2> QED
    BY <1>3, <2>1, <2>2 DEF Makes, SameBut
<1>4. ASSUME NEW W, NEW V, Makes(f, W, V)
      PROVE  /\ V.rel[<<q, "Delta">>] = W.rel[<<q, "Delta">>] \cup W.rel[<<q, "Total">>]
             /\ V.rel[<<q, "Total">>] = W.rel[<<q, "Total">>] /\ V.rel[<<q, "New">>] = W.rel[<<q, "New">>]
  <2>1. f.op = "merge" /\ f.into = <<q, "Delta">> /\ f.from = <<q, "Total">>
    BY DEF Merge, Key
  <2> HIDE DEF f
  <2>2. <<q, "Total">> \in Keys \ {<<q, "Delta">>} /\ <<q, "New">> \in Keys \ {<<q, "Delta">>}
    BY <1>1 DEF Keys
  <2> QED
    BY <1>4, <2>1, <2>2 DEF Makes, SameBut
<1>5. ASSUME NEW W, NEW V, Makes(n, W, V)
      PROVE  /\ V.rel[<<q, "New">>] = {}
             /\ V.rel[<<q, "Total">>] = W.rel[<<q, "Total">>] /\ V.rel[<<q, "Delta">>] = W.rel[<<q, "Delta">>]
  <2>1. n.op = "purge" /\ n.key = <<q, "New">>
    BY DEF Purge, Key
  <2> HIDE DEF n
  <2>2. <<q, "Total">> \in Keys \ {<<q, "New">>} /\ <<q, "Delta">> \in Keys \ {<<q, "New">>}
    BY <1>1 DEF Keys
  <2> QED
    BY <1>5, <2>1, <2>2 DEF Makes, SameBut
<1>6. ASSUME NEW W, NEW V, Makes(d, W, V)
      PROVE  /\ V.rel[<<q, "Delta">>] = {}
             /\ V.rel[<<q, "Total">>] = W.rel[<<q, "Total">>] /\ V.rel[<<q, "New">>] = W.rel[<<q, "New">>]
  <2>1. d.op = "purge" /\ d.key = <<q, "Delta">>
    BY DEF Purge, Key
  <2> HIDE DEF d
  <2>2. <<q, "Total">> \in Keys \ {<<q, "Delta">>} /\ <<q, "New">> \in Keys \ {<<q, "Delta">>}
    BY <1>1 DEF Keys
  <2> QED
    BY <1>6, <2>1, <2>2 DEF Makes, SameBut
<1>7. ASSUME NEW W, NEW V, Makes(t, W, V)
      PROVE  /\ V.rel[<<q, "New">>] = W.rel[<<q, "Delta">>] /\ V.rel[<<q, "Delta">>] = W.rel[<<q, "New">>]
             /\ V.rel[<<q, "Total">>] = W.rel[<<q, "Total">>]
  <2>1. t.op = "swap" /\ t.left = <<q, "New">> /\ t.right = <<q, "Delta">>
    BY DEF Swap, Key
  <2> HIDE DEF t
  <2>2. <<q, "Total">> \in Keys \ {<<q, "New">>, <<q, "Delta">>}
    BY <1>1 DEF Keys
  <2> QED
    BY <1>7, <2>1, <2>2 DEF Makes, SameBut
<1> HIDE DEF m, f, n, d, t
<1> DEFINE Up == D \cup {q}
           Off == D \ {q}
<1>8. Up \in {Off, Up} /\ Off \in {Off, Up}
  OBVIOUS
<1>9. Goes(Spent(J, D), m, Spent(J, Up), out)
  <2>1. ASSUME NEW W \in Spent(J, D), NEW V \in Worlds, Makes(m, W, V)
        PROVE  /\ Knows(W, q) \subseteq Knows(V, q)
               /\ \A v \in Versions : \A g \in V.rel[<<q, v>>] : \E u \in Versions : g \in W.rel[<<q, u>>]
               /\ Up = Off \/ V.rel[<<q, "Delta">>] \subseteq V.rel[<<q, "Total">>]
    BY <1>1, <1>3, <2>1 DEF Knows
  <2> QED
    BY <1>1, <1>8, <2>1, JustAbout
<1>10. q \in D => Goes(Spent(J, D), f, Spent(J, Up), out)
  <2>1. ASSUME q \in D, NEW W \in Spent(J, D), NEW V \in Worlds, Makes(f, W, V)
        PROVE  /\ Knows(W, q) \subseteq Knows(V, q)
               /\ \A v \in Versions : \A g \in V.rel[<<q, v>>] : \E u \in Versions : g \in W.rel[<<q, u>>]
               /\ Up = Off \/ V.rel[<<q, "Delta">>] \subseteq V.rel[<<q, "Total">>]
    BY <1>1, <1>2, <1>4, <2>1 DEF Knows
  <2> QED
    BY <1>1, <1>8, <2>1, JustAbout
<1>11. q \notin D => Goes(Spent(J, D), n, Spent(J, Off), out)
  <2>1. ASSUME NEW W \in Spent(J, D), NEW V \in Worlds, Makes(n, W, V)
        PROVE  /\ Knows(W, q) \subseteq Knows(V, q)
               /\ \A v \in Versions : \A g \in V.rel[<<q, v>>] : \E u \in Versions : g \in W.rel[<<q, u>>]
               /\ Off = Off \/ V.rel[<<q, "Delta">>] \subseteq V.rel[<<q, "Total">>]
    BY <1>1, <1>5, <2>1 DEF Knows
  <2> QED
    BY <1>1, <1>8, <2>1, JustAbout
<1>12. q \in D => Goes(Spent(J, D), d, Spent(J, Up), out)
  <2>1. ASSUME q \in D, NEW W \in Spent(J, D), NEW V \in Worlds, Makes(d, W, V)
        PROVE  /\ Knows(W, q) \subseteq Knows(V, q)
               /\ \A v \in Versions : \A g \in V.rel[<<q, v>>] : \E u \in Versions : g \in W.rel[<<q, u>>]
               /\ Up = Off \/ V.rel[<<q, "Delta">>] \subseteq V.rel[<<q, "Total">>]
    BY <1>1, <1>2, <1>6, <2>1 DEF Knows
  <2> QED
    BY <1>1, <1>8, <2>1, JustAbout
<1>13. q \in D => Goes(Spent(J, D), t, Spent(J, Off), out)
  <2>1. ASSUME q \in D, NEW W \in Spent(J, D), NEW V \in Worlds, Makes(t, W, V)
        PROVE  /\ Knows(W, q) \subseteq Knows(V, q)
               /\ \A v \in Versions : \A g \in V.rel[<<q, v>>] : \E u \in Versions : g \in W.rel[<<q, u>>]
               /\ Off = Off \/ V.rel[<<q, "Delta">>] \subseteq V.rel[<<q, "Total">>]
    BY <1>1, <1>2, <1>7, <2>1 DEF Knows
  <2> QED
    BY <1>1, <1>8, <2>1, JustAbout
<1> QED
  BY <1>9, <1>10, <1>11, <1>12, <1>13 DEF m, f, n, d, t

\* The merges of the Deltas of some relations, after which these are spent, ...
LEMMA JustDeltas ==
  ASSUME NEW source, Fits(source), NEW J, IsJust(source, J), NEW D, D \subseteq Relations,
         NEW R \in SUBSET (source.edb \cup source.idb), IsFiniteSet(R), NEW out
  PROVE  IsSeq(MergeDelta(R)) /\ Course(MergeDelta(R), Spent(J, D), Spent(J, D \cup R), out)
<1> DEFINE F == [q \in R |-> Merge(Key(q, "Delta"), Key(q, "Total"))]
           order == SetToSeq(R)
           p == MergeDelta(R)
           T == [S \in SUBSET R |-> Spent(J, D \cup S)]
<1>1. p = [i \in DOMAIN order |-> F[order[i]]]
  <2>1. \A i \in DOMAIN order : order[i] \in R
    BY SetToSeqIs DEF ToSet
  <2>2. p = [i \in DOMAIN order |-> Merge(Key(order[i], "Delta"), Key(order[i], "Total"))]
    BY DEF MergeDelta, ForEach
  <2> QED
    BY <2>1, <2>2
<1>2. ASSUME NEW S \in SUBSET R, NEW x \in R \ S PROVE Goes(T[S], F[x], T[S \cup {x}], out)
  <2>1. /\ T[S] = Spent(J, D \cup S) /\ F[x] = Merge(Key(x, "Delta"), Key(x, "Total"))
        /\ T[S \cup {x}] = Spent(J, (D \cup S) \cup {x})
    <3>1. D \cup (S \cup {x}) = (D \cup S) \cup {x} /\ S \cup {x} \in SUBSET R
      OBVIOUS
    <3> QED
      BY <3>1
  <2>2. D \cup S \subseteq Relations /\ x \in source.edb \cup source.idb
    BY DEF Fits
  <2> HIDE DEF T, F
  <2>3. Goes(Spent(J, D \cup S), Merge(Key(x, "Delta"), Key(x, "Total")), Spent(J, (D \cup S) \cup {x}), out)
    BY ONLY Fits(source), IsJust(source, J), <2>2, JustMoves
  <2> QED
    BY <2>1, <2>3
<1>3. T[{}] = Spent(J, D) /\ T[R] = Spent(J, D \cup R)
  <2>1. D \cup {} = D /\ {} \in SUBSET R /\ R \in SUBSET R
    OBVIOUS
  <2> QED
    BY <2>1
<1> HIDE DEF F, T, p
<1>4. IsSeq(p) /\ Course(p, T[{}], T[R], out)
  BY <1>1, <1>2, CourseOfSome
<1> QED
  BY <1>3, <1>4 DEF p

\* ... those of their Totals into Delta, ...
LEMMA JustTotals ==
  ASSUME NEW source, Fits(source), NEW J, IsJust(source, J), NEW D, D \subseteq Relations,
         NEW R \in SUBSET (source.edb \cup source.idb), IsFiniteSet(R), R \subseteq D, NEW out
  PROVE  IsSeq(MergeTotal(R)) /\ Course(MergeTotal(R), Spent(J, D), Spent(J, D), out)
<1> DEFINE F == [q \in R |-> Merge(Key(q, "Total"), Key(q, "Delta"))]
           order == SetToSeq(R)
           p == MergeTotal(R)
           T == [S \in SUBSET R |-> Spent(J, D)]
<1>1. p = [i \in DOMAIN order |-> F[order[i]]]
  <2>1. \A i \in DOMAIN order : order[i] \in R
    BY SetToSeqIs DEF ToSet
  <2>2. p = [i \in DOMAIN order |-> Merge(Key(order[i], "Total"), Key(order[i], "Delta"))]
    BY DEF MergeTotal, ForEach
  <2> QED
    BY <2>1, <2>2
<1>2. ASSUME NEW S \in SUBSET R, NEW x \in R \ S PROVE Goes(T[S], F[x], T[S \cup {x}], out)
  <2>1. /\ T[S] = Spent(J, D) /\ F[x] = Merge(Key(x, "Total"), Key(x, "Delta"))
        /\ T[S \cup {x}] = Spent(J, D \cup {x}) /\ x \in D
    <3>1. D \cup {x} = D /\ S \cup {x} \in SUBSET R
      OBVIOUS
    <3> QED
      BY <3>1
  <2>2. x \in source.edb \cup source.idb
    OBVIOUS
  <2> HIDE DEF T, F
  <2>3. Goes(Spent(J, D), Merge(Key(x, "Total"), Key(x, "Delta")), Spent(J, D \cup {x}), out)
    BY <2>1, <2>2, JustMoves
  <2> QED
    BY <2>1, <2>3
<1>3. T[{}] = Spent(J, D) /\ T[R] = Spent(J, D)
  OBVIOUS
<1> HIDE DEF F, T, p
<1>4. IsSeq(p) /\ Course(p, T[{}], T[R], out)
  BY <1>1, <1>2, CourseOfSome
<1> QED
  BY <1>3, <1>4 DEF p

\* ... the purges that open a loop, and those that end an epoch, ...
LEMMA JustPurges ==
  ASSUME NEW source, Fits(source), NEW J, IsJust(source, J), NEW D, D \subseteq Relations,
         NEW R \in SUBSET (source.edb \cup source.idb), IsFiniteSet(R),
         NEW v, \/ v = "New" /\ R \cap D = {}
                \/ v = "Delta" /\ R \subseteq D, NEW out
  PROVE  IsSeq(PurgesOf(R, v)) /\ Course(PurgesOf(R, v), Spent(J, D), Spent(J, D), out)
<1> DEFINE F == [q \in R |-> Purge(Key(q, v))]
           order == SetToSeq(R)
           p == PurgesOf(R, v)
           T == [S \in SUBSET R |-> Spent(J, D)]
<1>1. p = [i \in DOMAIN order |-> F[order[i]]]
  <2>1. \A i \in DOMAIN order : order[i] \in R
    BY SetToSeqIs DEF ToSet
  <2>2. p = [i \in DOMAIN order |-> Purge(Key(order[i], v))]
    BY DEF PurgesOf, ForEach
  <2> QED
    BY <2>1, <2>2
<1>2. ASSUME NEW S \in SUBSET R, NEW x \in R \ S PROVE Goes(T[S], F[x], T[S \cup {x}], out)
  <2>1. T[S] = Spent(J, D) /\ F[x] = Purge(Key(x, v)) /\ T[S \cup {x}] = Spent(J, D)
    OBVIOUS
  <2>2. \/ v = "New" /\ x \notin D /\ D \ {x} = D
        \/ v = "Delta" /\ x \in D /\ D \cup {x} = D
    OBVIOUS
  <2> HIDE DEF T, F
  <2>3. CASE v = "New"
    <3>1. x \notin D /\ D \ {x} = D
      BY <2>2, <2>3
    <3>2. Goes(Spent(J, D), Purge(Key(x, "New")), Spent(J, D \ {x}), out)
      BY <3>1, JustMoves
    <3> QED
      BY <2>1, <2>3, <3>1, <3>2
  <2>4. CASE v = "Delta"
    <3>1. x \in D /\ D \cup {x} = D
      BY <2>2, <2>4
    <3>2. Goes(Spent(J, D), Purge(Key(x, "Delta")), Spent(J, D \cup {x}), out)
      BY <3>1, JustMoves
    <3> QED
      BY <2>1, <2>4, <3>1, <3>2
  <2> QED
    BY <2>2, <2>3, <2>4
<1>3. T[{}] = Spent(J, D) /\ T[R] = Spent(J, D)
  OBVIOUS
<1> HIDE DEF F, T, p
<1>4. IsSeq(p) /\ Course(p, T[{}], T[R], out)
  BY <1>1, <1>2, CourseOfSome
<1> QED
  BY <1>3, <1>4 DEF p

\* ... and the swaps, after which the Deltas hold what was New.
LEMMA JustSwaps ==
  ASSUME NEW source, Fits(source), NEW J, IsJust(source, J), NEW D, D \subseteq Relations,
         NEW R \in SUBSET (source.edb \cup source.idb), IsFiniteSet(R), R \subseteq D, NEW out
  PROVE  LET p == ForEach(R, LAMBDA r : Swap(Key(r, "New"), Key(r, "Delta")))
         IN  IsSeq(p) /\ Course(p, Spent(J, D), Spent(J, D \ R), out)
<1> DEFINE F == [q \in R |-> Swap(Key(q, "New"), Key(q, "Delta"))]
           order == SetToSeq(R)
           p == ForEach(R, LAMBDA r : Swap(Key(r, "New"), Key(r, "Delta")))
           T == [S \in SUBSET R |-> Spent(J, D \ S)]
<1>1. p = [i \in DOMAIN order |-> F[order[i]]]
  <2>1. \A i \in DOMAIN order : order[i] \in R
    BY SetToSeqIs DEF ToSet
  <2>2. p = [i \in DOMAIN order |-> Swap(Key(order[i], "New"), Key(order[i], "Delta"))]
    BY DEF ForEach
  <2> QED
    BY <2>1, <2>2
<1>2. ASSUME NEW S \in SUBSET R, NEW x \in R \ S PROVE Goes(T[S], F[x], T[S \cup {x}], out)
  <2>1. /\ T[S] = Spent(J, D \ S) /\ F[x] = Swap(Key(x, "New"), Key(x, "Delta"))
        /\ T[S \cup {x}] = Spent(J, (D \ S) \ {x})
    <3>1. D \ (S \cup {x}) = (D \ S) \ {x} /\ S \cup {x} \in SUBSET R
      OBVIOUS
    <3> QED
      BY <3>1
  <2>2. D \ S \subseteq Relations /\ x \in D \ S
    OBVIOUS
  <2> HIDE DEF T, F
  <2> QED
    BY <2>1, <2>2, JustMoves
<1>3. T[{}] = Spent(J, D) /\ T[R] = Spent(J, D \ R)
  <2>1. D \ {} = D /\ {} \in SUBSET R /\ R \in SUBSET R
    OBVIOUS
  <2> QED
    BY <2>1
<1> HIDE DEF F, T, p
<1>4. IsSeq(p) /\ Course(p, T[{}], T[R], out)
  BY <1>1, <1>2, CourseOfSome
<1> QED
  BY <1>3, <1>4 DEF p

\* Rules that the machine evaluates as they are written: a search does not lose
\* a column, no aggregation takes the place of a predicate, and the rule is safe.
ReadsAsWritten(rule) == ReadsOnce(rule) /\ (rule.aggs = <<>> \/ rule.preds = <<>>)
Readable(source) ==
  \A r \in ToSet(source.rules) : ReadsAsWritten(r) /\ SafeRule(r)

\* Ground facts, ...
LEMMA JustFacts ==
  ASSUME NEW source, Fits(source), NEW J, IsJust(source, J), NEW D, D \subseteq Relations,
         NEW facts, IsFiniteSet(facts), facts \subseteq source.facts, \A f \in facts : f.rel \notin D, NEW out
  PROVE  IsSeq(LowerFacts(facts)) /\ Course(LowerFacts(facts), Spent(J, D), Spent(J, D), out)
<1> DEFINE p == LowerFacts(facts)
           order == SetToSeq(facts)
<1>1. facts \subseteq Facts /\ \A f \in facts : f.rel \in source.idb
  BY DEF Fits, Writable, Proper
<1>2. IsSeq(p)
  BY <1>1, LowerFactsParts
<1>3. ASSUME NEW s \in ToSet(p)
      PROVE  \E f \in facts : s.op = "insert" /\ s.into = <<f.rel, "Delta">> /\ Honest(source, s)
  <2>1. ToSet(order) = facts
    BY SetToSeqIs
  <2>2. p = [i \in DOMAIN order |-> LowerFact(order[i])]
    BY DEF LowerFacts
  <2>3. PICK f \in facts : s = LowerFact(f)
    <3> HIDE DEF order, p
    <3> QED
      BY <1>3, <2>1, <2>2 DEF ToSet
  <2> DEFINE row == [head |-> f, search |-> {}, absent |-> {}, aggs |-> {}]
  <2>4. s = [op |-> "insert", into |-> <<f.rel, "Delta">>, ground |-> TRUE, rows |-> {row}]
    BY <2>3 DEF LowerFact, Insert, Key
  <2>5. row.head = f
    OBVIOUS
  <2> HIDE DEF row
  <2>6. s.op = "insert" /\ s.into = <<f.rel, "Delta">> /\ s.rows = {row} /\ s.ground
    BY <2>4
  <2> QED
    BY <2>5, <2>6 DEF Honest
<1> HIDE DEF p
<1>4. ASSUME NEW s \in ToSet(p) PROVE Goes(Spent(J, D), s, Spent(J, D), out)
  <2>1. PICK f \in facts : s.op = "insert" /\ s.into = <<f.rel, "Delta">> /\ Honest(source, s)
    BY <1>3
  <2>2. PICK v \in Versions : v = "Delta"
    BY DEF Versions
  <2>3. f.rel \in source.idb /\ f.rel \notin D /\ s.into = <<f.rel, v>>
    BY <1>1, <2>1, <2>2
  <2> QED
    BY <2>1, <2>3, JustInsert
<1>5. Course(p, Spent(J, D), Spent(J, D), out)
  BY <1>2, <1>4, CourseStays
<1> QED
  BY <1>2, <1>5 DEF p

\* ... rules, ...
LEMMA JustRules ==
  ASSUME NEW source, Fits(source), Readable(source), NEW J, IsJust(source, J), NEW D, D \subseteq Relations,
         NEW rules, IsSeq(rules), ToSet(rules) \subseteq ToSet(source.rules),
         \A r \in ToSet(rules) : r.head.rel \notin D, NEW v \in Versions, NEW out
  PROVE  IsSeq(LowerRules(rules, v)) /\ Course(LowerRules(rules, v), Spent(J, D), Spent(J, D), out)
<1> DEFINE p == LowerRules(rules, v)
<1>1. \A r \in ToSet(rules) : IsSeq(r.pos) /\ r.head.rel \in source.idb
  BY DEF Fits, Proper, ProperRule, IsAtom
<1>2. IsSeq(p) /\ \A s \in ToSet(p) : \E r \in ToSet(rules) : s \in ToSet(LowerRule(r, v))
  BY <1>1, LoweredRules
<1> HIDE DEF p
<1>3. ASSUME NEW s \in ToSet(p) PROVE Goes(Spent(J, D), s, Spent(J, D), out)
  <2>1. PICK r \in ToSet(rules) : s \in ToSet(LowerRule(r, v))
    BY <1>2
  <2>2. s.op = "insert" /\ s.into = <<r.head.rel, v>> /\ ~ s.ground
    BY <1>1, <2>1, LoweredInto
  <2>3. r \in ToSet(source.rules) /\ ProperRule(r, source.edb \cup source.idb, source.idb)
    BY DEF Fits, Proper
  <2>4. ReadsOnce(r) /\ (r.aggs = <<>> \/ r.preds = <<>>) /\ SafeRule(r)
    BY <2>3 DEF Readable, ReadsAsWritten
  <2>5. ASSUME NEW row \in s.rows, NEW W \in Worlds, ReachedIn(W, row) PROVE Earned(source, W, row.head)
    <3>1. \E j \in Instances(r) : j.head = row.head /\ \A x \in j.pos : Seen(W, x)
      BY <2>1, <2>3, <2>4, <2>5, RowSupported
    <3> QED
      BY <2>3, <3>1 DEF Earned
  <2>6. Honest(source, s)
    BY <2>2, <2>5 DEF Honest
  <2>7. r.head.rel \in source.idb /\ r.head.rel \notin D
    BY <1>1
  <2> QED
    BY <2>2, <2>6, <2>7, JustInsert
<1>4. Course(p, Spent(J, D), Spent(J, D), out)
  BY <1>2, <1>3, CourseStays
<1> QED
  BY <1>2, <1>4 DEF p

\* ... sinks and an exit, which leave the relations alone, ...
LEMMA JustSinks ==
  ASSUME NEW source, NEW J, IsJust(source, J), NEW D, NEW c, NEW out
  PROVE  Goes(Spent(J, D), Sinks(c), Spent(J, D), out)
<1> DEFINE s == Sinks(c)
<1>1. s.op = "sinks"
  BY DEF Sinks
<1> HIDE DEF s
<1>2. Carries(Spent(J, D), s, Spent(J, D), out)
  BY <1>1, JustStill DEF Carries, Makes
<1> QED
  BY <1>1, <1>2 DEF Goes, s

\* (the exit)
LEMMA JustExit ==
  ASSUME NEW source, NEW J, IsJust(source, J), NEW D, NEW keys
  PROVE  Goes(Spent(J, D), Exit(keys), Spent(J, D), Spent(J, D))
<1> DEFINE s == Exit(keys)
<1>1. s.op = "exit"
  BY DEF Exit
<1> HIDE DEF s
<1>2. Carries(Spent(J, D), s, Spent(J, D), Spent(J, D))
  BY <1>1, JustStill DEF Carries, Makes
<1> QED
  BY <1>1, <1>2 DEF Goes, s

\* ... and the sources, which add to the inputs.
LEMMA JustSources ==
  ASSUME NEW source, Fits(source), NEW J, IsJust(source, J), NEW D, D \subseteq source.idb, NEW out
  PROVE  Goes(Spent(J, D), Sources(source.edb), Spent(J, D), out)
<1> DEFINE s == Sources(source.edb)
<1>1. s.op = "sources" /\ s.relations = source.edb
  BY DEF Sources
<1> HIDE DEF s
<1>2. source.edb \cup source.idb \subseteq Relations /\ source.edb \cap source.idb = {}
  BY DEF Fits, Proper
<1>3. ASSUME NEW W \in Spent(J, D), NEW V \in Worlds, Makes(s, W, V) PROVE V \in Spent(J, D)
  <2>1. \A k \in Keys : /\ W.rel[k] \subseteq V.rel[k]
                        /\ V.rel[k] = W.rel[k] \/ (k[2] = "Delta" /\ k[1] \in source.edb)
    BY <1>1, <1>3 DEF Makes
  <2>2. \A q \in source.edb \cup source.idb : Knows(W, q) \subseteq Knows(V, q)
    <3>1. ASSUME NEW q \in source.edb \cup source.idb PROVE Knows(W, q) \subseteq Knows(V, q)
      <4>1. <<q, "Delta">> \in Keys /\ <<q, "Total">> \in Keys
        BY <1>2 DEF Keys, Versions
      <4> QED
        BY <2>1, <4>1 DEF Knows
    <3> QED
      BY <3>1
  <2>3. ASSUME NEW q \in source.idb, NEW v \in Versions PROVE V.rel[<<q, v>>] = W.rel[<<q, v>>]
    <3>1. <<q, v>> \in Keys /\ <<q, v>>[1] \notin source.edb
      BY <1>2 DEF Keys
    <3> QED
      BY <2>1, <3>1
  <2>4. Yields(source, W, V)
    BY <2>2, <2>3 DEF Yields
  <2>5. W \in J /\ V \in J /\ \A q \in D : W.rel[<<q, "Delta">>] \subseteq W.rel[<<q, "Total">>]
    BY <2>4 DEF IsJust, Spent
  <2>6. \A q \in D : V.rel[<<q, "Delta">>] \subseteq V.rel[<<q, "Total">>]
    BY <2>3, <2>5 DEF Versions
  <2> QED
    BY <2>5, <2>6 DEF Spent
<1>4. Carries(Spent(J, D), s, Spent(J, D), out)
  BY <1>1, <1>3 DEF Carries
<1> QED
  BY <1>1, <1>4 DEF Goes, s

\* A stratum that does not read itself.
LEMMA JustFlat ==
  ASSUME NEW source, Fits(source), Readable(source), NEW J, IsJust(source, J),
         NEW c \in SUBSET source.idb, IsFiniteSet(c), NEW D \in SUBSET source.idb, D \cap c = {},
         NEW stratum, stratum = StratumOf(source, c), ~ stratum.recursive, NEW out
  PROVE  /\ IsSeq(LowerStratum(stratum))
         /\ Course(LowerStratum(stratum), Spent(J, D), Spent(J, D \cup c), out)
<1> DEFINE facts == LowerFacts(stratum.facts)
           rules == LowerRules(stratum.rules, "Delta")
           merges == MergeDelta(c)
           sinks == <<Sinks(c)>>
           feeds == MergeTotal(c)
           A == Spent(J, D)
           B == Spent(J, D \cup c)
<1>1. /\ stratum.relations = c /\ IsSeq(stratum.rules)
      /\ ToSet(stratum.rules) \subseteq ToSet(source.rules)
      /\ \A r \in ToSet(stratum.rules) : r.head.rel \in c
      /\ IsFiniteSet(stratum.facts) /\ stratum.facts \subseteq source.facts
      /\ \A f \in stratum.facts : f.rel \in c
  BY StratumRules DEF Fits
<1>2. LowerStratum(stratum) = facts \o rules \o merges \o sinks \o feeds
  BY <1>1 DEF LowerStratum, LowerFlatStratum
<1>3. /\ D \subseteq Relations /\ D \cup c \subseteq Relations /\ c \subseteq D \cup c
      /\ c \in SUBSET (source.edb \cup source.idb)
  BY DEF Fits
<1>4. IsSeq(facts) /\ Course(facts, A, A, out)
  <2>1. \A f \in stratum.facts : f.rel \notin D
    BY <1>1
  <2> QED
    BY <1>1, <1>3, <2>1, JustFacts
<1>5. IsSeq(rules) /\ Course(rules, A, A, out)
  <2>1. \A r \in ToSet(stratum.rules) : r.head.rel \notin D
    BY <1>1
  <2>2. PICK v \in Versions : v = "Delta"
    BY DEF Versions
  <2>3. IsSeq(LowerRules(stratum.rules, v)) /\ Course(LowerRules(stratum.rules, v), A, A, out)
    BY <1>1, <1>3, <2>1, JustRules
  <2> QED
    BY <2>2, <2>3
<1>6. IsSeq(merges) /\ Course(merges, A, B, out)
  BY <1>3, JustDeltas
<1>7. IsSeq(sinks) /\ Course(sinks, B, B, out)
  BY JustSinks, CourseOne, SeqOne
<1>8. IsSeq(feeds) /\ Course(feeds, B, B, out)
  BY <1>3, JustTotals
<1> HIDE DEF facts, rules, merges, sinks, feeds, A, B
<1>9. ASSUME NEW p, NEW q, IsSeq(p), IsSeq(q), NEW X, NEW Y, NEW Z,
             Course(p, X, Y, out), Course(q, Y, Z, out)
      PROVE  IsSeq(p \o q) /\ Course(p \o q, X, Z, out)
  BY <1>9, CourseConcat, SeqConcat
<1>10. IsSeq(facts \o rules) /\ Course(facts \o rules, A, A, out)
  BY <1>4, <1>5, <1>9
<1>11. IsSeq(facts \o rules \o merges) /\ Course(facts \o rules \o merges, A, B, out)
  BY <1>6, <1>9, <1>10
<1>12. /\ IsSeq(facts \o rules \o merges \o sinks)
       /\ Course(facts \o rules \o merges \o sinks, A, B, out)
  BY <1>7, <1>9, <1>11
<1>13. IsSeq(LowerStratum(stratum)) /\ Course(LowerStratum(stratum), A, B, out)
  BY <1>2, <1>8, <1>9, <1>12
<1> QED
  BY <1>13 DEF A, B

\* A loop is left where every Delta has reached Total.
LEMMA JustLoop ==
  ASSUME NEW source, Fits(source), Readable(source), NEW J, IsJust(source, J),
         NEW c \in SUBSET source.idb, IsFiniteSet(c), NEW D \in SUBSET source.idb, D \cap c = {},
         NEW stratum, stratum = StratumOf(source, c),
         NEW dynamic, IsSeq(dynamic), ToSet(dynamic) \subseteq ToSet(stratum.rules), NEW out
  PROVE  Goes(Spent(J, D), Loop(LoopBody(stratum, dynamic)), Spent(J, D \cup c), out)
<1> DEFINE purges == ForEach(c, LAMBDA r : Purge(Key(r, "New")))
           inserts == LowerRules(dynamic, "New")
           sinks == <<Sinks(c)>>
           merges == MergeDelta(c)
           exit == <<Exit({Key(r, "New") : r \in c})>>
           swaps == ForEach(c, LAMBDA r : Swap(Key(r, "New"), Key(r, "Delta")))
           body == LoopBody(stratum, dynamic)
           A == Spent(J, D)
           B == Spent(J, D \cup c)
<1>1. /\ stratum.relations = c /\ ToSet(dynamic) \subseteq ToSet(source.rules)
      /\ \A r \in ToSet(dynamic) : r.head.rel \in c
  BY StratumRules DEF Fits
<1>2. body = purges \o inserts \o sinks \o merges \o exit \o swaps
  BY <1>1 DEF LoopBody
<1>3. /\ D \subseteq Relations /\ D \cup c \subseteq Relations /\ c \subseteq D \cup c /\ (D \cup c) \ c = D
      /\ c \in SUBSET (source.edb \cup source.idb) /\ c \cap D = {}
  BY DEF Fits
<1>4. IsSeq(purges) /\ Course(purges, A, A, B)
  <2>1. PICK v \in Versions : v = "New"
    BY DEF Versions
  <2>2. IsSeq(PurgesOf(c, v)) /\ Course(PurgesOf(c, v), A, A, B)
    BY <1>3, <2>1, JustPurges
  <2>3. PurgesOf(c, v) = purges
    BY <2>1 DEF PurgesOf
  <2> HIDE DEF purges
  <2> QED
    BY <2>2, <2>3
<1>5. IsSeq(inserts) /\ Course(inserts, A, A, B)
  <2>1. \A r \in ToSet(dynamic) : r.head.rel \notin D
    BY <1>1
  <2>2. PICK v \in Versions : v = "New"
    BY DEF Versions
  <2>3. IsSeq(LowerRules(dynamic, v)) /\ Course(LowerRules(dynamic, v), A, A, B)
    BY <1>1, <1>3, <2>1, JustRules
  <2> QED
    BY <2>2, <2>3
<1>6. IsSeq(sinks) /\ Course(sinks, A, A, B)
  BY JustSinks, CourseOne, SeqOne
<1>7. IsSeq(merges) /\ Course(merges, A, B, B)
  BY <1>3, JustDeltas
<1>8. IsSeq(exit) /\ Course(exit, B, B, B)
  BY JustExit, CourseOne, SeqOne
<1>9. IsSeq(swaps) /\ Course(swaps, B, A, B)
  <2>1. IsSeq(swaps) /\ Course(swaps, B, Spent(J, (D \cup c) \ c), B)
    BY <1>3, JustSwaps
  <2> HIDE DEF swaps
  <2> QED
    BY <1>3, <2>1
<1>10. \A i \in 1..Len(body) : body[i].op # "loop"
  <2>1. AllOf(body, c)
    BY LoopBodyParts DEF Fits
  <2> HIDE DEF body
  <2> QED
    BY <2>1, NoLoopInside, SeqParts DEF AllOf
<1> HIDE DEF purges, inserts, sinks, merges, exit, swaps, body, A, B
<1>11. ASSUME NEW p, NEW q, IsSeq(p), IsSeq(q), NEW X, NEW Y, NEW Z,
              Course(p, X, Y, B), Course(q, Y, Z, B)
       PROVE  IsSeq(p \o q) /\ Course(p \o q, X, Z, B)
  BY <1>11, CourseConcat, SeqConcat
<1>12. IsSeq(purges \o inserts) /\ Course(purges \o inserts, A, A, B)
  BY <1>4, <1>5, <1>11
<1>13. IsSeq(purges \o inserts \o sinks) /\ Course(purges \o inserts \o sinks, A, A, B)
  BY <1>6, <1>11, <1>12
<1>14. IsSeq(purges \o inserts \o sinks \o merges) /\ Course(purges \o inserts \o sinks \o merges, A, B, B)
  BY <1>7, <1>11, <1>13
<1>15. /\ IsSeq(purges \o inserts \o sinks \o merges \o exit)
       /\ Course(purges \o inserts \o sinks \o merges \o exit, A, B, B)
  BY <1>8, <1>11, <1>14
<1>16. Course(body, A, A, B)
  BY <1>2, <1>9, <1>11, <1>15
<1>17. PICK L : IsCourse(L, body, A, A, B)
  BY <1>16 DEF Course
<1>18. Circles(L, body, A, B)
  <2>1. A \subseteq L[1] /\ L[Len(body) + 1] \subseteq L[1]
    BY <1>17 DEF IsCourse
  <2>2. \A j \in 1..Len(body) : Carries(L[j], body[j], L[j + 1], B)
    BY <1>10, <1>17 DEF IsCourse, Goes
  <2> QED
    BY <2>1, <2>2 DEF Circles
<1>19. Loop(body).op = "loop" /\ Loop(body).body = body
  BY DEF Loop
<1>20. Goes(A, Loop(body), B, out)
  BY <1>18, <1>19 DEF Goes
<1> QED
  BY <1>20 DEF A, B, body

\* A stratum that reads itself.
LEMMA JustRecursive ==
  ASSUME NEW source, Fits(source), Readable(source), NEW J, IsJust(source, J),
         NEW c \in SUBSET source.idb, IsFiniteSet(c), NEW D \in SUBSET source.idb, D \cap c = {},
         NEW stratum, stratum = StratumOf(source, c), stratum.recursive, NEW out
  PROVE  /\ IsSeq(LowerStratum(stratum))
         /\ Course(LowerStratum(stratum), Spent(J, D), Spent(J, D \cup c), out)
<1> DEFINE inside == {r \in ToSet(stratum.rules) : IsDynamic(r, stratum)}
           dynamic == Keep(stratum.rules, inside)
           static == Keep(stratum.rules, ToSet(stratum.rules) \ inside)
           facts == LowerFacts(stratum.facts)
           rules == LowerRules(static, "Delta")
           heads == {r.head.rel : r \in ToSet(static)}
           merges == MergeDelta(heads)
           loop == <<Loop(LoopBody(stratum, dynamic))>>
           feeds == MergeTotal(c)
           A == Spent(J, D)
           B == Spent(J, D \cup c)
<1>1. /\ stratum.relations = c /\ IsSeq(stratum.rules)
      /\ ToSet(stratum.rules) \subseteq ToSet(source.rules)
      /\ \A r \in ToSet(stratum.rules) : r.head.rel \in c
      /\ IsFiniteSet(stratum.facts) /\ stratum.facts \subseteq source.facts
      /\ \A f \in stratum.facts : f.rel \in c
  BY StratumRules DEF Fits
<1>2. LowerStratum(stratum) = facts \o rules \o merges \o loop \o feeds
  BY <1>1 DEF LowerStratum, LowerRecursiveStratum
<1>3. /\ IsSeq(dynamic) /\ ToSet(dynamic) = ToSet(stratum.rules) \cap inside
      /\ IsSeq(static) /\ ToSet(static) = ToSet(stratum.rules) \cap (ToSet(stratum.rules) \ inside)
  <2>1. stratum.rules \in Seq(ToSet(stratum.rules))
    BY <1>1 DEF IsSeq
  <2> HIDE DEF inside
  <2> QED
    BY <2>1, KeepType, KeepRange DEF IsSeq
<1>4. /\ ToSet(dynamic) \subseteq ToSet(stratum.rules) /\ ToSet(static) \subseteq ToSet(source.rules)
      /\ \A r \in ToSet(static) : r.head.rel \in c /\ r.head.rel \notin D
  BY <1>1, <1>3
<1>5. heads \in SUBSET c /\ IsFiniteSet(heads)
  <2>1. heads \in SUBSET c
    BY <1>4
  <2> QED
    BY <2>1, FS_Subset
<1> HIDE DEF inside, dynamic, static, heads
<1>6. /\ D \subseteq Relations /\ D \cup c \subseteq Relations /\ c \subseteq D \cup c
      /\ c \in SUBSET (source.edb \cup source.idb) /\ heads \in SUBSET (source.edb \cup source.idb)
  BY <1>5 DEF Fits
<1>7. IsSeq(facts) /\ Course(facts, A, A, out)
  <2>1. \A f \in stratum.facts : f.rel \notin D
    BY <1>1
  <2> QED
    BY <1>1, <1>6, <2>1, JustFacts
<1>8. IsSeq(rules) /\ Course(rules, A, A, out)
  <2>1. PICK v \in Versions : v = "Delta"
    BY DEF Versions
  <2>2. IsSeq(LowerRules(static, v)) /\ Course(LowerRules(static, v), A, A, out)
    BY <1>3, <1>4, <1>6, JustRules
  <2> QED
    BY <2>1, <2>2
<1>9. IsSeq(merges) /\ Course(merges, A, A, out)
  <2>1. IsSeq(merges) /\ Course(merges, A, Spent(J, D \cup heads), out)
    BY <1>5, <1>6, JustDeltas
  <2>2. Spent(J, D \cup heads) \subseteq A
    BY DEF Spent
  <2> HIDE DEF merges, A
  <2> QED
    BY <2>1, <2>2, CourseLess
<1>10. IsSeq(loop) /\ Course(loop, A, B, out)
  <2>1. Goes(A, Loop(LoopBody(stratum, dynamic)), B, out)
    BY <1>3, <1>4, JustLoop
  <2> HIDE DEF A, B
  <2> QED
    BY <2>1, CourseOne, SeqOne
<1>11. IsSeq(feeds) /\ Course(feeds, B, B, out)
  BY <1>6, JustTotals
<1> HIDE DEF facts, rules, merges, loop, feeds, A, B
<1>12. ASSUME NEW p, NEW q, IsSeq(p), IsSeq(q), NEW X, NEW Y, NEW Z,
              Course(p, X, Y, out), Course(q, Y, Z, out)
       PROVE  IsSeq(p \o q) /\ Course(p \o q, X, Z, out)
  BY <1>12, CourseConcat, SeqConcat
<1>13. IsSeq(facts \o rules) /\ Course(facts \o rules, A, A, out)
  BY <1>7, <1>8, <1>12
<1>14. IsSeq(facts \o rules \o merges) /\ Course(facts \o rules \o merges, A, A, out)
  BY <1>9, <1>12, <1>13
<1>15. /\ IsSeq(facts \o rules \o merges \o loop)
       /\ Course(facts \o rules \o merges \o loop, A, B, out)
  BY <1>10, <1>12, <1>14
<1>16. IsSeq(LowerStratum(stratum)) /\ Course(LowerStratum(stratum), A, B, out)
  BY <1>2, <1>11, <1>12, <1>15
<1> QED
  BY <1>16 DEF A, B

\* The strata, each of which spends its relations.
LEMMA JustStrata ==
  ASSUME NEW source, Fits(source), Stratifiable(source), Readable(source), NEW J, IsJust(source, J),
         NEW strata \in StrataOrders(source), NEW out
  PROVE  Course(FlattenSeq(LoweredStrata(strata)), Spent(J, source.idb), Spent(J, source.idb), out)
<1> DEFINE seqs == LoweredStrata(strata)
           n == Len(strata)
<1>1. /\ IsSeq(seqs) /\ Len(seqs) = n /\ n \in Nat
      /\ \A i \in 1..n : seqs[i] = LowerStratum(strata[i])
  <2>1. /\ IsSeq(seqs) /\ Len(seqs) = n
        /\ \A i \in 1..n : \E c \in Components(source) : seqs[i] = LowerStratum(strata[i])
    BY LoweredStrataParts DEF Fits
  <2> QED
    BY <2>1, SeqParts
<1>2. PICK s : IsOrder(source, s, n) /\ \A i \in 1..n : strata[i] = StratumOf(source, s[i])
  BY StrataOrdered DEF Fits
<1> DEFINE rest == source.idb \ Done(s, n + 1)
           Over(i) == rest \cup Done(s, i)
           T == [i \in 1..(n + 1) |-> Spent(J, Over(i))]
<1> HIDE DEF seqs, n
<1>3. ASSUME NEW i \in 1..n PROVE s[i] \in SUBSET source.idb
  <2>1. s[i] \in Components(source)
    BY <1>2 DEF IsOrder
  <2> QED
    BY <2>1, ComponentOutputs DEF Fits
<1>4. ASSUME NEW i \in 1..(n + 1) PROVE Done(s, i) \in SUBSET source.idb
  <2>1. \A j \in 1..(i - 1) : j \in 1..n
    BY <1>1
  <2> QED
    BY <1>3, <2>1 DEF Done
<1>5. ASSUME NEW i \in 1..Len(seqs) PROVE IsSeq(seqs[i]) /\ Course(seqs[i], T[i], T[i + 1], out)
  <2>1. i \in 1..n /\ i \in 1..(n + 1) /\ i + 1 \in 1..(n + 1)
    BY <1>1
  <2>2. /\ Placed(source, Done(s, i), s[i]) /\ IsFiniteSet(s[i])
        /\ Done(s, i + 1) = Done(s, i) \cup s[i]
    BY <1>1, <1>2, <2>1, StrataPlaced
  <2>3. s[i] \subseteq Done(s, n + 1)
    <3>1. i \in 1..((n + 1) - 1)
      BY <1>1, <2>1
    <3> QED
      BY <3>1 DEF Done
  <2>4. Over(i) \in SUBSET source.idb /\ Over(i) \cap s[i] = {} /\ Over(i + 1) = Over(i) \cup s[i]
    BY <1>4, <2>1, <2>2, <2>3 DEF Placed
  <2>5. strata[i] = StratumOf(source, s[i]) /\ seqs[i] = LowerStratum(strata[i]) /\ s[i] \in SUBSET source.idb
    BY <1>1, <1>2, <1>3, <2>1
  <2>6. T[i] = Spent(J, Over(i)) /\ T[i + 1] = Spent(J, Over(i) \cup s[i])
    BY <2>1, <2>4
  <2> HIDE DEF T, Over
  <2>7. IsSeq(LowerStratum(strata[i])) /\ Course(LowerStratum(strata[i]), Spent(J, Over(i)), Spent(J, Over(i) \cup s[i]), out)
    <3>1. CASE strata[i].recursive
      BY <2>2, <2>4, <2>5, <3>1, JustRecursive
    <3>2. CASE ~ strata[i].recursive
      BY <2>2, <2>4, <2>5, <3>2, JustFlat
    <3> QED
      BY <3>1, <3>2
  <2> QED
    BY <2>5, <2>6, <2>7
<1>6. Spent(J, source.idb) \subseteq T[1] /\ T[n + 1] \subseteq Spent(J, source.idb)
  <2>1. 1 \in 1..(n + 1) /\ n + 1 \in 1..(n + 1)
    BY <1>1
  <2>2. Over(1) \subseteq source.idb /\ source.idb \subseteq Over(n + 1)
    BY <1>4, <2>1
  <2>3. T[1] = Spent(J, Over(1)) /\ T[n + 1] = Spent(J, Over(n + 1))
    BY <2>1
  <2> HIDE DEF T, Over
  <2> QED
    BY <2>2, <2>3 DEF Spent
<1> HIDE DEF T
<1>7. Course(FlattenSeq(seqs), T[1], T[n + 1], out)
  BY <1>1, <1>5, CourseFlatten
<1>8. Course(FlattenSeq(seqs), Spent(J, source.idb), Spent(J, source.idb), out)
  BY <1>6, <1>7, CourseLess
<1> QED
  BY <1>8 DEF seqs

\* The inputs are merged into Total before their Deltas are purged.
LEMMA JustInputs ==
  ASSUME NEW source, Fits(source), NEW J, IsJust(source, J), NEW out
  PROVE  LET p == FlattenSeq(ForEach(source.edb, MergeInput))
         IN  IsSeq(p) /\ Course(p, Spent(J, source.idb), Spent(J, source.idb), out)
<1> DEFINE R == source.edb
           D == source.idb
           F == [r \in R |-> MergeInput(r)]
           q == ForEach(R, MergeInput)
           T == [S \in SUBSET R |-> Spent(J, D)]
<1>1. IsFiniteSet(R)
  <2>1. IsFiniteSet(source.edb \cup source.idb) /\ R \subseteq source.edb \cup source.idb
    BY DEF Fits, Proper
  <2> QED
    BY <2>1, FS_Subset
<1>2. q = [i \in DOMAIN SetToSeq(R) |-> F[SetToSeq(R)[i]]]
  <2>1. \A i \in DOMAIN SetToSeq(R) : SetToSeq(R)[i] \in R
    BY <1>1, SetToSeqIs DEF ToSet
  <2>2. q = [i \in DOMAIN SetToSeq(R) |-> MergeInput(SetToSeq(R)[i])]
    BY DEF ForEach
  <2> QED
    BY <2>1, <2>2
<1>3. ASSUME NEW S \in SUBSET R, NEW x \in R \ S
      PROVE  IsSeq(F[x]) /\ Course(F[x], T[S], T[S \cup {x}], out)
  <2> DEFINE m == Merge(Key(x, "Delta"), Key(x, "Total"))
             d == Purge(Key(x, "Delta"))
  <2>1. T[S] = Spent(J, D) /\ T[S \cup {x}] = Spent(J, D) /\ F[x] = <<m>> \o <<d>>
    BY DEF MergeInput
  <2>2. /\ D \subseteq Relations /\ D \cup {x} \subseteq Relations /\ x \in source.edb \cup source.idb
        /\ x \in D \cup {x}
    BY DEF Fits
  <2> HIDE DEF T, F
  <2>3. Goes(Spent(J, D), m, Spent(J, D \cup {x}), out)
    BY <2>2, JustMoves
  <2>4. Goes(Spent(J, D \cup {x}), d, Spent(J, (D \cup {x}) \cup {x}), out)
    BY <2>2, JustMoves
  <2> HIDE DEF m, d
  <2>5. Course(<<m>>, Spent(J, D), Spent(J, D \cup {x}), out)
    BY <2>3, CourseOne
  <2>6. Course(<<d>>, Spent(J, D \cup {x}), Spent(J, (D \cup {x}) \cup {x}), out)
    BY <2>4, CourseOne
  <2>7. IsSeq(<<m>>) /\ IsSeq(<<d>>) /\ IsSeq(<<m>> \o <<d>>)
    BY SeqOne, SeqConcat
  <2>8. Course(<<m>> \o <<d>>, Spent(J, D), Spent(J, (D \cup {x}) \cup {x}), out)
    BY <2>5, <2>6, <2>7, CourseConcat
  <2>9. Spent(J, (D \cup {x}) \cup {x}) \subseteq Spent(J, D)
    BY DEF Spent
  <2>10. Course(<<m>> \o <<d>>, Spent(J, D), Spent(J, D), out)
    BY <2>8, <2>9, CourseLess
  <2> QED
    BY <2>1, <2>7, <2>10
<1>4. T[{}] = Spent(J, D) /\ T[R] = Spent(J, D)
  OBVIOUS
<1>5. \A i \in DOMAIN SetToSeq(R) : SetToSeq(R)[i] \in R
  BY <1>1, SetToSeqIs DEF ToSet
<1> HIDE DEF F, T, q
<1>6. Course(FlattenSeq(q), T[{}], T[R], out)
  BY <1>1, <1>2, <1>3, CourseOfEach
<1>7. IsSeq(FlattenSeq(q))
  BY <1>1, MergeInputsParts DEF q
<1> QED
  BY <1>4, <1>6, <1>7 DEF q

\* A program keeps what has its reasons.
LEMMA JustCode ==
  ASSUME NEW source, Fits(source), Stratifiable(source), Readable(source), NEW J, IsJust(source, J),
         NEW strata \in StrataOrders(source), NEW out
  PROVE  Course(LowerToRam(source, strata), Spent(J, source.idb), Spent(J, source.idb), out)
<1> DEFINE sources == <<Sources(source.edb)>>
           body == FlattenSeq(LoweredStrata(strata))
           inputs == FlattenSeq(ForEach(source.edb, MergeInput))
           purges == ForEach(source.idb, LAMBDA r : Purge(Key(r, "Delta")))
           A == Spent(J, source.idb)
<1>1. LowerToRam(source, strata) = sources \o body \o inputs \o purges
  BY DEF LowerToRam, LoweredStrata
<1>2. /\ IsFiniteSet(source.idb) /\ source.idb \subseteq Relations
      /\ source.idb \in SUBSET (source.edb \cup source.idb)
  <2>1. IsFiniteSet(source.edb \cup source.idb) /\ source.idb \subseteq source.edb \cup source.idb
    BY DEF Fits, Proper
  <2> QED
    BY <2>1, FS_Subset DEF Fits
<1>3. Course(body, A, A, out)
  BY JustStrata
<1>4. IsSeq(body)
  <2>1. /\ IsSeq(LoweredStrata(strata)) /\ Len(LoweredStrata(strata)) = Len(strata)
        /\ \A i \in 1..Len(strata) : \E c : IsStratum(LoweredStrata(strata)[i], c)
    BY LoweredStrataParts DEF Fits
  <2> QED
    BY <2>1, FlattenRange DEF IsStratum
<1>5. IsSeq(sources) /\ Course(sources, A, A, out)
  <2>1. Goes(A, Sources(source.edb), A, out)
    BY JustSources
  <2> HIDE DEF A
  <2> QED
    BY <2>1, CourseOne, SeqOne
<1>6. IsSeq(inputs) /\ Course(inputs, A, A, out)
  BY JustInputs
<1>7. IsSeq(purges) /\ Course(purges, A, A, out)
  <2>1. PICK v : v = "Delta"
    OBVIOUS
  <2>2. IsSeq(PurgesOf(source.idb, v)) /\ Course(PurgesOf(source.idb, v), A, A, out)
    BY <1>2, <2>1, JustPurges
  <2>3. PurgesOf(source.idb, v) = purges
    BY <2>1 DEF PurgesOf
  <2> HIDE DEF purges
  <2> QED
    BY <2>2, <2>3
<1> HIDE DEF sources, body, inputs, purges, A
<1>8. ASSUME NEW p, NEW q, IsSeq(p), IsSeq(q), Course(p, A, A, out), Course(q, A, A, out)
      PROVE  IsSeq(p \o q) /\ Course(p \o q, A, A, out)
  BY <1>8, CourseConcat, SeqConcat
<1>9. IsSeq(sources \o body) /\ Course(sources \o body, A, A, out)
  BY <1>3, <1>4, <1>5, <1>8
<1>10. IsSeq(sources \o body \o inputs) /\ Course(sources \o body \o inputs, A, A, out)
  BY <1>6, <1>8, <1>9
<1>11. Course(sources \o body \o inputs \o purges, A, A, out)
  BY <1>7, <1>8, <1>10
<1> QED
  BY <1>1, <1>11 DEF A

\* Between the epochs of the programs in G the world is one of K.
JustBetween(K, G) ==
  [n \in DOMAIN Programs |-> IF n \in G THEN Spent(K[n], Ast[n].source.idb) ELSE {}]

\* The programs of G are readable, and what K says of each is kept by what has
\* its reasons and true of nothing at all.
IsReasoned(K, G) ==
  \A n \in DOMAIN Programs : n \in G =>
    /\ Readable(Ast[n].source) /\ IsJust(Ast[n].source, K[n])
    /\ \A W \in Worlds : (\A k \in Keys : W.rel[k] = {}) => W \in K[n]

JustAt(K, G) == program \in G => PlanInv(JustBetween(K, G), JustBetween(K, G))

\* Every program has this plan, ...
LEMMA JustPlan ==
  ASSUME NEW K, NEW G, IsReasoned(K, G)
  PROVE  IsPlan(JustBetween(K, G), JustBetween(K, G))
<1> DEFINE P == JustBetween(K, G)
<1>1. ASSUME NEW n \in DOMAIN Programs, n \in G
      PROVE  /\ Course(Programs[n], P[n], P[n], {})
             /\ \A W \in P[n], V \in Worlds : V.rel = W.rel => V \in P[n]
  <2> DEFINE s == Ast[n].source
             J == K[n]
  <2>1. /\ Fits(s) /\ Stratifiable(s) /\ Ast[n].strata \in StrataOrders(s)
        /\ Programs[n] = LowerToRam(s, Ast[n].strata)
    BY ProgramsFit, LoweredAssumption
  <2>2. P[n] = Spent(J, s.idb) /\ Readable(s) /\ IsJust(s, J)
    BY <1>1 DEF JustBetween, IsReasoned
  <2> HIDE DEF P, J
  <2>3. Course(Programs[n], Spent(J, s.idb), Spent(J, s.idb), {})
    BY <2>1, <2>2, JustCode
  <2>4. \A W \in Spent(J, s.idb), V \in Worlds : V.rel = W.rel => V \in Spent(J, s.idb)
    BY <2>2, JustStill
  <2> QED
    BY <2>2, <2>3, <2>4
<1>2. ASSUME NEW n \in DOMAIN Programs, n \notin G
      PROVE  P[n] = {} /\ Course(Programs[n], {}, {}, {})
  BY <1>2, CourseNowhere DEF JustBetween
<1> HIDE DEF P
<1>3. IsPlan(P, P)
  BY <1>1, <1>2 DEF IsPlan
<1> QED
  BY <1>3 DEF P

\* ... at the start nothing is held, ...
LEMMA InitJust ==
  ASSUME NEW K, NEW G, IsReasoned(K, G), Init
  PROVE  JustAt(K, G)
<1> SUFFICES ASSUME program \in G PROVE PlanInv(JustBetween(K, G), JustBetween(K, G))
  BY DEF JustAt
<1>1. IInv /\ pc.outer = 0 /\ timestamp = ClockStart /\ program \in DOMAIN Programs
  BY InitInv DEF Init
<1>2. Ast[program].source.idb \subseteq Relations
  BY <1>1, ProgramsFit DEF Fits
<1>3. World \in Worlds /\ \A k \in Keys : World.rel[k] = {}
  BY <1>1, WorldIs DEF World, Init
<1>4. World \in K[program]
  BY <1>1, <1>3 DEF IsReasoned
<1>5. \A q \in Ast[program].source.idb : World.rel[<<q, "Delta">>] = {}
  BY <1>2, <1>3 DEF Keys, Versions
<1>6. World \in JustBetween(K, G)[program]
  BY <1>1, <1>4, <1>5 DEF JustBetween, Spent
<1> QED
  BY <1>1, <1>6 DEF PlanInv

\* ... and each step keeps what is held.
LEMMA NextJust ==
  ASSUME NEW K, NEW G, IsReasoned(K, G), IInv, Bounded, JustAt(K, G), [Next]_vars
  PROVE  JustAt(K, G)'
<1>1. program' = program
  BY DEF Next, vars, Step, Push, Pop, StartEpoch, HandleSources, HandleInsert, HandleMerge, HandleSwap, HandlePurge,
    HandleExit, HandleSinks, Continue, store
<1> DEFINE P == JustBetween(K, G)
<1>2. ASSUME program \in G PROVE PlanInv(P, P)'
  <2>1. PlanInv(P, P) /\ IsPlan(P, P)
    BY <1>2, JustPlan DEF JustAt
  <2> HIDE DEF P
  <2> QED
    BY <2>1, NextPlan
<1> QED
  BY <1>1, <1>2 DEF JustAt

\* What it says between epochs.
LEMMA JustSaid ==
  ASSUME NEW K, NEW G, IInv, JustAt(K, G), phase = "idle", program \in G
  PROVE  World \in K[program]
<1>1. pc.outer = 0 /\ program \in DOMAIN Programs
  BY DEF IInv, Control, IdleOK, TypeOK
<1>2. World \in JustBetween(K, G)[program]
  BY <1>1 DEF JustAt, PlanInv
<1> QED
  BY <1>1, <1>2 DEF JustBetween, Spent

-----------------------------------------------------------------------------
(* Every fact is supported.                                                 *)

\* An instance of a rule, and the relations that it reads.
LEMMA InstanceParts ==
  ASSUME NEW source, Fits(source), NEW r \in ToSet(source.rules), NEW i \in Instances(r)
  PROVE  /\ \A p \in i.pos : p.rel \in source.edb \cup source.idb
         /\ i = [head |-> i.head, pos |-> i.pos, neg |-> i.neg, aggs |-> i.aggs]
         /\ r.neg = <<>> => i.neg = {}
         /\ r.aggs = <<>> => i.aggs = {}
<1>1. ProperRule(r, source.edb \cup source.idb, source.idb)
  BY DEF Fits, Proper
<1>2. PICK b \in Bindings(r) : i = Ground(r, b)
  BY DEF Instances
<1> DEFINE h == Resolve(r.head, b)
           pos == {Resolve(a, b) : a \in ToSet(r.pos)}
           neg == {Resolve(a, b) : a \in ToSet(r.neg)}
           aggs == {GroundAgg(r, a, BoundVars(r) \ {a.target}, b) : a \in ToSet(r.aggs)}
<1>3. i = [head |-> h, pos |-> pos, neg |-> neg, aggs |-> aggs]
  BY <1>2 DEF Ground
<1>4. \A p \in pos : p.rel \in source.edb \cup source.idb
  <2>1. \A a \in ToSet(r.pos) : Resolve(a, b).rel = a.rel /\ a.rel \in source.edb \cup source.idb
    BY <1>1, ResolvedRel DEF ProperRule, IsAtom
  <2> QED
    BY <2>1
<1>5. (r.neg = <<>> => neg = {}) /\ (r.aggs = <<>> => aggs = {})
  <2>1. ToSet(<<>>) = {}
    BY DEF ToSet
  <2> QED
    BY <2>1
<1> HIDE DEF h, pos, neg, aggs
<1>6. i.head = h /\ i.pos = pos /\ i.neg = neg /\ i.aggs = aggs
  BY <1>3
<1> QED
  BY <1>3, <1>4, <1>5, <1>6

\* The worlds whose outputs hold nothing that is not earned.
Backed(source) ==
  {W \in Worlds : \A q \in source.idb, v \in Versions : \A f \in W.rel[<<q, v>>] : Earned(source, W, f)}

\* What was earned stays so when more is known.
LEMMA BackedIsJust ==
  ASSUME NEW source, Fits(source)
  PROVE  IsJust(source, Backed(source))
<1>1. Backed(source) \subseteq Worlds
  BY DEF Backed
<1>2. ASSUME NEW W \in Backed(source), NEW V \in Worlds, Yields(source, W, V) PROVE V \in Backed(source)
  <2>1. ASSUME NEW p, p.rel \in source.edb \cup source.idb, Seen(W, p) PROVE Seen(V, p)
    <3>1. Knows(W, p.rel) \subseteq Knows(V, p.rel)
      BY <1>2, <2>1 DEF Yields
    <3> QED
      BY <2>1, <3>1, SeenIs
  <2>2. ASSUME NEW f, Earned(source, W, f) PROVE Earned(source, V, f)
    <3>1. CASE f \in source.facts
      BY <3>1 DEF Earned
    <3>2. CASE f \notin source.facts
      <4>1. PICK r \in ToSet(source.rules) : \E i \in Instances(r) : f = i.head /\ \A p \in i.pos : Seen(W, p)
        BY <2>2, <3>2 DEF Earned
      <4>2. PICK i \in Instances(r) : f = i.head /\ \A p \in i.pos : Seen(W, p)
        BY <4>1
      <4>3. \A p \in i.pos : p.rel \in source.edb \cup source.idb
        BY InstanceParts
      <4>4. \A p \in i.pos : Seen(V, p)
        BY <2>1, <4>2, <4>3
      <4> QED
        BY <4>2, <4>4 DEF Earned
    <3> QED
      BY <3>1, <3>2
  <2>3. ASSUME NEW q \in source.idb, NEW v \in Versions, NEW f \in V.rel[<<q, v>>] PROVE Earned(source, W, f)
    BY <1>2, <2>3 DEF Yields, Backed
  <2> QED
    BY <2>2, <2>3 DEF Backed
<1> QED
  BY <1>1, <1>2 DEF IsJust

BackedIn == [n \in DOMAIN Programs |-> Backed(Ast[n].source)]
EachBacked == JustAt(BackedIn, DOMAIN Programs)

\* The rules of the programs are evaluated as they are written.
AllReadAsWritten == \A n \in DOMAIN Ast : \A r \in ToSet(Ast[n].source.rules) : ReadsAsWritten(r)

\* (they have their reasons)
LEMMA BackedReasoned ==
  ASSUME AllReadAsWritten
  PROVE  IsReasoned(BackedIn, DOMAIN Programs)
<1> SUFFICES ASSUME NEW n \in DOMAIN Programs
             PROVE  /\ Readable(Ast[n].source) /\ IsJust(Ast[n].source, BackedIn[n])
                    /\ \A W \in Worlds : (\A k \in Keys : W.rel[k] = {}) => W \in BackedIn[n]
  BY DEF IsReasoned
<1> DEFINE s == Ast[n].source
<1>1. n \in DOMAIN Ast /\ Fits(s) /\ BackedIn[n] = Backed(s)
  BY ProgramsFit DEF BackedIn
<1>2. Readable(s)
  BY <1>1, LoweredAssumption DEF Readable, AllReadAsWritten
<1>3. IsJust(s, Backed(s))
  BY <1>1, BackedIsJust
<1>4. ASSUME NEW W \in Worlds, \A k \in Keys : W.rel[k] = {} PROVE W \in Backed(s)
  BY <1>1, <1>4 DEF Backed, Fits, Keys
<1> QED
  BY <1>1, <1>2, <1>3, <1>4

\* It always holds.
LEMMA EachBackedHolds ==
  ASSUME AllReadAsWritten
  PROVE  Spec => [](IInv /\ EachBacked)
<1>1. Init => IInv /\ Bounded /\ EachBacked
  BY InitInv, InitJust, BackedReasoned DEF Init, Bounded, EachBacked
<1>2. IInv /\ Bounded /\ EachBacked /\ [Next]_vars => (IInv /\ Bounded /\ EachBacked)'
  <2> SUFFICES ASSUME IInv, Bounded, EachBacked, [Next]_vars PROVE (IInv /\ Bounded /\ EachBacked)'
    OBVIOUS
  <2> DEFINE K == BackedIn
             G == DOMAIN Programs
  <2>1. IsReasoned(K, G) /\ JustAt(K, G)
    BY BackedReasoned DEF EachBacked
  <2> HIDE DEF K, G
  <2>2. JustAt(K, G)'
    BY <2>1, NextJust
  <2>3. EachBacked'
    BY <2>2 DEF EachBacked, K, G
  <2> QED
    BY <2>3, NextInv, NextBounded
<1> QED
  BY <1>1, <1>2, PTL DEF Spec

\* Each fact that is held between epochs is a ground fact, or an instance of a
\* rule has it as its head and still finds its positive body.
THEOREM EveryFactHasSupport ==
  ASSUME AllReadAsWritten
  PROVE  Spec => []SupportedByRules
<1>1. IInv /\ LabelInv /\ EachBacked => SupportedByRules
  <2> SUFFICES ASSUME IInv, LabelInv, EachBacked PROVE SupportedByRules
    OBVIOUS
  <2> DEFINE R == Source.edb \cup Source.idb
             known == TotalOf(R)
             Bare(i) == [i EXCEPT !.aggs = {}]
  <2>1. ASSUME AtFixpoint, NEW f \in TotalOf(Source.idb), f \notin Source.facts
        PROVE  \E r \in ToSet(Source.rules) :
                 f \in Consequences({Bare(i) : i \in Instances(r)}, known, {}, {})
    <3>1. phase = "idle" /\ program \in DOMAIN Programs
      BY <2>1 DEF AtFixpoint, IInv, TypeOK
    <3>2. Fits(Source) /\ R \subseteq Relations
      BY <3>1, ProgramsFit DEF Source, Fits
    <3>3. World \in Backed(Source)
      <4>1. World \in BackedIn[program]
        BY <3>1, JustSaid DEF EachBacked
      <4> QED
        BY <3>1, <4>1 DEF BackedIn, Source
    <3>4. PICK q \in Source.idb : f \in World.rel[<<q, "Total">>]
      BY <2>1 DEF TotalOf, World
    <3>5. Earned(Source, World, f)
      BY <3>3, <3>4 DEF Backed, Versions
    <3>6. PICK r \in ToSet(Source.rules) : \E i \in Instances(r) : f = i.head /\ \A p \in i.pos : Seen(World, p)
      BY <2>1, <3>5 DEF Earned
    <3>7. PICK i \in Instances(r) : f = i.head /\ \A p \in i.pos : Seen(World, p)
      BY <3>6
    <3>8. /\ \A p \in i.pos : p.rel \in R
          /\ i = [head |-> i.head, pos |-> i.pos, neg |-> i.neg, aggs |-> i.aggs]
      BY <3>2, InstanceParts
    <3>9. ASSUME NEW p \in i.pos PROVE Found(p, known)
      <4>1. p.rel \in Source.edb \cup Source.idb /\ Seen(World, p)
        BY <3>7, <3>8
      <4>2. Found(p, TotalOf(Source.edb \cup Source.idb)) <=> Seen(World, p)
        BY <3>1, <3>2, <4>1, FoundIsSeen
      <4> QED
        BY <4>1, <4>2
    <3> DEFINE j == Bare(i)
    <3>10. j.head = f /\ j.pos = i.pos /\ j.neg = i.neg /\ j.aggs = {}
      BY <3>7, <3>8
    <3>11. j \in {Bare(k) : k \in Instances(r)}
      OBVIOUS
    <3>12. \A p : ~ Found(p, {})
      BY DEF Found
    <3> HIDE DEF j, Bare, known
    <3>13. f \in Consequences({Bare(k) : k \in Instances(r)}, known, {}, {})
      BY <3>9, <3>10, <3>11, <3>12 DEF Consequences
    <3> QED
      BY <3>13
  <2> QED
    BY <2>1 DEF SupportedByRules
<1> QED
  BY Invariance, LabelsHold, EachBackedHolds, <1>1, PTL

-----------------------------------------------------------------------------
(* Every fact is of the model.                                              *)

\* The worlds whose outputs hold nothing but what is in every closed set of
\* facts that has the ground facts and the inputs.
Sound(source) ==
  {W \in Worlds :
     \A K \in SUBSET Facts :
       /\ source.facts \subseteq K /\ IsClosed(Plain(source), K)
       /\ \A q \in source.edb : Knows(W, q) \subseteq K
       => \A q \in source.idb, v \in Versions : W.rel[<<q, v>>] \subseteq K}

\* What is earned is in all of them.
LEMMA SoundIsJust ==
  ASSUME NEW source, Fits(source), Monotone(source)
  PROVE  IsJust(source, Sound(source))
<1>1. Sound(source) \subseteq Worlds
  BY DEF Sound
<1>2. ASSUME NEW W \in Sound(source), NEW V \in Worlds, Yields(source, W, V),
             NEW K \in SUBSET Facts, source.facts \subseteq K, IsClosed(Plain(source), K),
             \A q \in source.edb : Knows(V, q) \subseteq K
      PROVE  \A q \in source.idb, v \in Versions : V.rel[<<q, v>>] \subseteq K
  <2>1. \A q \in source.edb : Knows(W, q) \subseteq K
    BY <1>2 DEF Yields
  <2>2. \A q \in source.idb, v \in Versions : W.rel[<<q, v>>] \subseteq K
    BY <1>2, <2>1 DEF Sound
  <2>3. \A q \in source.edb \cup source.idb : Knows(W, q) \subseteq K
    BY <2>1, <2>2 DEF Knows, Versions
  <2>4. ASSUME NEW f, Earned(source, W, f) PROVE f \in K
    <3>1. CASE f \in source.facts
      BY <1>2, <3>1
    <3>2. CASE f \notin source.facts
      <4>1. PICK r \in ToSet(source.rules) : \E i \in Instances(r) : f = i.head /\ \A p \in i.pos : Seen(W, p)
        BY <2>4, <3>2 DEF Earned
      <4>2. PICK i \in Instances(r) : f = i.head /\ \A p \in i.pos : Seen(W, p)
        BY <4>1
      <4>3. i \in Plain(source)
        BY DEF Plain, Monotone
      <4>4. \A p \in i.pos : p.rel \in source.edb \cup source.idb
        BY InstanceParts
      <4>5. BodyIn(i, K)
        <5>1. ASSUME NEW p \in i.pos PROVE Found(p, K)
          <6>1. PICK g \in Knows(W, p.rel) : Matches(g, p)
            BY <4>2, SeenIs
          <6> QED
            BY <2>3, <4>4, <6>1 DEF Found
        <5> QED
          BY <5>1 DEF BodyIn
      <4> QED
        BY <1>2, <4>2, <4>3, <4>5 DEF IsClosed
    <3> QED
      BY <3>1, <3>2
  <2>5. ASSUME NEW q \in source.idb, NEW v \in Versions, NEW f \in V.rel[<<q, v>>] PROVE f \in K
    <3>1. (\E u \in Versions : f \in W.rel[<<q, u>>]) \/ Earned(source, W, f)
      BY <1>2 DEF Yields
    <3> QED
      BY <2>2, <2>4, <3>1
  <2> QED
    BY <2>5
<1>3. ASSUME NEW W \in Sound(source), NEW V \in Worlds, Yields(source, W, V) PROVE V \in Sound(source)
  BY <1>2, <1>3 DEF Sound
<1> QED
  BY <1>1, <1>3 DEF IsJust

SoundIn == [n \in DOMAIN Programs |-> Sound(Ast[n].source)]
MonotoneOnes == {n \in DOMAIN Programs : Monotone(Ast[n].source)}
EachSound == JustAt(SoundIn, MonotoneOnes)

\* No rule has a variable in two columns of an atom that it searches.
AllReadOnce == \A n \in DOMAIN Ast : \A r \in ToSet(Ast[n].source.rules) : ReadsOnce(r)

\* (they have their reasons)
LEMMA SoundReasoned ==
  ASSUME AllReadOnce
  PROVE  IsReasoned(SoundIn, MonotoneOnes)
<1> SUFFICES ASSUME NEW n \in DOMAIN Programs, n \in MonotoneOnes
             PROVE  /\ Readable(Ast[n].source) /\ IsJust(Ast[n].source, SoundIn[n])
                    /\ \A W \in Worlds : (\A k \in Keys : W.rel[k] = {}) => W \in SoundIn[n]
  BY DEF IsReasoned
<1> DEFINE s == Ast[n].source
<1>1. n \in DOMAIN Ast /\ Fits(s) /\ SoundIn[n] = Sound(s) /\ Monotone(s)
  BY ProgramsFit DEF SoundIn, MonotoneOnes
<1>2. Readable(s)
  BY <1>1, LoweredAssumption DEF Readable, AllReadOnce, ReadsAsWritten, Monotone
<1>3. IsJust(s, Sound(s))
  BY <1>1, SoundIsJust
<1>4. ASSUME NEW W \in Worlds, \A k \in Keys : W.rel[k] = {} PROVE W \in Sound(s)
  <2>1. \A q \in s.idb, v \in Versions : W.rel[<<q, v>>] = {}
    BY <1>1, <1>4 DEF Fits, Keys
  <2> QED
    BY <2>1 DEF Sound
<1> QED
  BY <1>1, <1>2, <1>3, <1>4

\* It always holds.
LEMMA EachSoundHolds ==
  ASSUME AllReadOnce
  PROVE  Spec => [](IInv /\ EachSound)
<1>1. Init => IInv /\ Bounded /\ EachSound
  BY InitInv, InitJust, SoundReasoned DEF Init, Bounded, EachSound
<1>2. IInv /\ Bounded /\ EachSound /\ [Next]_vars => (IInv /\ Bounded /\ EachSound)'
  <2> SUFFICES ASSUME IInv, Bounded, EachSound, [Next]_vars PROVE (IInv /\ Bounded /\ EachSound)'
    OBVIOUS
  <2> DEFINE K == SoundIn
             G == MonotoneOnes
  <2>1. IsReasoned(K, G) /\ JustAt(K, G)
    BY SoundReasoned DEF EachSound
  <2> HIDE DEF K, G
  <2>2. JustAt(K, G)'
    BY <2>1, NextJust
  <2>3. EachSound'
    BY <2>2 DEF EachSound, K, G
  <2> QED
    BY <2>3, NextInv, NextBounded
<1> QED
  BY <1>1, <1>2, PTL DEF Spec

\* Between epochs the machine holds no more than the model ...
LEMMA NoMoreThanModel ==
  ASSUME IInv, LabelInv, EachSound, AtFixpoint, Monotone(Source),
         NEW M, IsModel(Source, TotalOf(Source.edb), M)
  PROVE  TotalOf(Source.edb \cup Source.idb) \subseteq M
<1>1. phase = "idle" /\ program \in DOMAIN Programs
  BY DEF AtFixpoint, IInv, TypeOK
<1>2. Fits(Source) /\ Source.edb \subseteq Relations /\ Source.idb \subseteq Relations
  BY <1>1, ProgramsFit DEF Source, Fits
<1>3. World \in Sound(Source)
  <2>1. World \in SoundIn[program]
    BY <1>1, JustSaid DEF EachSound, MonotoneOnes, Source
  <2> QED
    BY <1>1, <2>1 DEF SoundIn, Source
<1>4. TotalOf(Source.edb) \subseteq Facts
  <2>1. rel \in [Keys -> SUBSET Facts]
    BY DEF IInv, TypeOK
  <2>2. \A q \in Source.edb : <<q, "Total">> \in Keys
    BY <1>2 DEF Keys, Versions
  <2> QED
    BY <2>1, <2>2 DEF TotalOf
<1>5. M \in SUBSET Facts /\ Source.facts \subseteq M /\ IsClosed(Plain(Source), M) /\ TotalOf(Source.edb) \subseteq M
  <2>1. Source.facts \subseteq Facts
    BY <1>2 DEF Fits, Writable
  <2> QED
    BY <1>4, <2>1 DEF IsModel
<1>6. ASSUME NEW q \in Source.edb PROVE Knows(World, q) \subseteq M
  <2>1. rel[<<q, "Delta">>] = {}
    BY <1>1, <1>2, LabelsAtRest
  <2>2. rel[<<q, "Total">>] \subseteq TotalOf(Source.edb)
    BY DEF TotalOf
  <2> QED
    BY <1>5, <2>1, <2>2 DEF Knows, World
<1>7. \A q \in Source.idb, v \in Versions : World.rel[<<q, v>>] \subseteq M
  BY <1>3, <1>5, <1>6 DEF Sound
<1>8. \A q \in Source.idb : rel[<<q, "Total">>] \subseteq M
  BY <1>7 DEF World, Versions
<1> QED
  BY <1>5, <1>8 DEF TotalOf

\* ... and no less, if it was given the ground facts.
LEMMA NoLessThanModel ==
  ASSUME IInv, ClosedUnderRules, GroundFactsKnown, AtFixpoint, Monotone(Source),
         NEW M, IsModel(Source, TotalOf(Source.edb), M)
  PROVE  M \subseteq TotalOf(Source.edb \cup Source.idb)
<1> DEFINE known == TotalOf(Source.edb \cup Source.idb)
<1>1. Fits(Source)
  BY ProgramsFit DEF IInv, TypeOK, Source
<1>2. TotalOf(Source.edb) \cup Source.facts \subseteq known
  BY DEF GroundFactsKnown, TotalOf
<1>3. ASSUME NEW i \in Plain(Source), BodyIn(i, known) PROVE i.head \in known
  <2>1. PICK r \in ToSet(Source.rules) : r.aggs = <<>> /\ i \in Instances(r)
    BY DEF Plain
  <2>2. r.neg = <<>>
    BY DEF Monotone
  <2>3. Positive(Instances(r))
    BY <1>1, <2>1, <2>2, InstanceParts DEF Positive
  <2>4. i.head \in Consequences(Instances(r), known, known, {})
    <3> HIDE DEF known
    <3> QED
      BY <1>3, <2>1, <2>3, PositiveConsequences
  <2>5. Consequences(Instances(r), known, known, {}) \subseteq known
    BY <2>1 DEF ClosedUnderRules
  <2> QED
    BY <2>4, <2>5
<1>4. IsClosed(Plain(Source), known)
  BY <1>3 DEF IsClosed
<1> QED
  BY <1>2, <1>4 DEF IsModel

\* After every epoch the Total relations hold exactly the model of the program
\* over the inputs so far, unless a ground fact was not inserted.
THEOREM FixpointIsTheModel ==
  ASSUME IsFiniteSet(Facts), AllReadOnce
  PROVE  Spec => [](GroundFactsKnown => FixpointIsModel)
<1>1. IInv /\ LabelInv /\ EachSound /\ ClosedUnderRules => (GroundFactsKnown => FixpointIsModel)
  <2> SUFFICES ASSUME IInv, LabelInv, EachSound, ClosedUnderRules, GroundFactsKnown,
                      AtFixpoint, Monotone(Source)
               PROVE  TotalOf(Source.edb \cup Source.idb)
                        = PerfectModel(Ast[program].strata, TotalOf(Source.edb))
    BY DEF FixpointIsModel
  <2> DEFINE M == PerfectModel(Ast[program].strata, TotalOf(Source.edb))
  <2>1. Fits(Source) /\ Ast[program].strata \in StrataOrders(Source)
    BY ProgramsFit DEF IInv, TypeOK, Source
  <2>2. IsModel(Source, TotalOf(Source.edb), M)
    BY <2>1, PerfectModelIs
  <2> HIDE DEF M
  <2>3. TotalOf(Source.edb \cup Source.idb) \subseteq M /\ M \subseteq TotalOf(Source.edb \cup Source.idb)
    BY <2>2, NoMoreThanModel, NoLessThanModel
  <2>4. TotalOf(Source.edb \cup Source.idb) = M
    BY <2>3
  <2> QED
    BY <2>4 DEF M
<1> QED
  BY Invariance, LabelsHold, EachSoundHolds, NothingIsMissed, <1>1, PTL

\* A program that writes no ground facts has none to insert, so its fixpoints
\* are its models whatever its inputs and however they are split into epochs.
THEOREM WithoutGroundFacts ==
  ASSUME IsFiniteSet(Facts), AllReadOnce, \A n \in DOMAIN Ast : Ast[n].source.facts = {}
  PROVE  Spec => []FixpointIsModel
<1>1. TypeOK => GroundFactsKnown
  BY LoweredAssumption DEF TypeOK, GroundFactsKnown, Source
<1>2. Spec => []TypeOK
  BY Invariance, PTL DEF IInv
<1> QED
  BY FixpointIsTheModel, <1>1, <1>2, PTL

=============================================================================
