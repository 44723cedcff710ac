-------------------------- MODULE Selecting_proofs --------------------------
(***************************************************************************)
(* Facts about Keep and about sequences, for the proofs of the reactor and *)
(* of the lowering.  The library's induction takes an operator, which the   *)
(* provers cannot instantiate; here induction is stated about a set         *)
(* (NatSet, SeqSet), and with it what the recursive function Keep computes  *)
(* is proved.                                                               *)
(***************************************************************************)
EXTENDS Selecting, SequencesExt, SequenceTheorems, FiniteSetTheorems, WellFoundedInduction, TLAPS

\* Induction over the numbers, stated about a set, which the provers can
\* instantiate where they cannot instantiate an operator: it follows from the
\* well-foundedness of inclusion between the finite sets 0..n.
LEMMA NatSet ==
  ASSUME NEW T, 0 \in T, \A n \in Nat : n \in T => n + 1 \in T
  PROVE  Nat \subseteq T
<1> SUFFICES ASSUME NEW k \in Nat, k \notin T PROVE FALSE
  OBVIOUS
<1> DEFINE U == {n \in 0..k : n \notin T}
           V == {0..n : n \in U}
<1>0. IsFiniteSet(0..k) /\ \A n \in 0..k : IsFiniteSet(0..n)
  BY FS_Interval
<1>1. IsWellFoundedOn(StrictSubsetOrdering(0..k), FiniteSubsetsOf(0..k))
  BY <1>0, FS_StrictSubsetOrderingWellFounded
<1>2. V \subseteq FiniteSubsetsOf(0..k) /\ V # {}
  <2>1. ASSUME NEW n \in U PROVE 0..n \in FiniteSubsetsOf(0..k)
    BY <1>0 DEF FiniteSubsetsOf
  <2> QED
    BY <2>1
<1>3. PICK X \in V : \A Y \in V : <<Y, X>> \notin StrictSubsetOrdering(0..k)
  BY <1>1, <1>2, WFMin
<1>4. PICK m \in U : X = 0..m
  OBVIOUS
<1>5. m # 0 /\ m - 1 \in 0..k
  OBVIOUS
<1>6. m - 1 \in U
  BY <1>4, <1>5
<1>7. 0..(m-1) \in V /\ 0..(m-1) \subseteq X /\ 0..(m-1) # X
  BY <1>4, <1>5, <1>6
<1>8. <<0..(m-1), X>> \in StrictSubsetOrdering(0..k)
  BY <1>2, <1>7 DEF StrictSubsetOrdering, FiniteSubsetsOf
<1> QED
  BY <1>3, <1>7, <1>8

\* Induction over sequences built with Append, stated about a set.
LEMMA SeqSet ==
  ASSUME NEW S, NEW T, <<>> \in T,
         \A q \in Seq(S), x \in S : q \in T => Append(q, x) \in T
  PROVE  Seq(S) \subseteq T
<1> DEFINE N == {n \in Nat : \A q \in Seq(S) : Len(q) = n => q \in T}
<1>1. 0 \in N
  OBVIOUS
<1>2. ASSUME NEW n \in Nat, n \in N PROVE n + 1 \in N
  <2> SUFFICES ASSUME NEW q \in Seq(S), Len(q) = n + 1 PROVE q \in T
    OBVIOUS
  <2>1. q # <<>>
    OBVIOUS
  <2>2. PICK p \in Seq(S), x \in S : q = Append(p, x)
    BY <2>1, SequenceEmptyOrAppend
  <2>3. Len(p) = n
    BY <2>2
  <2> QED
    BY <1>2, <2>2, <2>3
<1>3. Nat \subseteq N
  <2> HIDE DEF N
  <2> QED
  BY <1>1, <1>2, NatSet
<1> QED
  BY <1>3

\* g computes what is kept of the first n elements of q, and of fewer.
Keeps(g, q, W, n) ==
  g = [i \in 0..n |->
         IF i = 0 THEN <<>>
         ELSE IF q[i] \in W THEN Append(g[i - 1], q[i]) ELSE g[i - 1]]

\* There is a function that computes Keep: the recursion has a solution.
LEMMA KeepsExists ==
  ASSUME NEW q, NEW W, NEW n \in Nat
  PROVE  \E g : Keeps(g, q, W, n)
<1> DEFINE N == {k \in Nat : \E g : Keeps(g, q, W, k)}
<1>1. 0 \in N
  <2>1. Keeps([i \in 0..0 |-> <<>>], q, W, 0)
    BY DEF Keeps
  <2> QED
    BY <2>1
<1>2. ASSUME NEW k \in Nat, k \in N PROVE k + 1 \in N
  <2>1. PICK g : Keeps(g, q, W, k)
    BY <1>2
  <2> DEFINE h == [i \in 0..(k + 1) |->
                     IF i <= k THEN g[i]
                     ELSE IF q[i] \in W THEN Append(g[i - 1], q[i]) ELSE g[i - 1]]
  <2>2. ASSUME NEW i \in 0..(k + 1)
        PROVE h[i] = IF i = 0 THEN <<>>
         ELSE IF q[i] \in W THEN Append(h[i - 1], q[i]) ELSE h[i - 1]
    <3>1. CASE i = 0
      BY <2>1, <3>1 DEF Keeps
    <3>2. CASE i # 0
      <4>1. i - 1 \in 0..k /\ h[i - 1] = g[i - 1]
        BY <3>2
      <4>2. CASE i <= k
        <5>1. h[i] = g[i] /\ i \in 0..k
          BY <4>2
        <5> QED
        BY <2>1, <3>2, <4>1, <5>1 DEF Keeps
      <4>3. CASE ~ (i <= k)
        BY <3>2, <4>1, <4>3
      <4> QED BY <4>2, <4>3
    <3> QED
      BY <3>1, <3>2
  <2>3. Keeps(h, q, W, k + 1)
    BY <2>2 DEF Keeps
  <2> QED
    BY <2>3
<1>3. Nat \subseteq N
  <2> HIDE DEF N
  <2> QED
    BY <1>1, <1>2, NatSet
<1> QED
  BY <1>3

\* Two such functions agree as far as their sequences do.
LEMMA KeepsAgree ==
  ASSUME NEW q, NEW p, NEW W, NEW n \in Nat, NEW m \in Nat, NEW g, NEW h,
         Keeps(g, q, W, n), Keeps(h, p, W, m), n <= m,
         \A i \in 1..n : q[i] = p[i]
  PROVE  g[n] = h[n]
<1> DEFINE N == {k \in Nat : k <= n => g[k] = h[k]}
<1>1. 0 \in N
  BY DEF Keeps
<1>2. ASSUME NEW k \in Nat, k \in N PROVE k + 1 \in N
  <2> SUFFICES ASSUME k + 1 <= n PROVE g[k + 1] = h[k + 1]
    OBVIOUS
  <2>1. /\ k + 1 \in 0..n /\ k + 1 \in 0..m /\ k + 1 # 0 /\ (k + 1) - 1 = k
        /\ g[k] = h[k] /\ q[k + 1] = p[k + 1]
    BY <1>2
  <2>2. g[k + 1] = IF q[k + 1] \in W THEN Append(g[k], q[k + 1]) ELSE g[k]
    BY <2>1 DEF Keeps
  <2>3. h[k + 1] = IF p[k + 1] \in W THEN Append(h[k], p[k + 1]) ELSE h[k]
    BY <2>1 DEF Keeps
  <2> QED
    BY <2>1, <2>2, <2>3
<1>3. Nat \subseteq N
  <2> HIDE DEF N
  <2> QED
    BY <1>1, <1>2, NatSet
<1> QED
  BY <1>3

\* Keep is the last value of the function it is defined with.
LEMMA KeepIs ==
  ASSUME NEW q, NEW W, Len(q) \in Nat
  PROVE  \E g : Keeps(g, q, W, Len(q)) /\ Keep(q, W) = g[Len(q)]
<1> DEFINE g == CHOOSE g : Keeps(g, q, W, Len(q))
<1>1. Keeps(g, q, W, Len(q))
  BY KeepsExists
<1>2. Keep(q, W) = g[Len(q)]
  BY DEF Keep, Keeps
<1> QED
  BY <1>1, <1>2

\* Nothing is kept of nothing.
LEMMA KeepEmpty == ASSUME NEW W PROVE Keep(<<>>, W) = <<>>
<1>1. Len(<<>>) = 0
  OBVIOUS
<1> QED
BY <1>1, KeepIs DEF Keeps

\* What is appended is kept if it is in W: what TargetsOf and the logs of the
\* sinks do with one more element.
LEMMA KeepAppend ==
  ASSUME NEW S, NEW q \in Seq(S), NEW x \in S, NEW W
  PROVE  Keep(Append(q, x), W) = IF x \in W THEN Append(Keep(q, W), x) ELSE Keep(q, W)
<1> DEFINE p == Append(q, x)
           n == Len(q)
<1>1. /\ n \in Nat /\ Len(p) = n + 1 /\ p[n + 1] = x
      /\ \A i \in 1..n : p[i] = q[i]
  OBVIOUS
<1> HIDE DEF p
<1>2. PICK g : Keeps(g, q, W, n) /\ Keep(q, W) = g[n]
  BY <1>1, KeepIs
<1>3. PICK h : Keeps(h, p, W, n + 1) /\ Keep(p, W) = h[n + 1]
  BY <1>1, KeepIs
<1>4. g[n] = h[n]
  BY <1>1, <1>2, <1>3, KeepsAgree
<1>5. h[n + 1] = IF p[n + 1] \in W THEN Append(h[n], p[n + 1]) ELSE h[n]
  <2>1. n + 1 \in 0..(n + 1) /\ n + 1 # 0 /\ (n + 1) - 1 = n
    BY <1>1
  <2> QED
    BY <1>3, <2>1 DEF Keeps
<1> QED
  BY <1>1, <1>2, <1>3, <1>4, <1>5 DEF p

\* What is kept is in W.
LEMMA KeepType ==
  ASSUME NEW S, NEW q \in Seq(S), NEW W
  PROVE  Keep(q, W) \in Seq(S \cap W)
<1> DEFINE T == {p \in Seq(S) : Keep(p, W) \in Seq(S \cap W)}
<1>1. <<>> \in T
  <2>1. <<>> \in Seq(S) /\ <<>> \in Seq(S \cap W)
    OBVIOUS
  <2> QED
    BY <2>1, KeepEmpty
<1>2. ASSUME NEW p \in Seq(S), NEW x \in S, p \in T PROVE Append(p, x) \in T
  <2>1. Keep(Append(p, x), W) = IF x \in W THEN Append(Keep(p, W), x) ELSE Keep(p, W)
    BY KeepAppend
  <2> QED
    BY SMTT(40), <1>2, <2>1
<1>3. Seq(S) \subseteq T
  <2> HIDE DEF T
  <2> QED
    BY <1>1, <1>2, SeqSet
<1> QED
  BY <1>3

\* Only the members of W that can occur in the sequence matter.
LEMMA KeepSame ==
  ASSUME NEW S, NEW V, NEW W, S \cap V = S \cap W, NEW q \in Seq(S)
  PROVE  Keep(q, V) = Keep(q, W)
<1> DEFINE T == {p \in Seq(S) : Keep(p, V) = Keep(p, W)}
<1>1. <<>> \in T
  BY KeepEmpty
<1>2. ASSUME NEW p \in Seq(S), NEW x \in S, p \in T PROVE Append(p, x) \in T
  <2>1. /\ Keep(Append(p, x), V) = IF x \in V THEN Append(Keep(p, V), x) ELSE Keep(p, V)
        /\ Keep(Append(p, x), W) = IF x \in W THEN Append(Keep(p, W), x) ELSE Keep(p, W)
    BY KeepAppend
  <2>2. x \in V <=> x \in W
    OBVIOUS
  <2>3. Append(p, x) \in Seq(S)
    OBVIOUS
  <2> QED
    BY <1>2, <2>1, <2>2, <2>3
<1>3. Seq(S) \subseteq T
  <2> HIDE DEF T
  <2> QED
    BY <1>1, <1>2, SeqSet
<1> QED
  BY <1>3

\* An element appended is an element of the sequence.
LEMMA ToSetAppend ==
  ASSUME NEW S, NEW q \in Seq(S), NEW x
  PROVE  ToSet(Append(q, x)) = ToSet(q) \cup {x}
<1>1. /\ Len(q) \in Nat /\ DOMAIN q = 1..Len(q)
      /\ DOMAIN Append(q, x) = 1..(Len(q) + 1)
      /\ \A i \in 1..Len(q) : Append(q, x)[i] = q[i]
      /\ Append(q, x)[Len(q) + 1] = x
  OBVIOUS
<1> QED
  BY <1>1 DEF ToSet

\* The empty sequence has no elements.
LEMMA ToSetEmpty == ToSet(<<>>) = {}
BY DEF ToSet

\* All that is in W is kept.
LEMMA KeepRange ==
  ASSUME NEW S, NEW q \in Seq(S), NEW W
  PROVE  ToSet(Keep(q, W)) = ToSet(q) \cap W
<1> DEFINE T == {p \in Seq(S) : ToSet(Keep(p, W)) = ToSet(p) \cap W}
<1>1. <<>> \in T
  BY KeepEmpty, ToSetEmpty
<1>2. ASSUME NEW p \in Seq(S), NEW x \in S, p \in T PROVE Append(p, x) \in T
  <2>1. Keep(Append(p, x), W) = IF x \in W THEN Append(Keep(p, W), x) ELSE Keep(p, W)
    BY KeepAppend
  <2>2. Keep(p, W) \in Seq(S \cap W)
    BY KeepType
  <2>3. /\ ToSet(Append(p, x)) = ToSet(p) \cup {x}
        /\ ToSet(Append(Keep(p, W), x)) = ToSet(Keep(p, W)) \cup {x}
    BY <2>2, ToSetAppend
  <2>4. Append(p, x) \in Seq(S)
    OBVIOUS
  <2> QED
    BY <1>2, <2>1, <2>3, <2>4
<1>3. Seq(S) \subseteq T
  <2> HIDE DEF T
  <2> QED
    BY <1>1, <1>2, SeqSet
<1> QED
  BY <1>3

\* No element occurs twice.
NoRepeats(q) == \A i, j \in 1..Len(q) : q[i] = q[j] => i = j

\* A sequence stays free of repetitions when something new is appended.
LEMMA NoRepeatsAppend ==
  ASSUME NEW S, NEW q \in Seq(S), NEW x
  PROVE  NoRepeats(Append(q, x)) <=> NoRepeats(q) /\ x \notin ToSet(q)
<1>1. /\ Len(q) \in Nat /\ DOMAIN q = 1..Len(q)
      /\ Len(Append(q, x)) = Len(q) + 1
      /\ \A i \in 1..Len(q) : Append(q, x)[i] = q[i]
      /\ Append(q, x)[Len(q) + 1] = x
  OBVIOUS
<1>2. x \in ToSet(q) <=> \E i \in 1..Len(q) : q[i] = x
  BY <1>1 DEF ToSet
<1> DEFINE p == Append(q, x)
<1> HIDE DEF p
<1>3. ASSUME NoRepeats(p) PROVE NoRepeats(q) /\ x \notin ToSet(q)
  BY <1>1, <1>2, <1>3 DEF NoRepeats, p
<1>4. ASSUME NoRepeats(q), x \notin ToSet(q) PROVE NoRepeats(p)
  <2> SUFFICES ASSUME NEW i \in 1..(Len(q) + 1), NEW j \in 1..(Len(q) + 1), p[i] = p[j]
               PROVE i = j
    BY <1>1 DEF NoRepeats, p
  <2> QED
  BY <1>1, <1>2, <1>4 DEF NoRepeats, p
<1> QED
  BY <1>3, <1>4 DEF p

\* What is kept of a sequence without repetitions has none.
LEMMA KeepNoRepeats ==
  ASSUME NEW S, NEW q \in Seq(S), NEW W, NoRepeats(q)
  PROVE  NoRepeats(Keep(q, W))
<1> DEFINE T == {p \in Seq(S) : NoRepeats(p) => NoRepeats(Keep(p, W))}
<1>1. <<>> \in T
  BY KeepEmpty
<1>2. ASSUME NEW p \in Seq(S), NEW x \in S, p \in T PROVE Append(p, x) \in T
  <2>1. Keep(Append(p, x), W) = IF x \in W THEN Append(Keep(p, W), x) ELSE Keep(p, W)
    BY KeepAppend
  <2>2. Keep(p, W) \in Seq(S \cap W) /\ ToSet(Keep(p, W)) = ToSet(p) \cap W
    BY KeepType, KeepRange
  <2>3. /\ NoRepeats(Append(p, x)) => NoRepeats(p) /\ x \notin ToSet(p)
        /\ NoRepeats(Keep(p, W)) /\ x \notin ToSet(Keep(p, W)) => NoRepeats(Append(Keep(p, W), x))
    BY <2>2, NoRepeatsAppend
  <2>4. Append(p, x) \in Seq(S)
    OBVIOUS
  <2> QED
    BY <1>2, <2>1, <2>2, <2>3, <2>4
<1>3. Seq(S) \subseteq T
  <2> HIDE DEF T
  <2> QED
    BY <1>1, <1>2, SeqSet
<1> QED
  BY <1>3

\* A sequence is its first element and the rest.
LEMMA TailParts ==
  ASSUME NEW S, NEW q \in Seq(S), q # <<>>
  PROVE  /\ Head(q) \in S /\ Tail(q) \in Seq(S)
         /\ q = <<Head(q)>> \o Tail(q)
         /\ ToSet(q) = {Head(q)} \cup ToSet(Tail(q))
         /\ NoRepeats(q) => NoRepeats(Tail(q)) /\ Head(q) \notin ToSet(Tail(q))
<1>1. /\ Head(q) \in S /\ Tail(q) \in Seq(S) /\ q = <<Head(q)>> \o Tail(q)
      /\ Head(q) = q[1] /\ Len(q) \in Nat /\ Len(q) >= 1
      /\ Len(Tail(q)) = Len(q) - 1
      /\ \A i \in 1..(Len(q) - 1) : Tail(q)[i] = q[i + 1]
  OBVIOUS
<1> DEFINE p == Tail(q)
           n == Len(q)
<1> HIDE DEF p, n
<1>2. /\ DOMAIN q = 1..n /\ DOMAIN p = 1..(n - 1)
      /\ n \in Nat /\ n >= 1 /\ Len(p) = n - 1
      /\ \A i \in 1..(n - 1) : p[i] = q[i + 1] /\ i + 1 \in 1..n
  BY <1>1 DEF p, n
<1>3. ToSet(q) = {q[1]} \cup ToSet(p)
  <2>1. ASSUME NEW i \in 1..n PROVE q[i] \in {q[1]} \cup ToSet(p)
    <3>1. CASE i = 1
      BY <3>1
    <3>2. CASE i # 1
      <4>1. i - 1 \in 1..(n - 1) /\ (i - 1) + 1 = i
        BY <1>2, <3>2
      <4>2. p[i - 1] = q[i]
        BY <1>2, <4>1
      <4> QED
        BY <1>2, <4>1, <4>2 DEF ToSet
    <3> QED
      BY <3>1, <3>2
  <2>2. ASSUME NEW i \in 1..(n - 1) PROVE p[i] \in ToSet(q)
    BY <1>2 DEF ToSet
  <2>3. q[1] \in ToSet(q)
    BY <1>2 DEF ToSet
  <2> QED
    BY <1>2, <2>1, <2>2, <2>3 DEF ToSet
<1>4. ASSUME NoRepeats(q) PROVE NoRepeats(p) /\ q[1] \notin ToSet(p)
  <2>1. \A i, j \in 1..n : q[i] = q[j] => i = j
    BY <1>4 DEF NoRepeats, n
  <2>2. ASSUME NEW i \in 1..(n - 1), NEW j \in 1..(n - 1), p[i] = p[j] PROVE i = j
    <3>1. i + 1 = j + 1
      BY <1>2, <2>1, <2>2
    <3> QED
      BY <3>1
  <2>3. ASSUME NEW i \in 1..(n - 1), p[i] = q[1] PROVE FALSE
    <3>1. i + 1 = 1
      BY <1>2, <2>1, <2>3
    <3> QED
      BY <3>1
  <2> QED
    BY <1>2, <2>2, <2>3 DEF NoRepeats, ToSet
<1> QED
  BY <1>1, <1>3, <1>4 DEF p

\* Appending leaves the first element where it is.
LEMMA TailAppend ==
  ASSUME NEW S, NEW q \in Seq(S), NEW x \in S
  PROVE  /\ Append(q, x) # <<>>
         /\ q = <<>> => Head(Append(q, x)) = x /\ Tail(Append(q, x)) = <<>>
         /\ q # <<>> => /\ Head(Append(q, x)) = Head(q)
                        /\ Tail(Append(q, x)) = Append(Tail(q), x)
OBVIOUS

\* How Keep treats the first element of q.
HeadsOf(q, W) ==
  q # <<>> =>
    /\ Head(q) \in W => /\ Keep(q, W) # <<>> /\ Head(Keep(q, W)) = Head(q)
                        /\ Tail(Keep(q, W)) = Keep(Tail(q), W)
    /\ Head(q) \notin W => Keep(q, W) = Keep(Tail(q), W)

\* Taking the first element away takes it from what is kept, if it is kept.
LEMMA KeepHead ==
  ASSUME NEW S, NEW q \in Seq(S), NEW W
  PROVE  HeadsOf(q, W)
<1> DEFINE T == {p \in Seq(S) : HeadsOf(p, W)}
<1>1. <<>> \in T
  BY DEF HeadsOf
<1>2. ASSUME NEW p \in Seq(S), NEW x \in S, p \in T PROVE Append(p, x) \in T
  <2> DEFINE r == Append(p, x)
             k == Keep(p, W)
  <2>0. r \in Seq(S) /\ k \in Seq(S)
    <3>1. k \in Seq(S \cap W)
      BY KeepType
    <3> QED
      BY <3>1
  <2>1. Keep(r, W) = IF x \in W THEN Append(k, x) ELSE k
    BY KeepAppend
  <2>2. CASE p = <<>>
    <3>1. Head(r) = x /\ Tail(r) = <<>> /\ k = <<>> /\ Keep(<<>>, W) = <<>>
      BY <2>2, TailAppend, KeepEmpty
    <3>2. <<>> \in Seq(S)
      OBVIOUS
    <3>3. Append(<<>>, x) # <<>> /\ Head(Append(<<>>, x)) = x /\ Tail(Append(<<>>, x)) = <<>>
      BY <3>2, TailAppend
    <3> HIDE DEF r, k
    <3>4. HeadsOf(r, W)
      BY <2>1, <3>1, <3>3 DEF HeadsOf
    <3> QED
      BY <2>0, <3>4 DEF r
  <2>3. CASE p # <<>>
    <3>1. Head(r) = Head(p) /\ Tail(r) = Append(Tail(p), x) /\ Tail(p) \in Seq(S)
      BY <2>3, TailAppend, TailParts
    <3>2. Keep(Tail(r), W) = IF x \in W THEN Append(Keep(Tail(p), W), x) ELSE Keep(Tail(p), W)
      BY <3>1, KeepAppend
    <3>3. k # <<>> => /\ Append(k, x) # <<>> /\ Head(Append(k, x)) = Head(k)
                      /\ Tail(Append(k, x)) = Append(Tail(k), x)
      BY <2>0, TailAppend
    <3>4. /\ Head(p) \in W => k # <<>> /\ Head(k) = Head(p) /\ Tail(k) = Keep(Tail(p), W)
          /\ Head(p) \notin W => k = Keep(Tail(p), W)
      BY <1>2, <2>3 DEF HeadsOf
    <3> HIDE DEF r, k
    <3>5. HeadsOf(r, W)
      BY <2>1, <3>1, <3>2, <3>3, <3>4, Zenon DEF HeadsOf
    <3> QED
      BY <2>0, <3>5 DEF r
  <2> QED
    BY <2>2, <2>3
<1>3. Seq(S) \subseteq T
  <2> HIDE DEF T
  <2> QED
    BY <1>1, <1>2, SeqSet
<1> QED
  BY <1>3

\* A sequence has finitely many elements, as many as it is long if none is
\* repeated.
LEMMA ToSetFinite ==
  ASSUME NEW S, NEW q \in Seq(S)
  PROVE  /\ IsFiniteSet(ToSet(q))
         /\ NoRepeats(q) => Cardinality(ToSet(q)) = Len(q)
<1>1. Len(q) \in Nat /\ q \in [1..Len(q) -> ToSet(q)]
  BY DEF ToSet
<1>2. q \in Surjection(1..Len(q), ToSet(q))
  BY <1>1 DEF Surjection, ToSet
<1>3. IsFiniteSet(1..Len(q)) /\ Cardinality(1..Len(q)) = Len(q)
  <2>1. 1 \in Int /\ Len(q) \in Int
    BY <1>1
  <2>2. IsFiniteSet(1..Len(q)) /\ Cardinality(1..Len(q)) = IF 1 > Len(q) THEN 0 ELSE Len(q) - 1 + 1
    BY <2>1, FS_Interval
  <2> QED
    BY <1>1, <2>2
<1>4. IsFiniteSet(1..Len(q))
  BY <1>3
<1>5. /\ IsFiniteSet(ToSet(q))
      /\ q \in Injection(1..Len(q), ToSet(q)) => Cardinality(ToSet(q)) = Cardinality(1..Len(q))
  BY <1>2, <1>4, FS_Surjection
<1>6. NoRepeats(q) => q \in Injection(1..Len(q), ToSet(q))
  BY <1>1 DEF Injection, IsInjective, NoRepeats
<1> QED
  BY <1>3, <1>5, <1>6

\* An order of a set has each of its elements once: what FuturesUnordered may
\* make of the sinks of a flush (reactor.rs, ClientCommand::Flush).
LEMMA OrdersOf ==
  ASSUME NEW S, IsFiniteSet(S), NEW q \in SetToSeqs(S)
  PROVE  q \in Seq(S) /\ NoRepeats(q) /\ ToSet(q) = S
<1> DEFINE n == Cardinality(S)
<1>1. n \in Nat
  BY FS_CardinalityType
<1>2. q \in [1..n -> S] /\ \A i, j \in 1..n : i # j => q[i] # q[j]
  BY DEF SetToSeqs
<1>3. Cardinality(1..n) = n
  <2>1. 1 \in Int /\ n \in Int
    BY <1>1
  <2>2. Cardinality(1..n) = IF 1 > n THEN 0 ELSE n - 1 + 1
    BY <2>1, FS_Interval
  <2> HIDE DEF n
  <2> QED
    BY <1>1, <2>2
<1>4. q \in Injection(1..n, S)
  BY <1>2 DEF Injection, IsInjective
<1> HIDE DEF n
<1>5. Cardinality(1..n) = Cardinality(S) <=> q \in Surjection(1..n, S)
  BY <1>4, FS_Injection
<1>6. q \in Surjection(1..n, S)
  BY <1>3, <1>5 DEF n
<1>7. q \in Seq(S) /\ Len(q) = n
  BY <1>1, <1>2
<1>8. ToSet(q) = S
  BY <1>2, <1>6 DEF ToSet, Surjection
<1>9. NoRepeats(q)
  BY <1>2, <1>7 DEF NoRepeats
<1> QED
  BY <1>7, <1>8, <1>9

\* A sequence is a prefix of itself continued.
LEMMA PrefixOf ==
  ASSUME NEW S, NEW p \in Seq(S), NEW r \in Seq(S)
  PROVE  IsPrefix(p, p \o r)
<1>1. Len(p) \in Nat /\ Len(r) \in Nat /\ Len(p \o r) = Len(p) + Len(r)
  OBVIOUS
<1>2. SubSeq(p, 1, Len(p)) = p /\ SubSeq(p \o r, 1, Len(p)) = p
  OBVIOUS
<1> QED
  BY <1>1, <1>2 DEF IsPrefix
=============================================================================
