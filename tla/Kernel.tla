------------------------------- MODULE Kernel -------------------------------
(***************************************************************************)
(* What a running program computes on values: whether a fact matches a      *)
(* pattern, the aggregates of kernel/ that fold the facts of a group into   *)
(* one value, and the predicates that programs hand to the builder.         *)
(*                                                                         *)
(* Column values are strings; those that arithmetic is about are numerals.  *)
(* An aggregate is given the facts of its group and the columns that hold   *)
(* its arguments: facts that agree on these columns count once each.        *)
(***************************************************************************)
LOCAL INSTANCE Integers
LOCAL INSTANCE TLC
LOCAL INSTANCE FiniteSets
LOCAL INSTANCE FiniteSetsExt

LargestNumeral == 225

\* The value of each numeral.
Number == [s \in {ToString(n) : n \in 0..LargestNumeral} |->
             CHOOSE n \in 0..LargestNumeral : ToString(n) = s]

\* Mutant of Matches: one column is enough.
MatchesAnyColumn(fact, pattern) ==
    /\ fact.rel = pattern.rel
    /\ \E c \in DOMAIN pattern.args : fact.args[c] = pattern.args[c]

\* The fact has the values of the pattern, whatever its other columns hold.
Matches(fact, pattern) ==
    /\ fact.rel = pattern.rel
    /\ \A c \in DOMAIN pattern.args : fact.args[c] = pattern.args[c]

\* What step and finalize of each aggregate compute over a group, where value
\* gives what each fact is stepped with.  Min and Max of nothing are no value,
\* which no head can have.
Count(facts) == Cardinality(facts)

SumOver(facts, value) == MapThenSumSet(LAMBDA f : value[f], facts)

Least(values) == IF values = {} THEN "none" ELSE Min(values)

Greatest(values) == IF values = {} THEN "none" ELSE Max(values)

Mean(facts, value) == SumOver(facts, value) \div Count(facts)

\* The aggregate that the runtime's tests define: the sum of products.
Product(facts, left, right) == SumOver(facts, [f \in facts |-> left[f] * right[f]])

\* The aggregate fn over a group, as a column's value.
Aggregate(fn, facts, cols) ==
    LET first  == [f \in facts |-> Number[f.args[cols[1]]]]
        second == [f \in facts |-> Number[f.args[cols[2]]]]
        firsts == {first[f] : f \in facts}
    IN  ToString(CASE fn = "count"   -> Count(facts)
                   [] fn = "sum"     -> SumOver(facts, first)
                   [] fn = "product" -> Product(facts, first, second)
                   [] fn = "min"     -> Least(firsts)
                   [] fn = "max"     -> Greatest(firsts)
                   [] fn = "mean"    -> Mean(facts, first))

\* Mutant of Panics: min and max unwrap what they found.
PanicsOfNone(fn, facts) == fn \in {"min", "max", "mean"} /\ facts = {}

\* Mean divides by the number of facts: over integers, a division by zero
\* panics.
Panics(fn, facts) == fn = "mean" /\ facts = {}

\* The predicate that the tests define.
IsTriangle(a, b, c) == a + b < c

\* A predicate applied to the values of its variables, in their order.
Predicate(fn, args) ==
    CASE fn = "is_triangle" -> IsTriangle(Number[args[1]], Number[args[2]], Number[args[3]])
=============================================================================
