----------------------------- MODULE MCReactor -----------------------------
(***************************************************************************)
(* Reactor for TLC: inputs x and y, which the stream yields as well; the     *)
(* program derives a fact from each and one more from x and y together, and *)
(* has a ground fact.  Two relations, "solo" and "pair".                    *)
(***************************************************************************)
EXTENDS Reactor

CONSTANTS solo, pair, also, ticker

MCModel(inputs) ==
  {"ground"} \cup {"from " \o f : f \in inputs}
  \cup (IF {"x", "y"} \subseteq inputs THEN {"both"} ELSE {})

\* also: a second sink of the relation of solo.
MCWants ==
  [s \in {solo, pair, also} |->
     IF s = pair THEN {"both", "ground"} ELSE {"from x", "from y"}]

MCSolo  == {solo}
MCSinks == {solo, pair}
MCThree == {solo, pair, also}

MCStreamFacts == [t \in {ticker} |-> <<"y", "x">>]

\* Facts are only added, and Keep selects as SelectSeq does (reactor.rs asks the
\* relation of a fact for its sinks; the program checked has no negation).
ASSUME MCMonotone == Monotone
ASSUME KeepSelects ==
  \A q \in UNION {[1..n -> 1..3] : n \in 0..4}, W \in SUBSET (1..3) :
    Keep(q, W) = SelectSeq(q, LAMBDA m : m \in W)
=============================================================================
