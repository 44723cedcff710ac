------------------------------- MODULE MCTests -------------------------------
(***************************************************************************)
(* The machine on the programs of RuntimeTests.  The inputs are those of    *)
(* the test, in its order; they may be split into epochs anywhere that      *)
(* separates two inserted facts, as when the reactor starts an epoch while  *)
(* the client is still inserting, and an epoch ends at each flush.  The     *)
(* first epoch may have no input at all: the reactor starts one after every *)
(* command, and a sink is registered before anything is inserted.           *)
(***************************************************************************)
EXTENDS Evaluation, RuntimeTests

Tests ==
  << TransitiveClosure, SourceTransitiveClosure, SinkTransitiveClosure, NegateEdb,
     NegateIdb, GetLink, GetLinkOneHop, UserDefinedPredicate, CountTest, SumTest, MinTest,
     MaxTest, MeanTest, MultiArityReduce, GroupByReduce, SelfJoin, StoreExample(StoreCids) >>

SourceOf(test) ==
  [edb |-> {"evac", "links"}, idb |-> test.idb, facts |-> test.facts, rules |-> test.rules]

AstsOf(test) ==
  LET orders == SetToSeq(StrataOrders(SourceOf(test)))
  IN  [i \in DOMAIN orders |->
         [source |-> SourceOf(test), strata |-> orders[i], test |-> test]]

TestAsts    == FlattenSeq([i \in DOMAIN Tests |-> AstsOf(Tests[i])])
TestLowered ==
  FlattenSeq([i \in DOMAIN TestAsts |->
                <<LowerToRam(TestAsts[i].source, TestAsts[i].strata)>>])
TestKnown   ==
  UNION {ToSet(Tests[n].script) \cup FactsOf(SourceOf(Tests[n])) : n \in DOMAIN Tests}
TestNames   == {"evac", "links"} \cup UNION {Tests[n].idb : n \in DOMAIN Tests}

TestAst == LET it == TestAsts IN it
TestPrograms == LET it == TestLowered IN it
TestFacts == LET it == TestKnown IN it
TestRelations == LET it == TestNames IN it

-----------------------------------------------------------------------------
Scenario == Ast[program].test

\* How many facts of the script have been pushed.
Pushed == Cardinality(TotalOf(Source.edb)) + Len(input)

PushScript ==
  LET n == Pushed
  IN  /\ n < Len(Scenario.script)
      /\ n \in Scenario.flushes => input = <<>>
      /\ Push(Scenario.script[n + 1])

PopAny == output # <<>> /\ Pop(CHOOSE f \in Head(output) : TRUE)

\* The links of an input are pushed with it; the epochs left suffice for the
\* flushes to come.
StartTest ==
  LET n == Pushed
  IN  /\ n < Len(Scenario.script) => Scenario.script[n + 1].rel # "links"
      /\ timestamp.epoch + Cardinality({p \in Scenario.flushes : p > n}) < Scenario.epochs
      /\ StartEpoch

TestNext == PushScript \/ PopAny \/ StartTest \/ Step

TestSpec == Init /\ [][TestNext]_vars /\ WF_vars(Step)

-----------------------------------------------------------------------------
Emitted == {f \in Facts : sunk[f] # <<>>}

ScriptDone == Cardinality(TotalOf(Source.edb)) = Len(Scenario.script)

\* A program has emitted what its test in the repository asserts when all of
\* its inputs are processed in one epoch; a program without negation or
\* aggregation has however they are split (assert_derives! in test_utils/mod.rs
\* with the tests of runtime/mod.rs; test_sink_transitive_closure).
TestsDerive ==
  (AtFixpoint /\ ScriptDone /\ (timestamp.epoch = 1 \/ Monotone(Source))) =>
    \A r \in DOMAIN Scenario.derives :
      {f \in Emitted : f.rel = r} = Scenario.derives[r]

\* The store that the sink of head writes: for each key, the last head emitted.
Stored ==
  LET heads == {f \in Emitted : f.rel = "head"}
      Written(f) == Last(sunk[f])
  IN  {<<f.args.key, f.args.cid>> : f \in {g \in heads :
         \A h \in heads : h.args.key = g.args.key => Written(h) <= Written(g)}}

\* Whatever epochs the inserts were processed in, the store holds what the
\* example asserts after each flush, and one epoch never emits two heads of a
\* key, of which the sink would keep the one that happens to be popped last
\* (rhizome-tokio/examples/cid.rs).
StoreAgrees ==
  AtFixpoint =>
    /\ \A a, b \in Stored : a[1] = b[1] => a = b
    /\ Cardinality(TotalOf(Source.edb)) \in DOMAIN Scenario.holds =>
         Scenario.holds[Cardinality(TotalOf(Source.edb))] \subseteq Stored

\* The rules with aggregations that alone derive their relation.
SoleAggregations ==
  {r \in ToSet(Source.rules) : /\ r.aggs # <<>>
                               /\ \A s \in ToSet(Source.rules) : s.head.rel = r.head.rel => s = r}

\* A value that an aggregation over a derived relation emits is that of the
\* facts the epoch ends with, and not of those it started with or of a round in
\* between (lower_to_ram.rs: the aggregation reads Total, and stratify.rs puts
\* the relation it reads into an earlier stratum).
AggregatesAreCurrent ==
  AtFixpoint =>
    LET known == TotalOf(Source.edb \cup Source.idb)
    IN  \A r \in SoleAggregations : \A f \in Facts :
          (f.rel = r.head.rel /\ timestamp.epoch - 1 \in ToSet(sunk[f])) =>
            f \in Consequences(Instances(r), known, {}, known)

\* The epoch under way is the first one of a program that averages integers,
\* and has no input.
UnfedMean ==
  /\ \E r \in ToSet(Source.rules) : \E g \in ToSet(r.aggs) : g.fn = "mean"
  /\ timestamp.epoch = 0 /\ Taken \cup ToSet(input) = {}

\* Every epoch ends, wherever the reactor starts it: the loop of each recursive
\* stratum reaches its exit (exit.rs) and no aggregation panics on the way, but
\* for the one epoch that cannot end: Mean::finalize divides the sum by the
\* number of facts, which is zero before the first input (mean.rs).
EpochsEnd ==
  /\ (phase = "epoch" /\ ~ UnfedMean) ~> (phase = "idle")
  /\ (phase = "epoch" /\ UnfedMean) ~> (At("insert") /\ InsertPanics)
=============================================================================
