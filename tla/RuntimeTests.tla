---------------------------- MODULE RuntimeTests ----------------------------
(***************************************************************************)
(* The programs that the repository runs with known results: the tests of   *)
(* runtime/mod.rs, the one of rhizome-tokio/src/lib.rs and the example      *)
(* rhizome-tokio/examples/cid.rs.  Each is a record of                      *)
(*   idb, facts, rules   the program,                                       *)
(*   script              the input facts, in the order they are pushed,     *)
(*   flushes             positions of the script where the inputs so far    *)
(*                       are processed before the next is pushed,           *)
(*   epochs              bound: the epochs the inputs are split into,       *)
(*   derives             the facts asserted of each relation listed,        *)
(*   holds               what is asserted of the store after some flushes.  *)
(* One machine runs all of them: a relation that two of them declare with    *)
(* different columns has a name of its own in the second (roots, products).  *)
(***************************************************************************)
EXTENDS Datalog
LOCAL INSTANCE TLC

Ints(m, n) == {ToString(i) : i \in m..n}

\* The facts of one relation, whose columns are a sequence of names, given as
\* sequences of values.
Row(r, cols, values) == Atom(r, [c \in ToSet(cols) |->
    values[CHOOSE i \in DOMAIN cols : cols[i] = c]])
Rows(r, cols, S) == {Row(r, cols, v) : v \in S}

Evac(e, a, v) == Row("evac", <<"entity", "attribute", "value">>, <<e, a, v>>)
InputTuple(cid, e, a, v) ==
  Row("evac", <<"cid", "entity", "attribute", "value">>, <<cid, e, a, v>>)

\* An input without links; no rule of its program looks at its cid.
Unlinked(e, a, v) == InputTuple(e \o a \o v, e, a, v)
Edge(r, x, y) == Row(r, <<"from", "to">>, <<x, y>>)

Test(idb, facts, rules, script, derives) ==
  [idb |-> idb, facts |-> facts, rules |-> rules, script |-> script,
   flushes |-> {}, epochs |-> 2, derives |-> derives, holds |-> <<>>]

-----------------------------------------------------------------------------
(* Transitive closure.                                                      *)

Nat5 == Ints(0, 4)
Chain == << <<"0", "1">>, <<"1", "2">>, <<"2", "3">>, <<"3", "4">> >>
Closed == UNION {{<<ToString(i), ToString(j)>> : j \in (i + 1)..4} : i \in 0..3}

PathRules ==
  << Rule([v \in {"x", "y"} |-> Nat5], Edge("path", "x", "y"), <<Edge("edge", "x", "y")>>, <<>>),
     Rule([v \in {"x", "y", "z"} |-> Nat5], Edge("path", "x", "z"),
          <<Edge("edge", "x", "y"), Edge("path", "y", "z")>>, <<>>) >>

TransitiveClosure ==
  Test({"edge", "path"}, Rows("edge", <<"from", "to">>, ToSet(Chain)), PathRules, <<>>,
       [path |-> Rows("path", <<"from", "to">>, Closed)])

SourceTransitiveClosure ==
  Test({"edge", "path"}, {},
       << Rule([v \in {"x", "y"} |-> Nat5], Edge("edge", "x", "y"),
               <<Evac("x", "to", "y")>>, <<>>) >> \o PathRules,
       [i \in DOMAIN Chain |-> Unlinked(Chain[i][1], "to", Chain[i][2])],
       [path |-> Rows("path", <<"from", "to">>, Closed)])

\* The client inserts the facts one by one and flushes: they may be split into
\* epochs anywhere.
SinkTransitiveClosure == [SourceTransitiveClosure EXCEPT !.epochs = 4]

-----------------------------------------------------------------------------
(* Negation.                                                                *)

Result(e, v) == Row("result", <<"entity", "value">>, <<e, v>>)
Results == Rows("result", <<"entity", "value">>, {<<"0", "0">>, <<"0", "1">>, <<"2", "2">>})
EntityValue == [e |-> Ints(0, 3), v |-> {"0", "1", "2", "23"}]

NegateEdb ==
  Test({"result"}, {},
       << Rule(EntityValue, Result("e", "v"), <<Evac("e", "value", "v")>>,
               <<Evac("e", "ignored", "true")>>) >>,
       << Unlinked("0", "value", "0"), Unlinked("0", "value", "1"), Unlinked("1", "value", "2"),
          Unlinked("2", "value", "2"), Unlinked("3", "value", "23"), Unlinked("1", "ignored", "true"),
          Unlinked("2", "ignored", "false"), Unlinked("3", "ignored", "true") >>,
       [result |-> Results])

NegateIdb ==
  Test({"ignored", "result"}, {Atom("ignored", [entity |-> "1"])},
       << Rule(EntityValue, Result("e", "v"), <<Evac("e", "value", "v")>>,
               <<Atom("ignored", [entity |-> "e"])>>) >>,
       << Unlinked("0", "value", "0"), Unlinked("0", "value", "1"), Unlinked("1", "value", "2"),
          Unlinked("2", "value", "2") >>,
       [result |-> Results])

-----------------------------------------------------------------------------
(* Content addresses and links.  An input with links is pushed as a fact of  *)
(* evac followed by one fact of links for each; no rule looks at the         *)
(* attribute and the value, which are the same for all.                      *)

Input(cid, e, links) ==
  << InputTuple(cid, e, "node", "0") >>
  \o [i \in DOMAIN links |-> Edge("links", cid, links[i])]

InCid(cid) == Atom("evac", [cid |-> cid])

Trees == {"f00", "f01", "f02", "f03", "f04", "f10", "f11", "f12"}
TreeVars == [tree |-> {"0", "1"}, parent |-> Trees, child |-> Trees, root |-> Trees]
Parent(t, p, c) == Row("parent", <<"tree", "parent", "child">>, <<t, p, c>>)
InTree(cid) == Atom("evac", [cid |-> cid, entity |-> "tree"])

GetLink ==
  Test({"parent", "roots"}, {},
       << Rule(TreeVars, Parent("tree", "parent", "child"),
               <<InTree("parent"), InTree("child"), Edge("links", "child", "parent")>>, <<>>),
          Rule(TreeVars, Row("roots", <<"tree", "id">>, <<"tree", "root">>), <<InTree("root")>>,
               <<Atom("parent", [child |-> "root", tree |-> "tree"])>>) >>,
       Input("f00", "0", <<>>) \o Input("f01", "0", <<"f00">>)
       \o Input("f02", "0", <<"f01">>) \o Input("f03", "0", <<"f02">>)
       \o Input("f04", "0", <<"f02">>) \o Input("f10", "1", <<"f00">>)
       \o Input("f11", "1", <<"f10">>) \o Input("f12", "1", <<"f11">>),
       [roots  |-> Rows("roots", <<"tree", "id">>, {<<"0", "f00">>, <<"1", "f10">>}),
        parent |-> Rows("parent", <<"tree", "parent", "child">>,
                     {<<"0", "f00", "f01">>, <<"0", "f01", "f02">>, <<"0", "f02", "f03">>,
                      <<"0", "f02", "f04">>, <<"1", "f10", "f11">>, <<"1", "f11", "f12">>})])

Hops == {"f0", "f1", "f2", "f3", "f4", "f5", "f6"}

GetLinkOneHop ==
  Test({"hop"}, {},
       << Rule([v \in {"src", "via", "dst"} |-> Hops], Edge("hop", "src", "dst"),
               <<InCid("src"), Edge("links", "src", "via"), Edge("links", "via", "dst")>>,
               <<>>) >>,
       Input("f0", "0", <<>>) \o Input("f1", "0", <<"f0">>) \o Input("f2", "0", <<"f1">>)
       \o Input("f3", "0", <<"f1">>) \o Input("f4", "0", <<"f2">>)
       \o Input("f5", "0", <<"f3">>) \o Input("f6", "0", <<"f4">>),
       [hop |-> Rows("hop", <<"from", "to">>,
                  {<<"f2", "f0">>, <<"f3", "f0">>, <<"f4", "f1">>, <<"f5", "f1">>,
                   <<"f6", "f2">>})])

-----------------------------------------------------------------------------
(* Predicates over variables.                                               *)

Numbers == Ints(1, 5)
Inserted == [i \in 1..5 |-> Unlinked("0", "n", ToString(i))]
WithValue(v) == Atom("evac", [value |-> v])

\* The other test of predicates gives the same function as a closure.
UserDefinedPredicate ==
  Test({"triangle"}, {},
       << [Rule([v \in {"x", "y", "z"} |-> Numbers],
                Row("triangle", <<"a", "b", "c">>, <<"x", "y", "z">>),
                <<WithValue("x"), WithValue("y"), WithValue("z")>>, <<>>)
           EXCEPT !.preds = <<[fn |-> "is_triangle", vars |-> <<"x", "y", "z">>]>>] >>,
       Inserted,
       [triangle |-> Rows("triangle", <<"a", "b", "c">>,
          {<<"1", "1", "3">>, <<"1", "1", "4">>, <<"1", "1", "5">>, <<"1", "2", "4">>,
           <<"1", "2", "5">>, <<"1", "3", "5">>, <<"2", "1", "4">>, <<"2", "1", "5">>,
           <<"2", "2", "5">>, <<"3", "1", "5">>})])

-----------------------------------------------------------------------------
(* Aggregations.                                                            *)

\* A rule with one aggregation.
AggRule(v, h, p, target, over, fn, args) ==
  [Rule(v, h, p, <<>>) EXCEPT
      !.aggs = <<[target |-> target, atom |-> over, fn |-> fn, vars |-> args]>>]

N(r, v) == Atom(r, [n |-> v])

\* The tests of the aggregates over the relation num of the values inserted.
OverNum(fn, args, value) ==
  Test({"num", fn}, {},
       << Rule([x |-> Numbers], N("num", "x"), <<WithValue("x")>>, <<>>),
          AggRule([out |-> Ints(0, 15), n |-> Numbers], N(fn, "out"), <<>>,
                  "out", N("num", "n"), fn, args) >>,
       Inserted, fn :> {N(fn, value)})

CountTest == OverNum("count", <<>>, "5")
SumTest   == OverNum("sum", <<"n">>, "15")
MinTest   == OverNum("min", <<"n">>, "1")
MaxTest   == OverNum("max", <<"n">>, "5")
MeanTest  == OverNum("mean", <<"n">>, "3")

PairRule ==
  Rule([v \in {"x", "y"} |-> Numbers], Row("pair", <<"x", "y">>, <<"x", "y">>),
       <<N("num", "x"), N("num", "y")>>, <<>>)

\* The values of z: what the aggregation gives for no pair, for one, and for all.
Products == {ToString(i * j) : i, j \in 1..5}
PairVars == [x |-> Numbers, y |-> Numbers, z |-> {"0", "225"} \cup Products]
Pairs == Row("pair", <<"x", "y">>, <<"x", "y">>)
XYZ == <<"x", "y", "z">>

MultiArityReduce ==
  Test({"num", "pair", "product"}, {N("num", v) : v \in Numbers},
       << PairRule,
          AggRule(PairVars, Atom("product", [z |-> "z"]), <<>>, "z", Pairs, "product",
                  <<"x", "y">>) >>,
       <<>>, [product |-> {Atom("product", [z |-> "225"])}])

GroupByReduce ==
  Test({"num", "pair", "products"}, {N("num", v) : v \in Numbers},
       << PairRule,
          AggRule(PairVars, Row("products", XYZ, XYZ), <<Pairs>>,
                  "z", Pairs, "product", <<"x", "y">>) >>,
       <<>>,
       [products |-> Rows("products", XYZ,
          {<<ToString(i), ToString(j), ToString(i * j)>> : i, j \in 1..5})])

-----------------------------------------------------------------------------
(* A relation joined with itself on one of its columns.                     *)

IdXY == <<"id", "x", "y">>

SelfJoin ==
  Test({"pair1", "pair2"},
       Rows("pair1", IdXY, {<<"a", "1", "2">>, <<"b", "3", "4">>, <<"a", "5", "6">>}),
       << Rule([id |-> {"a", "b"}, x |-> Ints(1, 6), y |-> Ints(1, 6)],
               Row("pair2", IdXY, IdXY),
               <<Row("pair1", <<"id", "x">>, <<"id", "x">>),
                 Row("pair1", <<"id", "y">>, <<"id", "y">>)>>, <<>>) >>,
       <<>>,
       [pair2 |-> Rows("pair2", IdXY,
          {<<"a", "1", "2">>, <<"a", "1", "6">>, <<"a", "5", "2">>, <<"a", "5", "6">>,
           <<"b", "3", "4">>})])

-----------------------------------------------------------------------------
(* The key-value store of examples/cid.rs and examples/kv.rs.  A write links *)
(* to the write it replaces; of concurrent writes the one with the smallest  *)
(* cid wins.  A store and a key are one column here, and the value of a      *)
(* write is its cid.                                                        *)

StoreVars(cids, keys) == [cid |-> cids, parent |-> cids, k |-> keys]

Set(c)      == Row("set", <<"cid", "key">>, <<c, "k">>)
Root(c)     == Row("root", <<"cid", "key">>, <<c, "k">>)
Child(c, p) == Row("child", <<"cid", "parent">>, <<c, p>>)
Latest(c)   == Atom("latestSibling", [cid |-> c])

StoreRules(cids, keys) ==
  LET v == StoreVars(cids, keys)
  IN << Rule(v, Set("cid"), <<Atom("evac", [cid |-> "cid", entity |-> "k"])>>, <<>>),
        Rule(v, Root("cid"), <<Set("cid")>>, <<Atom("links", [from |-> "cid"])>>),
        Rule(v, Child("cid", "parent"),
             <<Set("cid"), Edge("links", "cid", "parent"), Root("parent")>>, <<>>),
        Rule(v, Child("cid", "parent"),
             <<Set("cid"), Edge("links", "cid", "parent"), Atom("child", [cid |-> "parent"])>>,
             <<>>),
        AggRule(v, Latest("cid"), <<Atom("root", [key |-> "k"])>>,
                "cid", Root("cid"), "min", <<"cid">>),
        AggRule(v, Latest("cid"), <<Latest("parent")>>,
                "cid", Child("cid", "parent"), "min", <<"cid">>),
        Rule(v, Row("head", <<"cid", "key">>, <<"cid", "k">>), <<Latest("cid"), Set("cid")>>,
             <<Atom("child", [parent |-> "cid"])>>) >>

\* The writes e0 to e11 of the example under the cids c[0] to c[11].
StoreScript(c) ==
  Input(c[0], "00", <<>>) \o Input(c[1], "00", <<c[0]>>) \o Input(c[2], "00", <<c[1]>>)
  \o Input(c[3], "00", <<c[1]>>) \o Input(c[4], "01", <<>>) \o Input(c[5], "00", <<c[0]>>)
  \o Input(c[6], "00", <<c[0]>>) \o Input(c[7], "00", <<c[4]>>)
  \o Input(c[8], "00", <<>>) \o Input(c[9], "00", <<>>) \o Input(c[10], "00", <<c[5]>>)
  \o Input(c[11], "10", <<>>)

StoreFlushes == {14, 15, 16, 18, 19}

\* What the example asserts of the store after each flush.
StoreHolds(c) ==
  (14 :> {<<"00", c[5]>>, <<"01", c[4]>>}) @@ (15 :> {<<"00", c[5]>>})
  @@ (16 :> {<<"00", c[9]>>}) @@ (18 :> {<<"00", c[9]>>}) @@ (19 :> {<<"00", c[9]>>})

StoreExample(c) ==
  [Test({"set", "root", "child", "latestSibling", "head"}, {},
        StoreRules({c[i] : i \in DOMAIN c}, {"00", "01", "10"}), StoreScript(c), <<>>)
   EXCEPT !.flushes = StoreFlushes, !.epochs = 6, !.holds = StoreHolds(c)]

\* An order of the cids in which the example's assertions on them hold.
StoreCids ==
  [i \in 0..11 |-> <<"4", "9", "6", "7", "11", "8", "10", "12", "5", "2", "1", "3">>[i + 1]]
=============================================================================
