---------------------------- MODULE BuilderTests ----------------------------
(***************************************************************************)
(* The tests of logic/builder/mod.rs: for each, the calls its closures make *)
(* and the verdict it asserts, one [calls, expect] per assertion.           *)
(***************************************************************************)
EXTENDS Builder, SequencesExt

x0(t) == Var("x0", t)
x1(t) == Var("x1", t)
x2(t) == Var("x2", t)

One(c, v) == << <<c, v>> >>
Two(c, v, d, w) == << <<c, v>>, <<d, w>> >>
Three(c, v, d, w, e, u) == << <<c, v>>, <<d, w>>, <<e, u>> >>

In(r, cols)  == Declare(r, "Edb", cols)
Out(r, cols) == Declare(r, "Idb", cols)

NoBody == [search |-> <<>>, preds |-> <<>>, except |-> <<>>, groups |-> <<>>]
Atom1(r, bind) == [rel |-> r, cid |-> {}, bind |-> bind]
Search(atoms) == [NoBody EXCEPT !.search = atoms]
Not(r, bind) == <<[rel |-> r, bind |-> bind]>>
Group(target, r, bind, fn, vars) ==
  <<[target |-> target, rel |-> r, bind |-> bind, fn |-> fn, vars |-> vars]>>

Ok(calls) == [calls |-> calls, expect |-> <<"Ok">>]
Err(error, calls) == [calls |-> calls, expect |-> error]

One32 == Lit("1", "S32")
Two32 == Lit("2", "S32")
S32(c) == <<c, "S32">>

-----------------------------------------------------------------------------
(* Whole programs.                                                          *)

\* edge and path, with variables of type t.
Paths(t) ==
  << In("edge", <<S32("from"), S32("to")>>), Out("path", <<S32("from"), S32("to")>>),
     Clause("path", Two("from", x0(t), "to", x1(t)),
            Search(<<Atom1("edge", Two("from", x0(t), "to", x1(t)))>>)),
     Clause("path", Two("from", x0(t), "to", x2(t)),
            Search(<<Atom1("edge", Two("from", x0(t), "to", x1(t))),
                     Atom1("path", Two("from", x1(t), "to", x2(t)))>>)) >>

test_tc == << Ok(Paths("S32")) >>

\* bind_one adds one binding where bind adds several.
test_bind_one == << Ok(Paths("S32")) >>

test_get_link ==
  << Ok(<< Out("p", <<<<"x", "Cid">>>>),
           Clause("p", One("x", x0("Cid")),
                  Search(<<Atom1("links", Two("from", Lit("c1", "Cid"), "to", x0("Cid")))>>)) >>) >>

test_stratifiable_negation ==
  LET x == x0("S32")
      y == x1("S32")
      z == x2("S32")
      R(a, b) == Atom1("r", Two("r0", a, "r1", b))
  IN << Ok(<< In("r", <<S32("r0"), S32("r1")>>), Out("v", <<S32("v")>>),
              Out("t", <<S32("t0"), S32("t1")>>), Out("tc", <<S32("tc0"), S32("tc1")>>),
              Clause("v", One("v", x), Search(<<R(x, y)>>)),
              Clause("v", One("v", y), Search(<<R(x, y)>>)),
              Clause("t", Two("t0", x, "t1", y), Search(<<R(x, y)>>)),
              Clause("t", Two("t0", x, "t1", y),
                     Search(<<Atom1("t", Two("t0", x, "t1", z)), R(z, y)>>)),
              Clause("tc", Two("tc0", x, "tc1", y),
                     [Search(<<Atom1("v", One("v", x)), Atom1("v", One("v", y))>>)
                        EXCEPT !.except = Not("t", Two("t0", x, "t1", y))]) >>) >>

test_cyclic_negation ==
  LET x == x0("S32")
      From(r) == [Search(<<Atom1("t", One("t", x))>>) EXCEPT !.except = Not(r, One(r, x))]
  IN << Err(<<"ProgramUnstratifiable">>,
            << In("t", <<S32("t")>>), Out("p", <<S32("p")>>), Out("q", <<S32("q")>>),
               Clause("p", One("p", x), From("q")), Clause("q", One("q", x), From("p")) >>) >>

PAndQ == << Out("p", <<S32("p0")>>), Out("q", <<S32("q0")>>) >>

test_range_restriction ==
  << Err(<<"ClauseNotRangeRestricted", "p0", "x0">>,
         PAndQ \o << Clause("p", One("p0", x0("S32")),
                            Search(<<Atom1("q", One("q0", x1("S32")))>>)) >>) >>

test_domain_independence ==
  << Err(<<"ClauseNotDomainIndependent", "x0">>,
         PAndQ \o << Clause("p", One("p0", x0("S32")),
                            [NoBody EXCEPT !.except = Not("q", One("q0", x0("S32")))]) >>) >>

test_fact_edb ==
  << Err(<<"ClauseHeadEDB", "p">>,
         << In("p", <<S32("p0")>>), Fact("p", One("p0", One32)) >>) >>

test_rule_edb ==
  << Err(<<"ClauseHeadEDB", "p">>,
         << In("p", <<S32("p0")>>), Clause("p", One("p0", One32), NoBody) >>) >>

test_fact_unrecognized ==
  << Err(<<"UnrecognizedRelation", "p">>, << Fact("p", One("p0", One32)) >>) >>

test_rule_unrecognized ==
  << Err(<<"UnrecognizedRelation", "p">>, << Clause("p", One("p0", One32), NoBody) >>) >>

-----------------------------------------------------------------------------
(* Declarations and columns.                                                *)

test_duplicate_input_declaration_column ==
  << Err(<<"DuplicateDeclarationCol", "p", "x">>, << In("p", <<S32("x"), S32("x")>>) >>) >>

test_duplicate_output_declaration_column ==
  << Err(<<"DuplicateDeclarationCol", "q", "y">>, << Out("q", <<S32("y"), S32("y")>>) >>) >>

test_conflicting_declaration ==
  LET cols == <<S32("x")>>
      Twice(a, b) == Err(<<"ConflictingRelationDeclaration", "p">>, <<a, b>>)
  IN << Twice(In("p", cols), In("p", cols)), Twice(In("p", cols), Out("p", cols)),
        Twice(Out("p", cols), In("p", cols)), Twice(Out("p", cols), Out("p", cols)) >>

\* An output p with these columns of type s32, then one clause.
Into(cols, clause) == << Out("p", [i \in DOMAIN cols |-> S32(cols[i])]), clause >>

\* The bindings of four assertions that bind the column x again.
Conflicting(Make(_)) ==
  LET Case(cols, bind) == Err(<<"ConflictingColumnBinding", "p", "x">>, Into(cols, Make(bind)))
  IN << Case(<<"x">>, Two("x", One32, "x", One32)),
        Case(<<"x">>, Two("x", One32, "x", Two32)),
        Case(<<"x", "y">>, Three("x", One32, "y", Two32, "x", One32)),
        Case(<<"x", "y">>, Three("y", Two32, "x", One32, "x", Lit("3", "S32"))) >>

test_conflicting_column_binding_fact == Conflicting(LAMBDA b : Fact("p", b))
test_conflicting_column_binding_rule == Conflicting(LAMBDA b : Clause("p", b, NoBody))

Unrecognized(Make(_)) ==
  LET Case(bind) == Err(<<"UnrecognizedColumnBinding", "p", "y">>, Into(<<"x">>, Make(bind)))
  IN << Case(One("y", One32)), Case(Two("x", One32, "y", Two32)),
        Case(Two("y", Two32, "x", One32)) >>

test_unrecognized_column_binding_fact == Unrecognized(LAMBDA b : Fact("p", b))
test_unrecognized_column_binding_rule == Unrecognized(LAMBDA b : Clause("p", b, NoBody))

test_nonground_fact ==
  LET foo == Var("foo", "S32")
  IN << Err(<<"NonGroundFact", "p", "x", "foo">>, Into(<<"x">>, Fact("p", One("x", foo)))),
        Err(<<"NonGroundFact", "p", "y", "foo">>,
            Into(<<"x", "y">>, Fact("p", Two("x", One32, "y", foo)))) >>

Missing(Make(_)) ==
  LET Case(cols, c, bind) == Err(<<"ColumnMissing", "p", c>>, Into(cols, Make(bind)))
  IN << Case(<<"x">>, "x", <<>>), Case(<<"x", "y">>, "x", One("y", One32)),
        Case(<<"x", "y">>, "y", One("x", One32)) >>

test_column_missing_fact == Missing(LAMBDA b : Fact("p", b))
test_column_missing_rule == Missing(LAMBDA b : Clause("p", b, NoBody))

-----------------------------------------------------------------------------
(* Types.                                                                   *)

Conflict(r, c, v, t) == <<"ColumnValueTypeConflict", r, c, v, t>>

test_var_type_conflict_get_link_cid ==
  << Err(Conflict("links", "from", x0("S32"), "Cid"),
         Into(<<"x">>, Clause("p", One("x", x0("S32")),
              Search(<<Atom1("links", Two("from", x0("S32"), "to", x1("Cid")))>>)))) >>

test_var_type_conflict_get_link_value ==
  << Err(Conflict("links", "to", x0("S32"), "Cid"),
         Into(<<"x">>, Clause("p", One("x", x0("S32")),
              Search(<<Atom1("links", Two("from", Lit("c1", "Cid"), "to", x0("S32")))>>)))) >>

\* A column x of type t in p is bound to a literal of another type.
Literal(v, t, Make(_)) ==
  Err(Conflict("p", "x", v, t), << Out("p", << <<"x", t>> >>), Make(One("x", v)) >>)

test_column_value_type_conflict_fact_literal ==
  LET Case(v, t) == Literal(v, t, LAMBDA b : Fact("p", b))
  IN << Case(Lit("5", "S8"), "S32"), Case(Lit("foo", "String"), "Cid"),
        Case(Lit("f", "Char"), "String") >>

test_column_value_type_conflict_rule_head_literal ==
  LET Case(v, t) == Literal(v, t, LAMBDA b : Clause("p", b, NoBody))
  IN << Case(Lit("8", "U16"), "Bool"), Case(Lit("true", "Bool"), "U32"),
        Case(Lit("b", "String"), "Char") >>

\* From column x of q, of type s, into column y of p, of type t.
QIntoP(s, t, head, bind) ==
  << In("q", << <<"x", s>> >>), Out("p", << <<"y", t>> >>),
     Clause("p", One("y", head), Search(<<Atom1("q", One("x", bind))>>)) >>

test_column_value_type_conflict_rule_body_literal ==
  LET Case(v, t) == Err(Conflict("q", "x", v, t), QIntoP(t, t, x0(t), v))
  IN << Case(Lit("8", "U16"), "Bool"), Case(Lit("true", "Bool"), "U32"),
        Case(Lit("b", "String"), "Char") >>

test_column_value_type_conflict_rule_head_var ==
  << Err(Conflict("p", "y", x0("U32"), "Bool"), QIntoP("U32", "Bool", x0("U32"), x0("U32"))) >>

test_column_value_type_conflict_rule_body_var ==
  << Err(Conflict("q", "x", x0("Bool"), "U32"), QIntoP("U32", "Bool", x0("Bool"), x0("Bool"))) >>

test_column_value_type_conflict_rule_downcast_var ==
  LET b == x0("Bool")
      Body(bind) == Err(Conflict("q", "y", b, "U32"),
        << In("q", << <<"x", "Any">>, <<"y", "U32">> >>), Out("p", << <<"y", "Bool">> >>),
           Clause("p", One("y", b), Search(<<Atom1("q", bind)>>)) >>)
      IntoHead(v, c, t) == Err(Conflict("p", c, v, t),
        << In("q", << <<"x", "Any">> >>), Out("p", << <<"x", "U32">>, <<"y", "Bool">> >>),
           Clause("p", Two("x", v, "y", v), Search(<<Atom1("q", One("x", v))>>)) >>)
  IN << Body(Two("x", b, "y", b)), Body(Two("y", b, "x", b)),
        IntoHead(b, "x", "U32"), IntoHead(x0("U32"), "y", "Bool") >>

LiteralTypes ==
  <<"Bool", "S8", "U8", "S16", "U16", "S32", "U32", "S64", "U64", "Char", "String", "Cid">>

EachType(Make(_)) ==
  [i \in DOMAIN LiteralTypes |->
     Ok(<< Out("p", << <<"x", LiteralTypes[i]>> >>),
           Make(One("x", Lit("v", LiteralTypes[i]))) >>)]

test_fact_literal_types == EachType(LAMBDA b : Fact("p", b))
test_rule_head_literal_types == EachType(LAMBDA b : Clause("p", b, NoBody))

\* From an input of one type into an output of another, through a u32.
Cast(s, t) == Ok(<< In("q", << <<"x", s>> >>), Out("p", << <<"x", t>> >>),
                    Clause("p", One("x", x0("U32")), Search(<<Atom1("q", One("x", x0("U32")))>>)) >>)

test_downcast_into_head == << Cast("Any", "U32") >>
test_upcast_into_head == << Cast("U32", "Any") >>

-----------------------------------------------------------------------------
(* Predicates, aggregations and content addresses.                          *)

test_predicate ==
  LET Num(v) == Atom1("num", One("n", v))
  IN << Ok(<< In("num", <<S32("n")>>), Out("triangle", <<S32("a"), S32("b"), S32("c")>>),
              Clause("triangle", Three("a", x0("S32"), "b", x1("S32"), "c", x2("S32")),
                     [Search(<<Num(x0("S32")), Num(x1("S32")), Num(x2("S32"))>>)
                        EXCEPT !.preds = <<[fn |-> "is_triangle", vars |-> <<"x0", "x1", "x2">>]>>]) >>) >>

\* Into sum, from num under this group, with these searches.
Summed(search, bind, arg) ==
  << In("num", <<S32("n")>>), Out("sum", <<S32("n")>>),
     Clause("sum", One("n", x0("S32")),
            [Search(search) EXCEPT !.groups = Group(x0("S32"), "num", bind, "sum", <<arg>>)]) >>

test_aggregation == << Ok(Summed(<<>>, One("n", x1("S32")), "x1")) >>

test_variadic_aggregation ==
  << Ok(<< In("pair", <<S32("x"), S32("y")>>), Out("minSum", <<S32("n")>>),
           Clause("minSum", One("n", x0("S32")),
                  [NoBody EXCEPT !.groups =
                     Group(x0("S32"), "pair", Two("x", x1("S32"), "y", x2("S32")),
                           "sum_of_min", <<"x1", "x2">>)]) >>) >>

test_group_by_aggregation ==
  << Ok(<< In("product", <<S32("id"), S32("category"), S32("stock")>>),
           Out("categoryStock", <<S32("category"), S32("stock")>>),
           Clause("categoryStock", Two("category", x0("S32"), "stock", x1("S32")),
                  [Search(<<Atom1("product", One("category", x0("S32")))>>) EXCEPT !.groups =
                     Group(x1("S32"), "product", Two("category", x0("S32"), "stock", x2("S32")),
                           "sum", <<"x2">>)]) >>) >>

test_aggregation_unbound_group_by ==
  << Err(<<"ClauseNotRangeRestricted", "x", "x1">>,
         << In("pair", <<S32("x"), S32("y")>>), Out("ySum", <<S32("x"), S32("y")>>),
            Clause("ySum", Two("x", x1("S32"), "y", x0("S32")),
                   [NoBody EXCEPT !.groups =
                      Group(x0("S32"), "pair", Two("x", x1("S32"), "y", x2("S32")),
                            "sum", <<"x2">>)]) >>) >>

test_aggregation_bound_target ==
  << Err(<<"AggregationBoundTarget", "x0">>,
         Summed(<<Atom1("num", One("n", x0("S32")))>>, One("n", x1("S32")), "x1")) >>

test_aggregation_group_by_target == << Ok(Summed(<<>>, One("n", x0("S32")), "x0")) >>

\* An array of variables is a tuple of one type.
test_array == << Ok(Paths("S32")) >>
test_array_aggregation == << Ok(Summed(<<>>, One("n", x1("S32")), "x1")) >>
test_array_any == << Ok(Paths("Any")) >>

ByContent(r) == Search(<<[rel |-> r, cid |-> {x0("Cid")}, bind |-> <<>>]>>)

test_search_cid_edb ==
  << Ok(<< Out("p", << <<"x", "Cid">> >>), Clause("p", One("x", x0("Cid")), ByContent("evac")) >>) >>

test_search_cid_idb ==
  << Err(<<"ContentAddressedIDB", "q">>,
         << Out("q", <<>>), Out("p", << <<"x", "Cid">> >>),
            Clause("p", One("x", x0("Cid")), ByContent("q")) >>) >>

AllTests == FlattenSeq(<<
  test_tc, test_bind_one, test_get_link, test_stratifiable_negation, test_cyclic_negation,
  test_range_restriction, test_domain_independence, test_fact_edb, test_rule_edb,
  test_fact_unrecognized, test_rule_unrecognized, test_duplicate_input_declaration_column,
  test_duplicate_output_declaration_column, test_conflicting_declaration,
  test_conflicting_column_binding_fact, test_conflicting_column_binding_rule,
  test_unrecognized_column_binding_fact, test_unrecognized_column_binding_rule,
  test_nonground_fact, test_column_missing_fact, test_column_missing_rule,
  test_var_type_conflict_get_link_cid, test_var_type_conflict_get_link_value,
  test_column_value_type_conflict_fact_literal,
  test_column_value_type_conflict_rule_head_literal,
  test_column_value_type_conflict_rule_body_literal,
  test_column_value_type_conflict_rule_head_var,
  test_column_value_type_conflict_rule_body_var,
  test_column_value_type_conflict_rule_downcast_var, test_fact_literal_types,
  test_rule_head_literal_types, test_downcast_into_head, test_upcast_into_head,
  test_predicate, test_aggregation, test_variadic_aggregation, test_group_by_aggregation,
  test_aggregation_unbound_group_by, test_aggregation_bound_target,
  test_aggregation_group_by_target, test_array, test_array_aggregation, test_array_any,
  test_search_cid_edb, test_search_cid_idb >>)
=============================================================================
