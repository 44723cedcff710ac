----------------------------- MODULE Evaluation -----------------------------
(***************************************************************************)
(* The compiler and the machine together: the VM runs the lowering of       *)
(* Datalog programs, and what it holds and emits is compared with what the  *)
(* programs mean.                                                           *)
(***************************************************************************)
EXTENDS VM, LowerToRam

\* For each program name, the Datalog program and the strata it was lowered by.
CONSTANT Ast

\* What the rules of a program can write, in whichever version.
RowsOf(source) ==
  UNION {insert.rows : insert \in UNION {ToSet(LowerRule(r, "New")) : r \in ToSet(source.rules)}}

ASSUME LoweredAssumption ==
  /\ DOMAIN Programs = DOMAIN Ast
  /\ \A n \in DOMAIN Ast :
       /\ Proper(Ast[n].source)
       /\ Ast[n].source.edb \cup Ast[n].source.idb \subseteq Relations
       /\ Ast[n].source.facts \subseteq Facts
       /\ \A row \in RowsOf(Ast[n].source) : row.head \in Facts
       /\ Stratifiable(Ast[n].source)
       /\ Ast[n].strata \in StrataOrders(Ast[n].source)
       /\ \A r \in ToSet(Ast[n].source.rules) : SafeRule(r)
       /\ Programs[n] = LowerToRam(Ast[n].source, Ast[n].strata)

\* Facts are tuples of the columns of their relation: each has a value in every
\* one, which the builder sees to (fact.rs, ColumnMissing).
ASSUME FactsAssumption ==
  /\ \A f \in Facts : f = Atom(f.rel, [c \in DOMAIN f.args |-> f.args[c]])
  /\ \A r \in Relations :
       LET about == {f \in Facts : f.rel = r}
       IN  \E columns \in {DOMAIN f.args : f \in about} \cup {{}} :
             \A f \in about : DOMAIN f.args = columns

Source == Ast[program].source

TotalOf(relations) == UNION {rel[r, "Total"] : r \in relations}

\* step_epoch has completed at least one epoch and is not running, and its
\* owner has popped every output.
AtFixpoint == phase = "idle" /\ timestamp # ClockStart /\ output = <<>>

-----------------------------------------------------------------------------
(* What the relations hold.                                                 *)

\* Programs whose derived facts can only become more when inputs are added.
Monotone(source) ==
  \A r \in ToSet(source.rules) : r.neg = <<>> /\ r.aggs = <<>>

\* When an epoch is over, the Total relations hold exactly the model of the
\* program over all the input facts of this and earlier epochs, however they
\* were split into epochs (lower_to_ram.rs: the semi-naive rewrites, the loop
\* and its exit, the end-of-epoch merge; vm.rs: step_epoch).
FixpointIsModel ==
  (AtFixpoint /\ Monotone(Source)) =>
    TotalOf(Source.edb \cup Source.idb)
      = PerfectModel(Ast[program].strata, TotalOf(Source.edb))

\* With negations and aggregations the facts of earlier epochs are never taken
\* back, so the model is reached exactly only in the first epoch.  There an
\* aggregation over an input relation still sees none of the inputs, which
\* reach Total at the end of the epoch (lower_to_ram.rs, the Version::Total of
\* an aggregation and the merge of the sources at the end of the program) ...
FirstEpochIsModel ==
  (AtFixpoint /\ timestamp.epoch = 1) =>
    TotalOf(Source.edb \cup Source.idb)
      = ModelCounting(Ast[program].strata, TotalOf(Source.edb), {})

\* ... but after every epoch each rule without aggregations whose body holds in
\* Total has its head in Total: no consequence of a fact that came late is
\* missed.
ClosedUnderRules ==
  AtFixpoint =>
    \A r \in {s \in ToSet(Source.rules) : s.aggs = <<>>} :
      LET known == TotalOf(Source.edb \cup Source.idb)
      IN  Consequences(Instances(r), known, known, {}) \subseteq known

\* ... and each fact it holds is a ground fact or was derived by an instance
\* of a rule whose positive body it still holds.
SupportedByRules ==
  AtFixpoint =>
    LET known == TotalOf(Source.edb \cup Source.idb)
        Positive(i) == [i EXCEPT !.aggs = {}]
    IN  TotalOf(Source.idb) \subseteq
          Source.facts \cup
          UNION {Consequences({Positive(i) : i \in Instances(r)}, known, {}, {}) :
                    r \in ToSet(Source.rules)}

\* Between epochs New and Delta are empty: nothing of one epoch is taken for
\* news by the next (the purges of lower_to_ram, the exit of the loop).
ScratchIsEmpty ==
  phase = "idle" => \A r \in Relations : rel[r, "New"] = {} /\ rel[r, "Delta"] = {}

\* The ground facts of the program are known after the first epoch ("Only
\* insert ground facts on the first clock cycle", vm.rs handle_insert).
GroundFactsKnown ==
  AtFixpoint => Source.facts \subseteq TotalOf(Source.idb)

-----------------------------------------------------------------------------
(* What the sinks are given.                                                *)

\* By the end of an epoch every derived fact has been written to the output,
\* and nothing else has.
EmittedIsDerived ==
  phase = "idle" => {f \in Facts : sunk[f] # <<>>} = TotalOf(Source.idb)

\* The relations all of whose rules drop a row with a known head: not those of
\* a rule whose head is only complete after an aggregation or before any
\* search, which is evaluated and projected anew in every epoch.
Guarded ==
  {r \in Source.idb : \A c \in ToSet(Source.rules) :
     c.head.rel = r => c.pos # <<>> /\ VarsOf(c, c.head) \subseteq SearchedVars(c)}

\* A fact is written in the epoch that derives it and never again in a later
\* one, although every epoch feeds Total back into Delta for later strata.
\* What was written stays in sunk: looking at it between epochs is enough.
EmittedInOneEpoch ==
  phase = "idle" =>
    \A r \in Guarded : \A f \in Facts : f.rel = r =>
      \A i, j \in DOMAIN sunk[f] : sunk[f][i] = sunk[f][j]

\* Inside that epoch it may be written again: a row is checked against Total
\* only, so a fact still in Delta can be derived into New.  Once, not more.
EmittedAtMostTwice ==
  phase = "idle" => \A r \in Guarded : \A f \in Facts : f.rel = r => Len(sunk[f]) <= 2

-----------------------------------------------------------------------------
(* The machine implements the engine.  An evaluation happens at the step     *)
(* that takes the inputs: from there to the end of the epoch the engine      *)
(* already has the model that the statements are working out.                *)

Evaluating == phase = "epoch" /\ pc.outer # 0

Taken == UNION {rel[r, v] : r \in Source.edb, v \in {"Delta", "Total"}}

DerivedFrom(name, edb) ==
  LET model[known \in SUBSET Facts] == PerfectModel(Ast[name].strata, known) \ known
  IN  model[edb]

Derived == IF Evaluating THEN DerivedFrom(program, Taken) ELSE TotalOf(Source.idb)

\* What is derived and not yet written counts as written.
Unread == (UNION ToSet(output)) \cup {f \in Derived : sunk[f] = <<>>}

Abstract ==
  INSTANCE Engine WITH
    Names   <- DOMAIN Programs,
    Inputs  <- InputFacts,
    Model   <- DerivedFrom,
    pending <- ToSet(input),
    base    <- Taken,
    derived <- Derived,
    unread  <- Unread

\* Every behaviour of the machine is one of the engine: no submitted fact is
\* lost, an epoch leads from one model to the next, and what can be popped is
\* what became true and was not popped yet.
ImplementsEngine == Abstract!Spec
=============================================================================
