# rs-rhizome in TLA+

rs-rhizome is an incremental Datalog engine. A program is built, stratified and
lowered to a small relational machine code (RAM); a virtual machine runs that
code once per *epoch* over the facts inserted since the last one; an
asynchronous reactor feeds the machine from a client and from streams and hands
what it derives to sinks. This directory holds TLA+ models of the builder, the
compiler, the machine, the reactor, the indexed relations and the worker pool,
the configurations that check them with TLC, and proofs that TLAPS checks about
the builder, the lowering, the machine, the reactor and the worker pool.

    tlc -config eval_model.cfg MCEvaluation        # one run
    tlapm VM_proofs.tla                            # the proofs of a module

All paths below are relative to `src/`; `R/` stands for `rhizome/src/`.

## The system

| Component | State | Operations | Interacts with |
|---|---|---|---|
| Builder `R/logic/builder` | the declarations and clauses so far | `input`, `output`, `fact`, `rule`; validation | makes the AST |
| Stratify `R/logic/stratify.rs` | none | `stratify` | AST to strata, or `ProgramUnstratifiable` |
| Lowering `R/logic/lower_to_ram.rs` | three versions of each relation, shared by the statements under `RwLock`s | `lower_to_ram` | strata to statements |
| VM `R/runtime/vm.rs` | timestamp, pc, input and output queues, the relations | `push`, `pop`, `step_epoch` | owned by the reactor |
| RAM `R/ram` | none but the relations | a statement or an operation each | called by the VM |
| Relations `R/relation` | facts; indexes in Hexastore and Bistore | `insert`, `contains`, `search`, `merge`, `purge` | behind the locks |
| Client `R/runtime/client.rs` | the command channel | `insert_fact`, `register_sink`, `register_stream`, `flush` | a command and a oneshot for its reply |
| Reactor `R/runtime/reactor.rs` | VM, sinks, channels, block store | `async_run` | client, sink and stream tasks, event listener |
| Worker pool `rhizome-runtime` | workers with task counts | `spawn_pinned` | runs the sink and stream tasks |
| Block store `R/storage` | blocks by content address | `put`, `get` | written by the reactor |
| Bindings, macros, examples | | | wrap the above |

What is hard in it:

- **Semi-naive evaluation across epochs.** Each rule runs against every choice
  of Delta and Total; Delta is what changed in this round, and at the end of a
  stratum *everything known*. Deriving too little, emitting twice, keeping an
  old Delta, and loops that do not end are one misplaced statement away.
- **The machine's control.** `step_epoch` is re-entered at a pc and a clock
  that the last call left, at the end of the program or early at the sources.
- **Negation and aggregation.** Nothing is taken back, so what a later epoch
  contradicts stays; an aggregate is found anew when what it is joined with
  changes, and an input is counted an epoch later than it arrives.
- **The order of terms.** Each rewrite of a rule is ordered by which variables
  are bound; a formula, a guard or a group evaluated too early is wrong for some
  contents of the relations only.
- **The builder's checks.** They look at a body as a whole, in an order of their
  own; the lowering panics where they let something through.
- **Indexes.** A hexastore keeps each tuple in six nested indexes and answers
  each pattern of bound columns from another one; merges walk two of them at once.
- **Workers.** Tasks are placed by counts that are read without a lock.
- **Tasks and channels.** Client, reactor, listener and each sink and stream
  meet in bounded channels; a reply may have nobody to go to; a sink may die; a
  flush races the epoch it is meant to cover.

Not concurrent: the builder, the compiler and one call of `step_epoch`. Nothing
is persisted, so there is no recovery from a crash.

What makes each component correct: *stratify* gives an order in which every
relation comes after what it reads, and rejects exactly negation through
recursion; the *builder* accepts only safe clauses and gives each mistake its
error; *lowering* preserves the meaning of the program; the *VM* computes
that meaning epoch by epoch, emits each new fact in the epoch that derives it,
loses nothing and stops; the *reactor* evaluates everything acknowledged,
delivers everything emitted, answers every call and bounds every channel; the
*relations* are sets of tuples whatever index answers; the *worker pool* starts
every task and spreads them evenly.
`hazards` in PROJECT.json lists the places where this is hard to test, each
with the properties that cover it.

## The modules

               Selecting
                   ^
    Kernel <- Datalog <- Stratify <--+
                 ^  \-- TermOrder <--+- LowerToRam <-+- Evaluation <- MCEvaluation
                 |                        ^         |     ^    :
                 |   VM_proofs -> VM <----|---------+     |    : implements
                 |                        |            MCTests Engine
            RuntimeTests <----------------|---------------+    ^ instantiated by
                                          |     Selecting <- Reactor <- MCReactor
                      Builder <- Compile -+
                         ^          ^
                    BuilderTests <- MCCompile

    RelationSet <.. implements .. IndexedRelation <- MCIndexedRelation
    WorkerPool_proofs -> WorkerPool <- MCWorkerPool

    Reactor          <- Reactor_proofs
    Selecting        <- Selecting_proofs, which Reactor_proofs and
                        Rules_proofs use
    LowerToRam       <- Rules_proofs, which Builder_proofs and
                        Lowering_proofs use
    Compile          <- Builder_proofs
    Evaluation       <- Lowering_proofs <- Fixpoint_proofs
                        Lowering_proofs -> VM_proofs

**Kernel** (`R/kernel/math`, `R/aggregation.rs`, `R/predicate.rs`). What a
running program computes on values: the match of a fact with a pattern, the
aggregates, the predicates and aggregates that the tests define.

**Datalog** (`R/logic/ast`). Facts, rules with relational predicates, negations,
predicates over variables and aggregations, and the ground instances of a rule
over a finite domain; `PerfectModel`, the reference meaning of a stratified
program. A content address is a column like any other, `cid`.

`Proper` is what the builder guarantees of a program as data: finitely many
relations, inputs and outputs apart, every clause about an output. `SafeRule` is
what it guarantees of the variables of a rule: those of predicates and negations are
searched, those of the head searched or aggregated into.

**Selecting**. `Keep(s, S)`, the elements of `s` in `S`, in order: what
`SelectSeq` does, as a function so that it can be proved about. `MCReactor` has
TLC compare the two.

**Stratify** (`R/logic/stratify.rs`). `Dependencies` is the edge list of
`clause_depends_on`, `Stratifiable` the test for a negative edge inside a
component, and `StrataOrders` *every* order of strata that `kosaraju_scc`,
which depends on the order of the clauses, may yield once reversed. `edb` nodes
give strata without statements and are left out.

**TermOrder** (`R/logic/lower_to_ram.rs` 815-935). The semi-naive rewrites,
`order_terms` with the filter and the priorities of `select_term`, where it
panics (`Stuck`), and which formulae are ever evaluated (`Evaluated`: those
attached to an aggregation are not).

**LowerToRam** (the rest of `R/logic/lower_to_ram.rs`, constructors from
`R/ram/statement`). The statements in the code's order. The nest of operations
under an insert is a table of ground rows: `search` holds the patterns, each with
the version it is looked up in, `absent` the `not_in` formulae, `aggs` the groups
with the value each must have, `head` what the project writes. This abstracts
aliases and binding keys. It keeps the order of terms wherever it shows: which version is
read when, what an aggregation's group is constrained by, which formulae are
dropped, which column a repeated variable is bound to, and where the head is
looked up in Total. The arguments of an aggregate come in any order (`ArgCols`), that of
a `HashMap`. Orders that come from a `HashSet` are fixed where they
commute (`ForEach`).

**VM** (`R/runtime/vm.rs`, `R/ram/statement/*.rs`, `R/timestamp.rs`). One
action per handler (`HandleSources` ... `HandleSinks`), each the whole of
`step`: fetch, apply, `step_pc`, clock (`Continue`). `Push`, `Pop` and
`StartEpoch` are the owner's calls, `phase` tells whether it is inside
`step_epoch`. `Fault` is the disjunction of every error and `debug_assert` of
`step`, `step_pc`, `load_statement` and the sources. A relation is a set of
facts per version. The output is a sequence of sets: within one `Sinks` the
order is the relation's. `sunk` is history. The module is written for *any* set
of well-formed programs (`WellFormed`, the shape `lower_to_ram` gives its
output), which is what the proofs quantify over; every run extends it, so TLC
evaluates `ProgramAssumption` on every program lowered.

**Engine**: the promise of the machine to its owner. Facts are submitted, an
evaluation turns all of them into the model at once, and what became true can be
taken.

**Evaluation** composes VM and LowerToRam (`LoweredAssumption`: the machine's
programs are the lowerings of `Proper` Datalog programs of `SafeRule`s along an order of
their strata, which `ProgramIsSafe` of Compile says of the builder's; `FactsAssumption`: a fact has a value in every column of its relation), compares what the machine
holds and emits with the reference, and states the refinement
`Abstract!Spec`: an evaluation happens at the step that takes the inputs; while
the statements work the model out, the engine already has it.

**Reactor** (`R/runtime/reactor.rs`, `R/runtime/client.rs`). `at` is where
`async_run` is: in `select!` or the drain loop, sending a flush, joining its
handles, delivering the output, sending the event, or ended with one of its
errors. The evaluation is the Engine's, instantiated, with an output order chosen
freely and each fact emitted up to `MaxCopies` times, as EmittedAtMostTwice
allows the machine to do. Every channel keeps its
messages; a send to a full one parks the sender as futures' `mpsc` does (the
message is in the channel, `send().await` completes once it is unparked), so a
channel holds at most its buffer and one message per sender. Each sink is a task
with its channel, the fact it holds and the log of what the user's sink
accepted. A call is a command and a oneshot; `Cancel` drops the latter, `Die` is
a return of `Err` from `async_run`, which also fails the call under way; `dropped`
is history: some call was.
`SingleThread` is tokio's default in tests: the client does not run while the
reactor is between two awaits that do not wait.

**Builder** (`R/logic/builder`). The state is the declarations, the accepted
clauses and the verdict; an action is a call of `input`, `output`, `fact` or
`rule`. `Complaints` holds every check of the call with its place in the code's
order, and `First` the errors that may be returned: several where a `HashMap`
decides. `bound_vars` is a function of the body (`Searched`, `SearchedType`,
`IsTarget`, `TargetType`), each later entry overwriting the one before.

**Compile** puts builder, stratification and lowering together, as
`R/logic/builder/mod.rs` does in `build`: the AST of the clauses accepted, and
what acceptance guarantees to the lowering. `ClausesAssumption` says what a call may
be (`IsCall`): sequences of bindings, a target that is a variable, and, because the
AST here has names only and keeps a content address as a column, no literal that is
named like a variable of its rule and no column named `cid`. Nothing in it is about
what the builder checks.

**BuilderTests** and **RuntimeTests** are the closures, programs, inputs and
assertions of the repository's tests (`R/logic/builder/mod.rs`,
`R/runtime/mod.rs`, `rhizome-tokio/src/lib.rs`) and of the key-value store
(`examples/kv.rs`, `rhizome-tokio/examples/cid.rs`).

**RelationSet** is the `Relation` trait as the statements use it and as
`OrdSetRelation` implements it: versions that are sets of tuples.
**IndexedRelation** (`R/relation/hexastore.rs`, `R/relation/bistore.rs`) holds
the same tuples in nested maps, one nest per order of the columns. The two
stores differ in their tables alone (`Hexastore`, `Bistore`), which a run
chooses from.
`Walk` is the two cursors of `index_merge_layer`; the result of a search is the
set of the tuples found. The VM model's relations are such sets.

**WorkerPool** (`rhizome-runtime/src/tokio.rs`). A spawner's scan is one action
per count it reads (`Begin`, `Scan`), the guard's `fetch_add` another
(`Enroll`), the send of the job a third (`Post`). A worker's loop puts jobs on
its `LocalSet` (`Start`), where tasks spawn others (`SpawnLocal`) and end
(`Finish`, a return or a panic). The one that spawns need not be counted itself: it may
be a future spawned with `tokio::task::spawn_local`, which can outlive the job that
made it, so all that `SpawnLocal` asks is that some task has run there (`visited`).

**MCEvaluation**, **MCReactor**, **MCIndexedRelation** and **MCWorkerPool** hold
the programs and values for TLC. **MCTests** pushes the inputs of a test in its
order and starts an epoch wherever the reactor could, also before the first of them: the
reactor starts one after any command, and a sink is registered first; **MCCompile** makes the
calls of a test's closure, or declares a small schema and adds one rule of a pool.

**VM_proofs**, **Lowering_proofs**, **Fixpoint_proofs**, **Builder_proofs**,
**Reactor_proofs** and **WorkerPool_proofs** hold the theorems, **Selecting_proofs**
and **Rules_proofs** lemmas for them. `map` in PROJECT.json names the lines each definition
models. Operators called *Mutant of ...* in a comment are the plausible
mistakes that each property is shown to detect; no specification uses them.

## The runs

| Run | What it shows | Bounds |
|---|---|---|
| eval_model | Without negation: after each epoch the Total relations are exactly the least model of all inputs so far (`FixpointIsModel`). With it: exact in the first epoch (`FirstEpochIsModel`), later closed under the rules and supported by them (`ClosedUnderRules`, `SupportedByRules`). Nothing is left in New and Delta (`ScratchIsEmpty`); exactly the derived facts have been emitted (`EmittedIsDerived`), each in one epoch (`EmittedInOneEpoch`) and there at most twice (`EmittedAtMostTwice`); no error, clean re-entry, no self-deadlock, nothing lost | programs linear, nonlinear, mutual, layered, negated, wild, every order of strata; domain of 3; 3 epochs; 2 inputs each |
| eval_tests | The programs of the runtime's tests, and the store: with all inputs in one epoch each derives what its test asserts, those without negation and aggregation also however the reactor splits the inputs (`TestsDerive`); however they are split, the store holds what the example asserts after each flush (`StoreAgrees`); the first epoch gives the model, an aggregation over inputs counting those of earlier epochs (`FirstEpochIsModel`); an aggregation alone in its rule has its current value (`AggregatesAreCurrent`); every epoch ends, but for the one without input that a mean over integers begins with, where `finalize` divides by zero and panics (`EpochsEnd`) | the tests' own values; 2 epochs, 4 for the client's test, 6 for the store |
| compile | The build ends as each of the 45 tests asserts (`TestsAgree`); accepted clauses are safe (`ClausesAreSafe`) and make a program as the rest assumes it (`ProgramIsSafe`); `order_terms` finds a ready term each time and binds the head (`LoweringIsTotal`); values found with a type are projected into columns of that type (`HeadsAreTyped`); over every content of Delta and Total the rewrites of a rule derive exactly what its meaning derives from the new facts (`RewritesFindTheNew`) | the tests' closures; some 5,500 rules of up to two searches, a negation, a predicate and an aggregation; relations of up to `MaxFacts` facts |
| eval_engine | `ImplementsEngine` | linear and mutual; domain of 2 |
| eval_late | finding 1 | |
| reactor_tasks | `FlushBarrier`, `ChannelsBounded` with a stream, two sinks, a listener, several threads | 4 calls, two sinks of two relations, stream buffer 0 and the others 1 |
| reactor_single | `FlushCoversInserts` and `SinkGetsAll` on one thread, facts that go to two sinks, duplicates in the output | 4 calls, two sinks of one relation and one of another, buffers 1 |
| reactor_failures | with cancellation, failing sinks and a vanishing listener: `DiesOfPeers` (a reply fails only if some call was dropped), and the liveness of calls, inserts and streams | one sink, one stream, one input, stream and event buffers 0 and the others 1, 3 calls |
| reactor_flush, reactor_cancel | findings 2 and 3 | |
| stores | `ImplementsRelation`: insert, merge and purge act on the indexes as on a set of tuples. `LookupsAgree`: every pattern of bound columns, and `len`, `is_empty` and `contains`, give the answer of that set | 7 tuples for the hexastore and 6 for the bistore, 2 versions; all reachable contents |
| worker_pool | `CountsAreTasks`; `Balanced`: of tasks that stay, no worker has more than another by more than the number of spawners (two spawners do reach 2); `EveryTaskRuns` | 3 workers, 2 spawners, 4 tasks and a nested one |

Why these bounds suffice. *Epochs and inputs*: three epochs are the first (where
ground facts count), one after it, and one after an epoch that was not the first;
two inputs per epoch let both predicates of a rule change in one epoch or in two
different ones, and include pushing the same fact again. *Programs*: the linear
and non-linear closure, two relations recursive through each other with a ground
fact that a rule derives too, and three strata that feed each other cover every
branch of the lowering modelled; three constants make paths that take two
iterations, and a cycle. The tests run with the values they were written with,
so nothing in them is scaled down but their epochs. *Rules*: two searches are the
fewest with a rewrite that reads both Delta and Total; with a negation, a
predicate and an aggregation beside them, every priority of `select_term`
competes with every other, and variables of type Any, repeated ones and searches
by content occur. Relations of more than `MaxFacts` facts are left out because
every content of Delta and of Total is tried. *Calls*: four calls allow two inserts, a registration and a
flush in every order, three allow one of each; with failures one of them comes
after the failure. *Buffers*: the code uses 1
(commands, events), 10 (streams) and 100 (sinks); they are 0 or 1 here, because
what matters is being at the limit. *Tuples*: their keys are
chosen so that, in each layer, a merge meets a key that only the left one, only
the right one, and both have, in either order, and two tuples differ in the cid
alone. *Workers*: three of them let a scan replace its choice twice or keep it,
and break off at a worker without tasks. `TimestampMod` is 2^32 in the code; the
safety runs use 2^16 (TLC's integers are 32 bits wide) and never come near it,
`eval_tests` uses 8, more than its loops take and its epochs count, so that a loop that
does not end is a finite cycle of states. `CHECK_DEADLOCK FALSE` is set because the systems do stop: the epochs
and calls are bounded, a reactor may end, and the pool has no more tasks to place.

**Fairness.** VM: `WF(Step)`, because a call of `step_epoch` runs to its end;
nothing obliges the owner to call. Reactor: weak fairness of the reactor's step,
of the return of a call, of each sink and stream task, and of the listener, for an executor runs every task
that is woken, the user's sink is assumed to complete its sends, and every
example receives the events in a loop. There is none for the client's calls,
`Cancel`, `Leave`, `SinkFails` and `StopListening`. The fairness of the reactor
is on the disjunction: which of several ready futures `select!` picks is not
assumed fair. WorkerPool: spawners and workers are threads, so `WF` of a
spawner's steps once it began and of a worker's `Start`; no task need finish.

## The findings

1. *Ground facts after a loop are never inserted* (`eval_late`,
   `R/runtime/vm.rs:189`). Ground facts are inserted only while the clock is at
   its start; the loop of an earlier stratum advances it in the first epoch.
   The programs of the passing runs have their ground facts in strata before a
   loop or in the first loop.
2. *A flush can overtake the inserts before it* (`reactor_flush`,
   `R/runtime/reactor.rs:107`). It is answered in the drain loop, before the
   epoch. On one thread it cannot, which `reactor_single` shows; `FlushBarrier`
   is what holds in general.
3. *Dropping the future of a call ends the reactor* (`reactor_cancel`,
   `R/runtime/reactor.rs:154`) with the error that says it is a bug.

## What is proved

`Builder_proofs` proves, for every set of calls and any order of them:

- `BuilderSafe`: `Spec => []ClausesAreSafe`;
- `BuilderProgram`: `Spec => []ProgramIsSafe`;
- `BuilderLowers`: `Spec => []LoweringIsTotal`;
- `BuilderTypes`: `Spec => []HeadsAreTyped`;
- `BuilderTyped`: `Spec => []TypeOK`.

`ClausesAreSafe` is inductive once two facts are known of a step: an
accepted call has none of the complaints (`AcceptedIsSafe`, from one lemma per
group of checks: searches, predicates, negations, aggregations, heads, columns),
and a later declaration, which never replaces one, leaves the columns and so the
bound variables of the clauses accepted before as they are (`StaysSafe`).
`ClausesFit` adds that no search binds a column twice, without which the AST, a
`HashMap`, would lose a variable that `bound_vars` has, and that heads are typed: a
variable found in columns of one type has that type in `bound_vars`, whichever of
its binders comes last (`LastBinder`, `FoundIsBound`), and the head was checked against it.
From the clause to the AST, `NamesOfVars` and `SearchedIs` say that the variables of an atom
are those of its bindings, so that a safe clause gives a safe rule (`RuleIsSafe`).

That a safe rule can be lowered is shown in `Rules_proofs`, for every rule: as long as
terms are left, one of them is ready (`LeftIsReady`: a search always is, and when all the searches
are placed so is everything else), so each round of `order_terms` places one
(`SafeOrder`), and what is placed has bound all its variables (`SafeBinds`).
Hence Evaluation need not assume that terms can be ordered, only `SafeRule`.
The assumptions are `CallsAssumption` (`input` and `output` are the only ways to
declare) and `ClausesAssumption`.

`VM_proofs` proves, for every set of well-formed programs, every set of
relations and facts, every clock width and every bound:

- `TypeCorrect`: `Spec => []TypeOK`;
- `NeverFaults`: `Spec => []NoFault`, no error and no failed assertion;
- `StartsClean`: `Spec => []EpochStartsClean`;
- `NothingIsLost`: `Spec => TotalGrows`.

None of the first three is inductive alone: that the next call starts cleanly depends on
where the last one stopped, and that a statement can be fetched depends on pc
being one that `step_pc` makes. `IInv` adds to `TypeOK`:

- `PcOK`: pc is a statement of the program and has an inner counter exactly
  inside a loop (and then within it);
- `ClockOK`: the iteration is 0 at the sources;
- `IdleOK`: outside `step_epoch` pc is at the sources;
- `InputOK`: every queued input has a relation the sources take.

`Faultless` derives `~ Fault` from it, so each statement's step can use that it
was fetched; `ContinueControl` shows once that `Continue` preserves the control
part, and the `...Rel` lemmas that each effect on the relations keeps them
typed. `StepKeepsTotal` is the argument for `TotalGrows`: swap and purge do not
name a Total in a well-formed program. The assumptions are `ConstantAssumption`
and `ProgramAssumption`; TLC evaluates both on every lowered program.

`Lowering_proofs` is about the machine on what the compiler makes, for every
program that is `Proper` and every order of its strata (`LoweredAssumption`, which
TLC evaluates on every program lowered):

- `LoweredIsWellFormed`: the lowering is `WellFormed`, so that all of the above
  holds of it. It follows the code of the lowering from the rows up; the strata
  are taken from `StrataOrders`, not from a run of `kosaraju_scc`.
- `NeverWaitsForItself`: `Spec => []NoSelfLock`. A rule writes New and reads Delta
  and Total, or writes Delta and reads no relation of its own stratum.
- `NothingIsLeftOver`: `Spec => []ScratchIsEmpty`, and `EmitsWhatItDerives`:
  `Spec => []EmittedIsDerived`. What holds of a relation changes with each
  statement, so the invariant (`LabelInv`) gives each relation a *label* at each
  statement of the program: whether Delta and New are known to be empty, and how
  what was written to the output is related to Total and Delta (`silent`,
  `closed`, `open`, `merged`, `sunk`, `fed`). `After` is the label after a statement,
  `AfterHolds` shows that it is right, one lemma per kind of effect.
  `Runs(l, code, m)` says that a piece of code leads from a label to another; it
  composes along concatenations and flattenings as the lowering does, and a loop
  has a label of its head that its body comes back to (`LoopRuns`). `CodeRuns`
  then says that the whole program leads from the label at rest (`Home`) to itself.

`Fixpoint_proofs` is about what these programs compute, however their inputs are
split into epochs and whatever the order of the strata:

- `NothingIsMissed`: `Spec => []ClosedUnderRules`;
- `EveryFactHasSupport`: `Spec => []SupportedByRules`;
- `FixpointIsTheModel`: `Spec => [](GroundFactsKnown => FixpointIsModel)`, and
  `WithoutGroundFacts`: `Spec => []FixpointIsModel` for programs that have none;
- `EmittedOnce`: `Spec => []EmittedInOneEpoch`, and `EmittedTwice`:
  `Spec => []EmittedAtMostTwice`.

A label says of a relation only what does not depend on its facts. Here the
assertions are sets of *worlds* (`Worlds`: what the relations hold, what was
written to the output and the epoch). A statement goes from one set of worlds to
another (`Goes`; a loop by assertions around its body, `Circles`), and a `Course` is the
sequence of assertions along a piece of code. Courses compose as the lowering
does. A plan gives each program the worlds before its first epoch and between
epochs; the invariant, `PlanInv`, says that the machine's world is in the
assertion at pc. That a step keeps it
(`NextPlan`) is shown once, so that each property is a matter of the course of one
program:

- *Nothing is missed.* Between strata (`Between`) the rules of the finished ones
  are satisfied, these feed all of Total to the others through Delta, and an instance of a
  later rule whose body is found in Total alone was satisfied before (`Old`). Inside a stratum this becomes, in turn,
  `Waiting`, `Readied` (its rules that do not read it are done), `Looped` (a round: whatever an
  instance derives is known or in New) and `Settled`. It rests on
  `RewriteFinds`: whichever of its predicates an instance is to find in Delta, if there is
  one, some rewrite of its rule has a row that looks for just these there (`RewriteFor`: the masks
  run through all the non-empty sets of searches).
- *Emission.* The argument is about one fact `g` at a time; statements about other
  relations leave alone what matters for it (`Aloof`, `SameFor`). `Once`: what was
  written was written in one epoch and is known; `Fresh`: what is in Delta
  before its stratum was not written; `Opening` to `Renewed` follow `g` through the
  loop, where it may be derived again for as long as it is in Delta but not in Total.
- *Support.* `Yields(source, W, V)`: V knows no less than W and its outputs hold
  nothing but what they held or what an instance of a rule gives from what is
  known (`Earned`). Sets of worlds kept by `Yields` are kept by the whole
  program, whatever they say (`IsJust`), so only the sets have to be looked at:
  `Backed` (all that is held is earned) is one, and `Sound` (all that is held is in
  every closed set over the inputs) another.
- *The model.* `Iterates` and `IsLeast` show that the rounds of `LeastModel` do reach the least
  closed set, `Tower` that a model on top of a model is the least closed set of both
  strata, since what a stratum adds is only about its own relations. By
  `Sound` the fixpoint is no more than that, by `ClosedUnderRules` no less.

Hypotheses, beside those of Evaluation, and why each theorem has them:
`MaxEpoch < TimestampMod` for emission (a clock that wraps to its start inserts
the ground facts again); `ReadsOnce` for support and for the model: no variable
stands in two columns of an atom searched, because the code constrains only one of them (`RepeatsVariable` of
Compile is the same exclusion); for support also that no rule
has both aggregations and predicates, because formulae at an aggregation are never
evaluated; `IsFiniteSet(Facts)`, without which `LeastModel` would not end.
`GroundFactsKnown` is what finding 1 refutes: a ground fact that was not
inserted is the only way in which a fixpoint can differ from the model. The
programs of `MCEvaluation` satisfy all of these.

`Reactor_proofs` proves, first, `BackPressure`: `Spec => []ChannelsBounded`, for any
buffers and any number of sinks, streams and inserts, with failures and dropped
calls. A bound alone is not inductive: a channel may be over its buffer, so the
invariant says which sender waits for it. There is one part per channel, each
inductive by itself: the client calls only when `commands` has room
(`CommandsInv`); the arrivals exceed the buffer by no more than the streams in
`parked`, each there once (`ArrivalsInv`); the events only while the reactor is
at `"event"` (`EventsInv`); a sink's channel only while the reactor sends and has
it in `parkedOn` (`SinksInv`, with `AllUnparked`: once the last send completed no
channel is over).

It then proves what the reactor delivers, in the same generality:

- `ReactorTyped`: `Spec => []TypeOK`;
- `SinksGetAll`: `Spec => []SinkGetsAll`;
- `FlushIsBarrier`: `Spec => []FlushBarrier`;
- `EndsOfPeers`: `Spec => []DiesOfPeers`;
- `FlushCovers`: `Spec => []FlushCoversInserts` if client and reactor share a thread
  and the engine is `Monotone` (TLC evaluates the latter for the engine of the runs).

The invariant, `ReactorInv`, adds to the channels: the commands in the queue are
in the order they were called, and one that is answered is no longer there
(`CallInv`, `QueueInv`); no sink is registered twice (`RegisteredInv`); what is derived has been
emitted or is in the output being delivered (`OutInv`); whom the reactor is sending to
(`TaskInv`); and for each sink that its log, the fact it holds, its channel and
what it is still to be sent, put together, are exactly the facts of its relation
emitted since it registered (`DeliveryInv`, on `FlowInv`), and that nothing of
these is left when it has acknowledged a flush (`FlushInv`). `PeersInv` and
`PatientInv` say what each end of the reactor implies, and what a client that
drops no call can rely on. `ThreadInv` adds what one thread gives: from the drain
loop with no command left the only way on is the epoch (`DrainStep`).
The assumption is `ReactorAssumption`: finitely many streams, buffers that are
naturals, `None` and `Flush` different from every fact and sink.

`WorkerPool_proofs` proves, for any number of workers and any spawners and tasks:

- `CountsAreExact`: `Spec => []CountsAreTasks`. It needs `OnePlace`: a task is
  unborn, with one spawner, once in one queue, or running - otherwise a job that
  starts might already be counted among the running ones;
- `TasksAreSpread`: `Spec => []Balanced`, for finitely many spawners. A spawner acts on
  counts that have changed since it read them; `Spread` says by how much a count
  may still be exceeded: once some worker has `k` tasks, another has more than
  `k` only by one task per spawner, less one for each that still is to act on a
  count of at most `k` (`Stale`).

`Selecting_proofs` has the lemmas on `Keep`. They, and those on `FlattenSeq`,
`Reachable` and `OrderTerms`, are by induction on a set of naturals, which
TLAPS can do for recursive functions; the induction theorems of the library,
which take an operator, it cannot use.

Only model-checked: the first epoch of programs with negation or aggregation
(`FirstEpochIsModel`), that the rewrites of a rule, with aggregations or without, find
exactly what is new (`RewritesFindTheNew`; `RewriteFinds` proves of rules without
aggregations that they find all of it), the verdicts and assertions of the tests, the
refinement of the Engine, the indexed relations (their layers are RECURSIVE
operators, without which they would not be readable), and all liveness: fairness
and ENABLED are outside TLAPS.

## What is not modelled

Conversions of values, arithmetic other than on small integers, and a value at
run time that is not of its column's type (predicates and aggregates panic on
one); a closure that ignores an error of the builder and goes on; aliases and
binding keys; an insert into a Hexastore or Bistore that misses a column, which
fails; the end of a worker pool that is dropped (the default one lives as long
as the program); the block store (written, never read by the evaluation); the
WebAssembly bindings; macros, printing, benchmarks and the console of `kv.rs`.
The links of an inserted fact go with it in one step.

Hazards without a property, with their reason, are in PROJECT.json: a stream that
is always ready, the wrap of the clock, a variable repeated in one predicate, the type of a
variable that is also found in a column of type Any, and, of aggregations, formulae that
are dropped, a guard on the head that is ignored, arguments outside the group and their
order. Where such a rule is in the domain of a property, the property excludes it by a
named definition (`LosesFormula`, `RepeatsVariable`, `Guarded`, and in `HeadIsTyped`
that a variable is found with one type).

## Plan

What remains, the most important first.

1. *Refinement*: `ImplementsEngine` from `FixpointIsTheModel`, whose invariant
   already says what the relations hold between statements.
2. *First epoch*: `FirstEpochIsModel`, for which `Sound` and `Between` would have to
   say that a stratum's negations are settled when it begins.
3. *Composition* of the reactor with the machine on a program with aggregations,
   so that `StoreAgrees` is stated over what the sink receives.
