--------------------------------- MODULE VM ---------------------------------
(***************************************************************************)
(* runtime/vm.rs with ram/statement/*.rs: the machine that evaluates a      *)
(* lowered program, one statement per step, epoch by epoch.                 *)
(*                                                                         *)
(* Between two calls of step_epoch the owner (the reactor) pushes input     *)
(* facts and pops output facts: phase = "idle".  A call of step_epoch is    *)
(* the run of steps from StartEpoch until phase is "idle" again.  Nothing   *)
(* interleaves with it in the program (it takes &mut self); the steps are   *)
(* kept apart because what each of them must preserve is the question.      *)
(*                                                                         *)
(* Programs is a set of RAM programs under names (LowerToRam describes the  *)
(* statements); one of them is picked when the machine is made.             *)
(***************************************************************************)
EXTENDS Integers, Sequences, FiniteSets, Kernel

CONSTANTS
  Programs,     \* program name -> sequence of statements
  Relations,    \* the names of the declared relations
  Facts,        \* facts [rel |-> relation, args |-> column values]
  None,         \* the None of pc.inner
  TimestampMod, \* 2^32: PairTimestamp holds two u32
  MaxEpoch,     \* bound: no epoch starts at this timestamp or later
  MaxInput      \* bound on the facts pushed for one epoch

ASSUME ConstantAssumption ==
  /\ None \notin Nat
  /\ TimestampMod \in Nat \ {0}
  /\ MaxEpoch \in Nat
  /\ MaxInput \in Nat
  /\ \A f \in Facts : f.rel \in Relations

Versions == {"New", "Delta", "Total"}
Keys == Relations \X Versions

\* A statement other than a loop, as the lowering makes them: facts stay in
\* their relation, and nothing is taken out of Total.
SimpleStatement(s) ==
  /\ s.op \in {"sources", "insert", "merge", "swap", "purge", "exit", "sinks"}
  /\ s.op = "sources" => s.relations \subseteq Relations
  /\ s.op = "insert" => /\ s.into \in Keys
                        /\ \A row \in s.rows : row.head \in Facts /\ row.head.rel = s.into[1]
  /\ s.op = "merge" => s.from \in Keys /\ s.into \in Keys /\ s.from[1] = s.into[1]
  /\ s.op = "swap"  => /\ s.left \in Keys /\ s.right \in Keys /\ s.left[1] = s.right[1]
                       /\ s.left[2] # "Total" /\ s.right[2] # "Total"
  /\ s.op = "purge" => s.key \in Keys /\ s.key[2] # "Total"
  /\ s.op = "exit"  => s.keys \subseteq Keys
  /\ s.op = "sinks" => s.relations \subseteq Relations

\* Sources comes first and only there, loops are not nested and not empty, and
\* exits are in loops.
WellFormed(code) ==
  /\ Len(code) \in Nat \ {0}
  /\ code[1].op = "sources"
  /\ \A i \in 1..Len(code) :
       /\ code[i].op = "sources" => i = 1
       /\ code[i].op # "loop" => SimpleStatement(code[i]) /\ code[i].op # "exit"
       /\ code[i].op = "loop" =>
            /\ Len(code[i].body) \in Nat \ {0}
            /\ \A j \in 1..Len(code[i].body) :
                 SimpleStatement(code[i].body[j]) /\ code[i].body[j].op # "sources"

ASSUME ProgramAssumption == \A p \in DOMAIN Programs : WellFormed(Programs[p])

VARIABLES
  program,    \* name of the RAM program
  timestamp,  \* [epoch, iteration]
  pc,         \* [outer, inner]: statement, and statement of the loop it is
  input,      \* facts pushed and not yet taken by Sources
  output,     \* what each Sinks wrote and nobody popped: a sequence of sets,
              \* a set being popped in the unspecified order of its relation
  rel,        \* the contents of each version of each relation
  phase,      \* "idle", or "epoch" inside a call of step_epoch
  sunk        \* history: the epochs in which each fact was written to output

vars == <<program, timestamp, pc, input, output, rel, phase, sunk>>
store == <<output, rel, sunk>>

Code == Programs[program]

ClockStart == [epoch |-> 0, iteration |-> 0]

\* The facts that the program's sources accept.
InputFacts(p) == {f \in Facts : f.rel \in Programs[p][1].relations}

Init ==
  /\ program \in DOMAIN Programs
  /\ timestamp = ClockStart
  /\ pc = [outer |-> 0, inner |-> None]
  /\ input = <<>>
  /\ output = <<>>
  /\ rel = [k \in Keys |-> {}]
  /\ phase = "idle"
  /\ sunk = [f \in Facts |-> <<>>]

-----------------------------------------------------------------------------
(* Fetching the statement at pc and stepping pc.                            *)

Outer == Code[pc.outer + 1]

\* load_statement's errors, and the loop inside a loop that step refuses.
LoadFault ==
  \/ pc.outer >= Len(Code)
  \/ /\ Outer.op = "loop"
     /\ \/ pc.inner = None
        \/ pc.inner >= Len(Outer.body)
        \/ Outer.body[pc.inner + 1].op = "loop"

Current == IF Outer.op = "loop" THEN Outer.body[pc.inner + 1] ELSE Outer

\* An inner counter outside a loop: step_pc's error, load_statement's
\* debug_assert; and the debug_assert of step on an exit.
StepFault ==
  \/ pc.inner # None /\ Outer.op # "loop"
  \/ pc.inner = None /\ Current.op = "exit"

\* sources.rs: "relation not found".
SourceFault ==
  Current.op = "sources" /\ \E i \in DOMAIN input : input[i].rel \notin Current.relations

\* step returns Err, or panics: the reactor ends with it, so no step follows.
Fault == LoadFault \/ StepFault \/ SourceFault

\* Mutant of StepPc: a loop is entered without an inner counter.
StepPcFlat(inner) ==
  [outer |-> IF inner = None THEN (pc.outer + 1) % Len(Code) ELSE pc.outer,
   inner |-> IF inner = None THEN None ELSE (inner + 1) % Len(Outer.body)]

\* step_pc from the given inner counter.
StepPc(inner) ==
  IF inner = None
  THEN LET next == (pc.outer + 1) % Len(Code)
       IN  [outer |-> next,
            inner |-> IF Code[next + 1].op = "loop" /\ next # 0 THEN 0 ELSE None]
  ELSE [outer |-> pc.outer, inner |-> (inner + 1) % Len(Outer.body)]

\* Mutant of AdvanceEpoch: the iteration is not reset.
AdvanceEpochOnly(t) == [t EXCEPT !.epoch = (@ + 1) % TimestampMod]

AdvanceEpoch(t) == [epoch |-> (t.epoch + 1) % TimestampMod, iteration |-> 0]
AdvanceIteration(t) == [t EXCEPT !.iteration = (@ + 1) % TimestampMod]

\* The tail of step, after a statement that asks to continue: move pc, advance
\* the clock, and leave step_epoch's loop when the epoch changed.
Continue(inner) ==
  /\ pc' = StepPc(inner)
  /\ timestamp' = IF pc'.outer = 0 THEN AdvanceEpoch(timestamp)
                  ELSE IF pc'.inner = 0 THEN AdvanceIteration(timestamp)
                  ELSE timestamp
  /\ phase' = IF timestamp'.epoch # timestamp.epoch THEN "idle" ELSE "epoch"
  /\ UNCHANGED program

\* The head of step: a statement of kind op was fetched without an error.
At(op) ==
  /\ phase = "epoch"
  /\ ~ Fault
  /\ Current.op = op

-----------------------------------------------------------------------------
(* The owner's calls.                                                       *)

\* VM::push.  The reactor pushes only relations that the preamble declares as
\* inputs, and pops every output of an epoch before it pushes again.
Push(f) ==
  /\ phase = "idle"
  /\ output = <<>>
  /\ f \in InputFacts(program)
  /\ Len(input) < MaxInput
  /\ input' = Append(input, f)
  /\ UNCHANGED <<program, timestamp, pc, phase, store>>

\* VM::pop.
Pop(f) ==
  /\ phase = "idle"
  /\ output # <<>>
  /\ f \in Head(output)
  /\ output' = IF Head(output) = {f} THEN Tail(output)
               ELSE [output EXCEPT ![1] = @ \ {f}]
  /\ UNCHANGED <<program, timestamp, pc, input, rel, phase, sunk>>

\* The call of VM::step_epoch.
StartEpoch ==
  /\ phase = "idle"
  /\ output = <<>>
  /\ timestamp.epoch < MaxEpoch
  /\ phase' = "epoch"
  /\ UNCHANGED <<program, timestamp, pc, input, store>>

-----------------------------------------------------------------------------
(* The statements.                                                          *)

\* Mutant of Given: every input goes to every relation.
GivenToAll(r) == {f \in Facts : \E i \in DOMAIN input : input[i] = f}

\* The inputs of relation r.
Given(r) == {f \in Facts : f.rel = r /\ \E i \in DOMAIN input : input[i] = f}

\* Takes every input into its relation's Delta.  An epoch without inputs stops
\* here, pc and clock where they are, unless it is the first one.
HandleSources ==
  /\ At("sources")
  /\ rel' = [k \in Keys |-> IF k[2] = "Delta" THEN rel[k] \cup Given(k[1]) ELSE rel[k]]
  /\ input' = <<>>
  /\ IF input # <<>> \/ [timestamp EXCEPT !.iteration = 0] = ClockStart
     THEN Continue(pc.inner)
     ELSE phase' = "idle" /\ UNCHANGED <<program, timestamp, pc>>
  /\ UNCHANGED <<output, sunk>>

\* What a search or a not_in formula looks for, and where.
Occurs(pattern, version) ==
  \E f \in rel[<<pattern.rel, version>>] : Matches(f, pattern)

Group(agg) == {f \in rel[<<agg.group.rel, "Total">>] : Matches(f, agg.group)}

\* The searches of a row and the formulae on them hold.
Reached(row) ==
  /\ \A s \in row.search : Occurs(s[1], s[2])
  /\ \A a \in row.absent : ~ Occurs(a[1], a[2])

\* Mutants of Fires: a search does not constrain the ones around it; an
\* aggregation is taken at its word.
FiresLoosely(row) ==
  /\ row.search # {} => \E s \in row.search : Occurs(s[1], s[2])
  /\ \A a \in row.absent : ~ Occurs(a[1], a[2])
  /\ \A g \in row.aggs : g.value = Aggregate(g.fn, Group(g), g.cols)

FiresUncounted(row) == Reached(row)

\* A row of an insert survives its searches, its formulae and its
\* aggregations, and is projected.
Fires(row) ==
  /\ Reached(row)
  /\ \A g \in row.aggs : g.value = Aggregate(g.fn, Group(g), g.cols)

\* An aggregation that is reached panics: no step follows.
InsertPanics ==
  \E row \in Current.rows : (\E g \in row.aggs : Panics(g.fn, Group(g))) /\ Reached(row)

\* Mutant of FirstCycle: the first cycle of any epoch.
FirstCycleOfEpoch == timestamp.iteration = 0

FirstCycle == timestamp = ClockStart

\* Ground facts are skipped unless the clock still is where it started.
HandleInsert ==
  /\ At("insert")
  /\ ~ InsertPanics
  /\ rel' = IF Current.ground /\ ~ FirstCycle THEN rel
            ELSE [rel EXCEPT ![Current.into] =
                    @ \cup {row.head : row \in {r \in Current.rows : Fires(r)}}]
  /\ Continue(pc.inner)
  /\ UNCHANGED <<input, output, sunk>>

\* Mutant of HandleMerge: the target is replaced.
HandleMergeOver ==
  /\ At("merge")
  /\ rel' = [rel EXCEPT ![Current.into] = rel[Current.from]]
  /\ Continue(pc.inner)
  /\ UNCHANGED <<input, output, sunk>>

HandleMerge ==
  /\ At("merge")
  /\ rel' = [rel EXCEPT ![Current.into] = @ \cup rel[Current.from]]
  /\ Continue(pc.inner)
  /\ UNCHANGED <<input, output, sunk>>

HandleSwap ==
  /\ At("swap")
  /\ rel' = [rel EXCEPT ![Current.left] = rel[Current.right],
                        ![Current.right] = rel[Current.left]]
  /\ Continue(pc.inner)
  /\ UNCHANGED <<input, output, sunk>>

HandlePurge ==
  /\ At("purge")
  /\ rel' = [rel EXCEPT ![Current.key] = {}]
  /\ Continue(pc.inner)
  /\ UNCHANGED <<input, output, sunk>>

\* Leaves the loop when every relation of the exit is empty.
HandleExit ==
  /\ At("exit")
  /\ Continue(IF \A k \in Current.keys : rel[k] = {} THEN None ELSE pc.inner)
  /\ UNCHANGED <<input, store>>

\* Writes the Delta of the stratum's relations to the output.
HandleSinks ==
  /\ At("sinks")
  /\ LET batch == UNION {rel[<<r, "Delta">>] : r \in Current.relations}
     IN  /\ output' = IF batch = {} THEN output ELSE Append(output, batch)
         /\ sunk' = [f \in Facts |-> IF f \in batch THEN Append(sunk[f], timestamp.epoch)
                                     ELSE sunk[f]]
  /\ Continue(pc.inner)
  /\ UNCHANGED <<input, rel>>

Step ==
  \/ HandleSources
  \/ HandleInsert
  \/ HandleMerge
  \/ HandleSwap
  \/ HandlePurge
  \/ HandleExit
  \/ HandleSinks

Next ==
  \/ \E f \in Facts : Push(f)
  \/ \E f \in Facts : Pop(f)
  \/ StartEpoch
  \/ Step

\* step_epoch runs to its end once it is called; nothing obliges the owner to
\* call it.
Spec == Init /\ [][Next]_vars /\ WF_vars(Step)

-----------------------------------------------------------------------------
(* What holds of every well-formed program.                                 *)

\* The type invariant.
TypeOK ==
  /\ program \in DOMAIN Programs
  /\ timestamp \in [epoch : 0..(TimestampMod - 1), iteration : 0..(TimestampMod - 1)]
  /\ pc \in [outer : Nat, inner : Nat \cup {None}]
  /\ input \in Seq(Facts) /\ Len(input) <= MaxInput
  /\ output \in Seq(SUBSET Facts)
  /\ rel \in [Keys -> SUBSET Facts]
  /\ \A k \in Keys : \A f \in rel[k] : f.rel = k[1]
  /\ phase \in {"idle", "epoch"}
  /\ sunk \in [Facts -> Seq(0..(TimestampMod - 1))]

\* step_epoch returns no InternalRhizomeError and trips no debug_assert: pc is
\* always at a statement (of a loop, inside a loop) and every input that was
\* pushed has a source (vm.rs: step, step_pc, load_statement; sources.rs).
NoFault == phase = "epoch" => ~ Fault

\* However step_epoch was left, at the end of the program or early at the
\* sources, the next call finds the clock at the start of an epoch (its
\* debug_assert) and pc on the sources.
EpochStartsClean ==
  phase = "idle" => timestamp.iteration = 0 /\ pc = [outer |-> 0, inner |-> None]

\* No fact that was once known is lost, in the middle of an epoch either
\* (merge.rs, swap.rs and purge.rs on the Total of a relation).
TotalGrows ==
  [][\A r \in Relations : rel[<<r, "Total">>] \subseteq rel'[<<r, "Total">>]]_vars

\* A search holds the read lock of its relation while the nested operations
\* run, and the project at the bottom takes the write lock of the relation it
\* fills: a statement that searched the relation it fills would wait for
\* itself (search.rs, project.rs).
NoSelfLock ==
  (phase = "epoch" /\ Current.op = "insert") =>
    \A row \in Current.rows : \A s \in row.search : <<s[1].rel, s[2]>> # Current.into
=============================================================================
