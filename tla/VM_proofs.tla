----------------------------- MODULE VM_proofs -----------------------------
(***************************************************************************)
(* Theorems about the VM, for every well-formed program, any facts and any  *)
(* width of the clock.                                                      *)
(***************************************************************************)
EXTENDS VM, TLAPS

\* pc is at a statement of the program, and has an inner counter exactly
\* inside a loop.
PcOK ==
  /\ pc.outer < Len(Code)
  /\ Outer.op = "loop" => pc.inner \in 0..(Len(Outer.body) - 1)
  /\ Outer.op # "loop" => pc.inner = None

\* At the sources the clock is at the start of an epoch.
ClockOK == pc.outer = 0 => timestamp.iteration = 0

\* step_epoch is left at the sources.
IdleOK == phase = "idle" => pc.outer = 0

\* What was pushed has a source.
InputOK == \A i \in 1..Len(input) : input[i].rel \in Code[1].relations

Control == PcOK /\ ClockOK /\ IdleOK /\ InputOK

\* The inductive invariant.
IInv == TypeOK /\ Control

ControlType ==
  /\ program \in DOMAIN Programs
  /\ timestamp \in [epoch : 0..(TimestampMod - 1), iteration : 0..(TimestampMod - 1)]
  /\ pc \in [outer : Nat, inner : Nat \cup {None}]
  /\ phase \in {"idle", "epoch"}

StoreType ==
  /\ output \in Seq(SUBSET Facts)
  /\ rel \in [Keys -> SUBSET Facts]
  /\ \A k \in Keys : \A f \in rel[k] : f.rel = k[1]
  /\ sunk \in [Facts -> Seq(0..(TimestampMod - 1))]

InputType == input \in Seq(Facts) /\ Len(input) <= MaxInput

-----------------------------------------------------------------------------

\* A remainder is below the modulus.
LEMMA Remainder == \A n \in Nat \ {0}, a \in Nat : a % n \in 0..(n - 1)
  OBVIOUS

\* The statement at pc, under the invariant: one that WellFormed describes.
LEMMA AtStatement ==
  ASSUME IInv
  PROVE  /\ WellFormed(Code)
         /\ Len(Code) \in Nat \ {0}
         /\ pc.outer + 1 \in 1..Len(Code)
         /\ Outer.op = "loop" => /\ Len(Outer.body) \in Nat \ {0}
                                 /\ pc.inner \in Nat
                                 /\ pc.inner + 1 \in 1..Len(Outer.body)
         /\ ~ LoadFault
         /\ SimpleStatement(Current)
<1>1. WellFormed(Code) /\ Len(Code) \in Nat \ {0}
  BY ProgramAssumption DEF IInv, TypeOK, Code, WellFormed
<1>2. pc.outer \in Nat /\ pc.outer + 1 \in 1..Len(Code)
  BY <1>1 DEF IInv, TypeOK, Control, PcOK
<1>3. CASE Outer.op = "loop"
  <2>1. Len(Outer.body) \in Nat \ {0} /\ pc.inner \in 0..(Len(Outer.body) - 1)
    BY <1>1, <1>2, <1>3 DEF WellFormed, Outer, IInv, Control, PcOK
  <2>2. pc.inner + 1 \in 1..Len(Outer.body) /\ pc.inner # None
    BY <2>1, ConstantAssumption
  <2>3. SimpleStatement(Outer.body[pc.inner + 1])
    BY <1>1, <1>2, <1>3, <2>2 DEF WellFormed, Outer
  <2>4. Outer.body[pc.inner + 1].op # "loop"
    BY <2>3 DEF SimpleStatement
  <2> QED BY <1>1, <1>2, <1>3, <2>1, <2>2, <2>3, <2>4 DEF LoadFault, Current
<1>4. CASE Outer.op # "loop"
  <2>1. SimpleStatement(Outer)
    BY <1>1, <1>2, <1>4 DEF WellFormed, Outer
  <2> QED BY <1>1, <1>2, <1>4, <2>1 DEF LoadFault, Current
<1> QED BY <1>3, <1>4

\* Under the invariant no step errs.
LEMMA Faultless == IInv => ~ Fault
<1> SUFFICES ASSUME IInv PROVE ~ Fault
  OBVIOUS
<1>1. ~ LoadFault
  BY AtStatement
<1>2. ~ StepFault
  <2>1. Outer.op # "loop" => pc.inner = None
    BY DEF IInv, Control, PcOK
  <2>2. pc.inner = None => Current.op # "exit"
    <3>1. Outer.op # "loop" => Outer.op # "exit"
      BY AtStatement DEF WellFormed, Outer
    <3>2. Outer.op = "loop" => pc.inner # None
      BY AtStatement, ConstantAssumption
    <3> QED BY <3>1, <3>2 DEF Current
  <2> QED BY <2>1, <2>2 DEF StepFault
<1>3. ~ SourceFault
  <2> SUFFICES ASSUME Current.op = "sources"
               PROVE  \A i \in DOMAIN input : input[i].rel \in Current.relations
    BY DEF SourceFault
  <2>1. Outer.op # "loop"
    BY AtStatement DEF WellFormed, Outer, Current
  <2>2. Current = Code[1]
    BY <2>1, AtStatement DEF WellFormed, Outer, Current
  <2>3. DOMAIN input = 1..Len(input)
    BY DEF IInv, TypeOK
  <2> QED BY <2>2, <2>3 DEF IInv, Control, InputOK
<1> QED BY <1>1, <1>2, <1>3 DEF Fault

\* The tail of a step leads to another statement, and out of step_epoch only
\* to the sources at the start of an epoch.
LEMMA ContinueControl ==
  ASSUME IInv, NEW inner, inner = pc.inner \/ inner = None, Continue(inner)
  PROVE  ControlType' /\ PcOK' /\ ClockOK' /\ IdleOK' /\ Code' = Code
<1> USE DEF IInv
<1>0. program' = program /\ Code' = Code
  BY DEF Continue, Code
<1>1. /\ Len(Code) \in Nat \ {0} /\ pc.outer \in Nat /\ pc.outer + 1 \in 1..Len(Code)
      /\ Code[1].op = "sources"
  BY AtStatement DEF TypeOK, WellFormed
<1>2. pc' = StepPc(inner)
  BY DEF Continue
<1>3. pc' \in [outer : Nat, inner : Nat \cup {None}] /\ PcOK'
  <2>1. CASE inner = None
    <3> DEFINE next == (pc.outer + 1) % Len(Code)
    <3>1. next \in 0..(Len(Code) - 1)
      <4>1. pc.outer + 1 \in Nat
        BY <1>1
      <4> QED BY ONLY <1>1, <4>1, Remainder
    <3>2. pc' = [outer |-> next,
                 inner |-> IF Code[next + 1].op = "loop" /\ next # 0 THEN 0 ELSE None]
      BY <1>2, <2>1 DEF StepPc
    <3>3. Outer' = Code[next + 1]
      BY <1>0, <3>2 DEF Outer
    <3>4. Code[next + 1].op = "loop" => next # 0 /\ Len(Code[next + 1].body) \in Nat \ {0}
      <4>1. next + 1 \in 1..Len(Code) /\ WellFormed(Code)
        BY <1>1, <3>1, AtStatement
      <4>2. next = 0 => Code[next + 1].op = "sources"
        BY <1>1
      <4> QED BY <4>1, <4>2, Zenon DEF WellFormed
    <3> HIDE DEF next
    <3> QED BY <1>0, <1>1, <3>1, <3>2, <3>3, <3>4 DEF PcOK
  <2>2. CASE inner # None
    <3>1. inner = pc.inner /\ Outer.op = "loop"
      BY <2>2 DEF Control, PcOK
    <3>2. Len(Outer.body) \in Nat \ {0} /\ pc.inner \in Nat
      BY <3>1, AtStatement
    <3> DEFINE next == (pc.inner + 1) % Len(Outer.body)
    <3>3. next \in 0..(Len(Outer.body) - 1)
      <4>1. pc.inner + 1 \in Nat
        BY <3>2
      <4> QED BY ONLY <3>2, <4>1, Remainder
    <3>4. pc' = [outer |-> pc.outer, inner |-> next]
      BY <1>2, <2>2, <3>1 DEF StepPc
    <3>5. Outer' = Outer
      BY <1>0, <3>4 DEF Outer
    <3> HIDE DEF next
    <3> QED BY <1>0, <1>1, <3>1, <3>3, <3>4, <3>5 DEF PcOK
  <2> QED BY <2>1, <2>2
<1>4. /\ timestamp' \in [epoch : 0..(TimestampMod - 1), iteration : 0..(TimestampMod - 1)]
      /\ pc'.outer = 0 => timestamp'.iteration = 0
      /\ pc'.outer # 0 => timestamp'.epoch = timestamp.epoch
  <2>1. (timestamp.epoch + 1) % TimestampMod \in 0..(TimestampMod - 1)
    <3>1. timestamp.epoch + 1 \in Nat /\ TimestampMod \in Nat \ {0}
      BY ConstantAssumption DEF TypeOK
    <3> QED BY ONLY <3>1, Remainder
  <2>2. (timestamp.iteration + 1) % TimestampMod \in 0..(TimestampMod - 1)
    <3>1. timestamp.iteration + 1 \in Nat /\ TimestampMod \in Nat \ {0}
      BY ConstantAssumption DEF TypeOK
    <3> QED BY ONLY <3>1, Remainder
  <2>3. 0 \in 0..(TimestampMod - 1)
    BY ConstantAssumption
  <2>4. CASE pc'.outer = 0
    <3>1. timestamp' = [epoch |-> (timestamp.epoch + 1) % TimestampMod, iteration |-> 0]
      BY <2>4 DEF Continue, AdvanceEpoch
    <3> QED BY <2>1, <2>3, <2>4, <3>1
  <2>5. CASE pc'.outer # 0 /\ pc'.inner = 0
    <3>1. timestamp' = [timestamp EXCEPT !.iteration = (@ + 1) % TimestampMod]
      BY <2>5 DEF Continue, AdvanceIteration
    <3> QED BY <2>2, <2>5, <3>1 DEF TypeOK
  <2>6. CASE pc'.outer # 0 /\ pc'.inner # 0
    BY <2>6 DEF Continue, TypeOK
  <2> QED BY <2>4, <2>5, <2>6
<1>5. phase' \in {"idle", "epoch"} /\ IdleOK'
  BY <1>4 DEF Continue, IdleOK
<1> QED BY <1>0, <1>3, <1>4, <1>5 DEF ControlType, ClockOK, TypeOK

-----------------------------------------------------------------------------
(* What the statements do to the relations.                                 *)

KeepsTotal == \A r \in Relations : rel[<<r, "Total">>] \subseteq rel'[<<r, "Total">>]

RelType(versions) == /\ versions \in [Keys -> SUBSET Facts]
                   /\ \A k \in Keys : \A f \in versions[k] : f.rel = k[1]

\* Facts added to one relation, of that relation: nothing is lost.
LEMMA Adding ==
  ASSUME RelType(rel), NEW key \in Keys, NEW more \in SUBSET Facts,
         \A f \in more : f.rel = key[1],
         rel' = [rel EXCEPT ![key] = @ \cup more]
  PROVE  RelType(rel') /\ KeepsTotal
<1>1. rel' \in [Keys -> SUBSET Facts]
  BY DEF RelType
<1>2. \A k \in Keys : rel'[k] = IF k = key THEN rel[k] \cup more ELSE rel[k]
  BY DEF RelType
<1>3. \A k \in Keys : \A f \in rel'[k] : f.rel = k[1]
  BY <1>2 DEF RelType
<1>4. \A r \in Relations : <<r, "Total">> \in Keys
  BY DEF Keys, Versions
<1>5. KeepsTotal
  <2>1. \A k \in Keys : rel[k] \subseteq rel'[k]
    BY <1>2
  <2> QED BY <2>1, <1>4 DEF KeepsTotal
<1> QED BY <1>1, <1>3, <1>5 DEF RelType

\* An insert adds facts of the relation it fills (insert.rs).
LEMMA InsertRel ==
  ASSUME IInv, HandleInsert
  PROVE  RelType(rel') /\ KeepsTotal
<1> DEFINE more == {row.head : row \in {r \in Current.rows : Fires(r)}}
<1>1. RelType(rel)
  BY DEF IInv, TypeOK, RelType
<1>2. Current.into \in Keys /\ more \in SUBSET Facts /\ \A f \in more : f.rel = Current.into[1]
  BY AtStatement DEF HandleInsert, At, SimpleStatement
<1>3. CASE rel' = rel
  BY <1>1, <1>3 DEF RelType, KeepsTotal
<1>4. CASE rel' = [rel EXCEPT ![Current.into] = @ \cup more]
  <2> HIDE DEF more
  <2> QED BY <1>1, <1>2, <1>4, Adding
<1> QED BY <1>3, <1>4 DEF HandleInsert

\* A merge adds the facts of another version (merge.rs).
LEMMA MergeRel ==
  ASSUME IInv, HandleMerge
  PROVE  RelType(rel') /\ KeepsTotal
<1>1. RelType(rel)
  BY DEF IInv, TypeOK, RelType
<1>2. Current.into \in Keys /\ Current.from \in Keys /\ Current.from[1] = Current.into[1]
  BY AtStatement DEF HandleMerge, At, SimpleStatement
<1>3. rel[Current.from] \in SUBSET Facts /\ \A f \in rel[Current.from] : f.rel = Current.into[1]
  BY <1>1, <1>2 DEF RelType
<1>4. rel' = [rel EXCEPT ![Current.into] = @ \cup rel[Current.from]]
  BY DEF HandleMerge
<1> QED BY <1>1, <1>2, <1>3, <1>4, Adding

\* A swap exchanges two scratch versions of a relation (swap.rs).
LEMMA SwapRel ==
  ASSUME IInv, HandleSwap
  PROVE  RelType(rel') /\ KeepsTotal
<1>1. RelType(rel)
  BY DEF IInv, TypeOK, RelType
<1>2. /\ Current.left \in Keys /\ Current.right \in Keys /\ Current.left[1] = Current.right[1]
      /\ Current.left[2] # "Total" /\ Current.right[2] # "Total"
  BY AtStatement DEF HandleSwap, At, SimpleStatement
<1>3. \A k \in Keys : rel'[k] = IF k = Current.right THEN rel[Current.left]
                                ELSE IF k = Current.left THEN rel[Current.right]
                                ELSE rel[k]
  BY <1>1, <1>2 DEF HandleSwap, RelType
<1>4. rel' \in [Keys -> SUBSET Facts]
  BY <1>1, <1>2 DEF HandleSwap, RelType
<1>5. \A k \in Keys : \A f \in rel'[k] : f.rel = k[1]
  BY <1>1, <1>2, <1>3 DEF RelType
<1>6. \A r \in Relations : rel'[<<r, "Total">>] = rel[<<r, "Total">>]
  BY <1>2, <1>3 DEF Keys, Versions
<1> QED BY <1>4, <1>5, <1>6 DEF RelType, KeepsTotal

\* A purge empties a scratch version (purge.rs).
LEMMA PurgeRel ==
  ASSUME IInv, HandlePurge
  PROVE  RelType(rel') /\ KeepsTotal
<1>1. RelType(rel)
  BY DEF IInv, TypeOK, RelType
<1>2. Current.key \in Keys /\ Current.key[2] # "Total"
  BY AtStatement DEF HandlePurge, At, SimpleStatement
<1>3. \A k \in Keys : rel'[k] = IF k = Current.key THEN {} ELSE rel[k]
  BY <1>1, <1>2 DEF HandlePurge, RelType
<1>4. rel' \in [Keys -> SUBSET Facts]
  BY <1>1, <1>2 DEF HandlePurge, RelType
<1>5. \A r \in Relations : rel'[<<r, "Total">>] = rel[<<r, "Total">>]
  BY <1>2, <1>3 DEF Keys, Versions
<1> QED BY <1>1, <1>3, <1>4, <1>5 DEF RelType, KeepsTotal

\* The sources add inputs to the Deltas of their relations (sources.rs).
LEMMA SourcesRel ==
  ASSUME IInv, HandleSources
  PROVE  RelType(rel') /\ KeepsTotal
<1>1. RelType(rel)
  BY DEF IInv, TypeOK, RelType
<1>2. rel' = [k \in Keys |-> IF k[2] = "Delta" THEN rel[k] \cup Given(k[1]) ELSE rel[k]]
  BY DEF HandleSources
<1>3. \A k \in Keys : Given(k[1]) \in SUBSET Facts /\ \A f \in Given(k[1]) : f.rel = k[1]
  BY DEF Given
<1>4. \A r \in Relations : <<r, "Total">> \in Keys /\ <<r, "Total">>[2] # "Delta"
  BY DEF Keys, Versions
<1>5. \A k \in Keys : rel'[k] = IF k[2] = "Delta" THEN rel[k] \cup Given(k[1]) ELSE rel[k]
  BY <1>2
<1>6. rel' \in [Keys -> SUBSET Facts]
  BY <1>1, <1>2, <1>3 DEF RelType
<1>7. \A k \in Keys : \A f \in rel'[k] : f.rel = k[1]
  BY <1>1, <1>3, <1>5 DEF RelType
<1>8. KeepsTotal
  BY <1>4, <1>5 DEF KeepsTotal
<1> QED BY <1>6, <1>7, <1>8 DEF RelType

\* No step takes a fact out of a Total.
LEMMA StepKeepsTotal == IInv /\ [Next]_vars => KeepsTotal
<1> SUFFICES ASSUME IInv, [Next]_vars PROVE KeepsTotal
  OBVIOUS
<1>1. CASE UNCHANGED rel
  BY <1>1 DEF KeepsTotal
<1>2. CASE HandleSources
  BY <1>2, SourcesRel
<1>3. CASE HandleInsert
  BY <1>3, InsertRel
<1>4. CASE HandleMerge
  BY <1>4, MergeRel
<1>5. CASE HandleSwap
  BY <1>5, SwapRel
<1>6. CASE HandlePurge
  BY <1>6, PurgeRel
<1> QED
  BY <1>1, <1>2, <1>3, <1>4, <1>5, <1>6
  DEF Next, Step, vars, store, Push, Pop, StartEpoch, HandleExit, HandleSinks

-----------------------------------------------------------------------------
(* The invariant is inductive: one lemma for the owner's calls, one for the *)
(* statements.                                                              *)

\* The machine starts in the invariant ...
LEMMA InitInv == Init => IInv
<1> SUFFICES ASSUME Init PROVE IInv
  OBVIOUS
<1>1. WellFormed(Code)
  BY ProgramAssumption DEF Init, Code
<1>2. TypeOK
  <2>1. \A k \in Keys : rel[k] = {}
    BY DEF Init
  <2>2. rel \in [Keys -> SUBSET Facts]
    BY DEF Init
  <2>3. sunk \in [Facts -> Seq(0..(TimestampMod - 1))]
    BY ConstantAssumption DEF Init
  <2>4. input \in Seq(Facts) /\ Len(input) <= MaxInput /\ output \in Seq(SUBSET Facts)
    BY ConstantAssumption DEF Init
  <2> QED BY <2>1, <2>2, <2>3, <2>4, ConstantAssumption DEF TypeOK, Init, ClockStart
<1>3. Control
  BY <1>1 DEF Init, Control, PcOK, ClockOK, IdleOK, InputOK, WellFormed, Outer, ClockStart
<1> QED BY <1>2, <1>3 DEF IInv

\* ... push keeps it: what is pushed has a source ...
LEMMA PushInv ==
  ASSUME IInv, NEW f \in Facts, Push(f)
  PROVE  IInv'
<1> USE DEF IInv
<1>1. Code' = Code /\ pc' = pc /\ Outer' = Outer
  BY DEF Push, Code, Outer
<1>2. input \in Seq(Facts) /\ input' = Append(input, f) /\ Len(input) < MaxInput
  BY DEF Push, TypeOK
<1>3. input' \in Seq(Facts) /\ Len(input') <= MaxInput
  BY <1>2, ConstantAssumption
<1>4. TypeOK'
  BY <1>3 DEF Push, TypeOK, store
<1>5. \A i \in 1..Len(input') : input'[i].rel \in Code[1].relations
  <2>1. f.rel \in Code[1].relations
    BY DEF Push, InputFacts, Code
  <2> QED BY <1>2, <2>1 DEF Control, InputOK
<1>6. Control'
  BY <1>1, <1>5 DEF Push, Control, PcOK, ClockOK, IdleOK, InputOK
<1> QED BY <1>4, <1>6

\* ... pop does, which takes one fact of the oldest batch ...
LEMMA PopInv ==
  ASSUME IInv, NEW f \in Facts, Pop(f)
  PROVE  IInv'
<1> USE DEF IInv
<1>1. Code' = Code /\ Outer' = Outer
  BY DEF Pop, Code, Outer
<1>2. output' \in Seq(SUBSET Facts)
  <2>1. output \in Seq(SUBSET Facts) /\ output # <<>>
    BY DEF Pop, TypeOK
  <2>2. output[1] \in SUBSET Facts /\ 1 \in DOMAIN output
    BY <2>1
  <2>3. CASE output' = Tail(output)
    BY <2>1, <2>3
  <2>4. CASE output' = [output EXCEPT ![1] = @ \ {f}]
    <3>1. Len(output') = Len(output) /\ DOMAIN output' = 1..Len(output)
      BY <2>1, <2>4
    <3>2. \A i \in 1..Len(output) : output'[i] \in SUBSET Facts
      BY <2>1, <2>2, <2>4
    <3> QED BY <2>1, <2>2, <2>4, <3>1, <3>2
  <2> QED BY <2>3, <2>4 DEF Pop
<1>3. TypeOK'
  BY <1>2 DEF Pop, TypeOK
<1>4. Control'
  BY <1>1 DEF Pop, Control, PcOK, ClockOK, IdleOK, InputOK
<1> QED BY <1>3, <1>4

\* ... the call of step_epoch does ...
LEMMA StartInv ==
  ASSUME IInv, StartEpoch
  PROVE  IInv'
<1> USE DEF IInv
<1>1. Code' = Code /\ Outer' = Outer
  BY DEF StartEpoch, Code, Outer
<1>2. TypeOK'
  BY DEF StartEpoch, TypeOK, store
<1>3. Control'
  BY <1>1 DEF StartEpoch, store, Control, PcOK, ClockOK, IdleOK, InputOK
<1> QED BY <1>2, <1>3

\* A statement that continues preserves the invariant, given what it does to
\* the data.
LEMMA ContinueInv ==
  ASSUME IInv, NEW inner, inner = pc.inner \/ inner = None, Continue(inner),
         RelType(rel'), output' \in Seq(SUBSET Facts),
         sunk' \in [Facts -> Seq(0..(TimestampMod - 1))],
         input' = input \/ input' = <<>>
  PROVE  IInv'
<1>1. ControlType' /\ PcOK' /\ ClockOK' /\ IdleOK' /\ Code' = Code
  BY ContinueControl
<1>2. input' \in Seq(Facts) /\ Len(input') <= MaxInput /\ InputOK'
  <2>1. CASE input' = input
    BY <1>1, <2>1 DEF IInv, TypeOK, Control, InputOK
  <2>2. CASE input' = <<>>
    <3>1. Len(input') = 0
      BY <2>2
    <3> QED BY <2>2, <3>1, ConstantAssumption DEF InputOK
  <2> QED BY <2>1, <2>2
<1> QED BY <1>1, <1>2 DEF IInv, TypeOK, Control, ControlType, RelType

\* ... the sources do, whether the epoch goes on or stops there ...
LEMMA SourcesInv ==
  ASSUME IInv, HandleSources
  PROVE  IInv'
<1>1. RelType(rel') /\ output' = output /\ sunk' = sunk /\ input' = <<>>
  BY SourcesRel DEF HandleSources
<1>2. output \in Seq(SUBSET Facts) /\ sunk \in [Facts -> Seq(0..(TimestampMod - 1))]
  BY DEF IInv, TypeOK
<1>3. CASE Continue(pc.inner)
  BY <1>1, <1>2, <1>3, ContinueInv
<1>4. CASE phase' = "idle" /\ UNCHANGED <<program, timestamp, pc>>
  <2>1. Code' = Code /\ Outer' = Outer
    BY <1>4 DEF Code, Outer
  <2>2. Len(input') = 0 /\ input' \in Seq(Facts) /\ Len(input') <= MaxInput
    BY <1>1, ConstantAssumption
  <2>3. TypeOK'
    BY <1>1, <1>2, <1>4, <2>2 DEF IInv, TypeOK, RelType
  <2>4. pc.outer = 0
    <3>1. Outer.op # "loop"
      BY AtStatement DEF HandleSources, At, Current, WellFormed, Outer
    <3>2. Outer.op = "sources"
      BY <3>1 DEF HandleSources, At, Current
    <3> QED BY <3>2, AtStatement DEF WellFormed, Outer, IInv, TypeOK
  <2>5. Control'
    BY <1>4, <2>1, <2>2, <2>4 DEF IInv, Control, PcOK, ClockOK, IdleOK, InputOK
  <2> QED BY <2>3, <2>5 DEF IInv
<1> QED BY <1>3, <1>4 DEF HandleSources

\* ... the sinks do, which write the output and its history ...
LEMMA SinksInv ==
  ASSUME IInv, HandleSinks
  PROVE  IInv'
<1> DEFINE batch == UNION {rel[<<r, "Delta">>] : r \in Current.relations}
<1>1. batch \in SUBSET Facts
  <2>1. \A r \in Current.relations : <<r, "Delta">> \in Keys
    BY AtStatement DEF HandleSinks, At, SimpleStatement, Keys, Versions
  <2>2. \A k \in Keys : rel[k] \subseteq Facts
    BY DEF IInv, TypeOK
  <2>3. \A r \in Current.relations : rel[<<r, "Delta">>] \subseteq Facts
    BY <2>1, <2>2
  <2> QED BY <2>3, Zenon
<1>2. /\ output' = IF batch = {} THEN output ELSE Append(output, batch)
      /\ sunk' = [f \in Facts |-> IF f \in batch THEN Append(sunk[f], timestamp.epoch)
                                  ELSE sunk[f]]
      /\ Continue(pc.inner) /\ UNCHANGED <<input, rel>>
  BY DEF HandleSinks
<1> HIDE DEF batch
<1>3. output' \in Seq(SUBSET Facts)
  BY <1>1, <1>2 DEF IInv, TypeOK
<1>4. sunk' \in [Facts -> Seq(0..(TimestampMod - 1))]
  <2>1. timestamp.epoch \in 0..(TimestampMod - 1)
    BY DEF IInv, TypeOK
  <2>2. \A f \in Facts : sunk[f] \in Seq(0..(TimestampMod - 1))
    BY DEF IInv, TypeOK
  <2>3. \A f \in Facts : Append(sunk[f], timestamp.epoch) \in Seq(0..(TimestampMod - 1))
    BY <2>1, <2>2
  <2> QED BY <1>2, <2>2, <2>3
<1>5. RelType(rel')
  BY <1>2 DEF IInv, TypeOK, RelType
<1> QED BY <1>2, <1>3, <1>4, <1>5, ContinueInv

\* ... and with them every statement does.
LEMMA StepInv ==
  ASSUME IInv, Step
  PROVE  IInv'
<1>0. /\ RelType(rel) /\ output \in Seq(SUBSET Facts)
      /\ sunk \in [Facts -> Seq(0..(TimestampMod - 1))]
  BY DEF IInv, TypeOK, RelType
<1>1. CASE HandleSources
  BY <1>1, SourcesInv
<1>2. CASE HandleInsert
  BY <1>0, <1>2, InsertRel, ContinueInv DEF HandleInsert
<1>3. CASE HandleMerge
  BY <1>0, <1>3, MergeRel, ContinueInv DEF HandleMerge
<1>4. CASE HandleSwap
  BY <1>0, <1>4, SwapRel, ContinueInv DEF HandleSwap
<1>5. CASE HandlePurge
  BY <1>0, <1>5, PurgeRel, ContinueInv DEF HandlePurge
<1>6. CASE HandleExit
  <2>1. UNCHANGED <<input, store>>
    BY <1>6 DEF HandleExit
  <2>2. RelType(rel') /\ output' = output /\ sunk' = sunk /\ input' = input
    BY <1>0, <2>1 DEF store
  <2>3. \/ Continue(None)
        \/ Continue(pc.inner)
    BY <1>6 DEF HandleExit
  <2> QED BY <1>0, <2>2, <2>3, ContinueInv
<1>7. CASE HandleSinks
  BY <1>7, SinksInv
<1> QED BY <1>1, <1>2, <1>3, <1>4, <1>5, <1>6, <1>7 DEF Step

\* So every step keeps the invariant.
LEMMA NextInv == IInv /\ [Next]_vars => IInv'
<1> SUFFICES ASSUME IInv, [Next]_vars PROVE IInv'
  OBVIOUS
<1>1. CASE \E f \in Facts : Push(f)
  BY <1>1, PushInv
<1>2. CASE \E f \in Facts : Pop(f)
  BY <1>2, PopInv
<1>3. CASE StartEpoch
  BY <1>3, StartInv
<1>4. CASE Step
  BY <1>4, StepInv
<1>5. CASE UNCHANGED vars
  <2>1. Code' = Code /\ Outer' = Outer
    BY <1>5 DEF vars, Code, Outer
  <2> QED
    BY <1>5, <2>1
    DEF vars, IInv, TypeOK, Control, PcOK, ClockOK, IdleOK, InputOK
<1> QED BY <1>1, <1>2, <1>3, <1>4, <1>5 DEF Next

-----------------------------------------------------------------------------
(* The theorems.                                                            *)

\* The invariant holds in every reachable state.
THEOREM Invariance == Spec => []IInv
  BY InitInv, NextInv, PTL DEF Spec

\* Every variable of the machine keeps its type, each fact stays in its own
\* relation, and the clock in its width (vm.rs, ram/statement).
THEOREM TypeCorrect == Spec => []TypeOK
<1>1. IInv => TypeOK
  BY DEF IInv
<1> QED BY Invariance, <1>1, PTL

\* step_epoch returns no InternalRhizomeError and trips no debug_assert,
\* whatever is pushed and whenever it is called (vm.rs: step, step_pc,
\* load_statement; sources.rs).
THEOREM NeverFaults == Spec => []NoFault
<1>1. IInv => NoFault
  BY Faultless DEF NoFault
<1> QED BY Invariance, <1>1, PTL

\* Every call of step_epoch starts with the clock at the start of an epoch and
\* pc on the sources, however the one before ended (vm.rs: step_epoch).
THEOREM StartsClean == Spec => []EpochStartsClean
<1>1. IInv => EpochStartsClean
  <2> SUFFICES ASSUME IInv, phase = "idle"
               PROVE  timestamp.iteration = 0 /\ pc = [outer |-> 0, inner |-> None]
    BY DEF EpochStartsClean
  <2>1. pc.outer = 0 /\ timestamp.iteration = 0
    BY DEF IInv, Control, IdleOK, ClockOK
  <2>2. Outer.op = "sources"
    BY <2>1, AtStatement DEF Outer, WellFormed
  <2>3. pc.inner = None
    BY <2>2 DEF IInv, Control, PcOK
  <2> QED BY <2>1, <2>3 DEF IInv, TypeOK
<1> QED BY Invariance, <1>1, PTL

\* No step of the machine takes a fact out of the Total of a relation
\* (merge.rs, swap.rs, purge.rs, sources.rs, project.rs).
THEOREM NothingIsLost == Spec => TotalGrows
<1>1. IInv /\ [Next]_vars => [KeepsTotal]_vars
  BY StepKeepsTotal
<1>2. KeepsTotal <=> \A r \in Relations : rel[<<r, "Total">>] \subseteq rel'[<<r, "Total">>]
  BY DEF KeepsTotal
<1> QED BY Invariance, <1>1, <1>2, PTL DEF Spec, TotalGrows
=============================================================================
