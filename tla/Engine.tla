------------------------------- MODULE Engine -------------------------------
(***************************************************************************)
(* What the machine promises its owner, the reactor: facts go in, an        *)
(* evaluation turns everything submitted so far into the model of the       *)
(* program at once, and exactly the facts that became true come out.        *)
(*                                                                         *)
(* This is the promise for programs without negation and aggregation.       *)
(***************************************************************************)
CONSTANTS
  Names,        \* the names of the programs
  Inputs(_),    \* the facts program p takes as input
  Model(_, _)   \* what program p derives from a set of input facts

VARIABLES
  program,      \* the name of the program that was loaded
  pending,      \* facts submitted since the last evaluation
  base,         \* facts evaluated
  derived,      \* what follows from them
  unread        \* derived facts the owner has not taken yet

vars == <<program, pending, base, derived, unread>>

Init ==
  /\ program \in Names
  /\ pending = {}
  /\ base = {}
  /\ derived = {}
  /\ unread = {}

Submit(f) ==
  /\ pending' = pending \cup {f}
  /\ UNCHANGED <<program, base, derived, unread>>

Evaluate ==
  /\ base' = base \cup pending
  /\ pending' = {}
  /\ derived' = Model(program, base')
  /\ unread' = unread \cup (derived' \ derived)
  /\ UNCHANGED program

Take(f) ==
  /\ unread' = unread \ {f}
  /\ UNCHANGED <<program, pending, base, derived>>

Next ==
  \/ \E f \in Inputs(program) : Submit(f)
  \/ Evaluate
  \/ \E f \in unread : Take(f)

Spec == Init /\ [][Next]_vars
=============================================================================
