------------------------------ MODULE Reactor ------------------------------
(***************************************************************************)
(* runtime/reactor.rs and runtime/client.rs: a client inserts facts,        *)
(* registers sinks and streams and flushes; the reactor handles commands    *)
(* and stream events, evaluates what was pushed when nothing more is ready, *)
(* and hands the derived facts to the sinks.  Client, reactor, event        *)
(* listener, and each sink and stream are tasks of their own that meet in   *)
(* bounded channels.  The evaluation is the Engine's.                       *)
(*                                                                         *)
(* A futures::mpsc channel (external) parks a sender whose message is       *)
(* beyond the buffer, and its send().await completes when it is unparked:   *)
(* the messages held never exceed the buffer by more than one per sender.   *)
(***************************************************************************)
EXTENDS Integers, Sequences, SequencesExt, FiniteSets, Selecting

CONSTANTS
  Inserts,      \* the facts a client may insert
  Model(_),     \* what the program derives from a set of input facts
  Sinks,        \* the sinks a client may register
  Wants,        \* sink -> the derived facts of the relation it is for
  Streams,      \* the streams a client may register
  StreamFacts,  \* stream -> the sequence of facts it yields
  None,
  Flush,        \* SinkCommand::Flush, in a sink's channel
  CommandBuffer, StreamBuffer, SinkBuffer, EventBuffer,  \* channel buffers
  MaxCopies,    \* times an evaluation may emit the same new fact
  MaxCalls,     \* bound on the client's calls
  SingleThread, \* client and reactor share one thread (tokio's test runtime)
  Cancels,      \* the client may drop the future of a call
  Crashes       \* sinks may fail, the listener may go away

AllInputs == Inserts \cup UNION {ToSet(StreamFacts[t]) : t \in Streams}
Emittable == UNION {Wants[s] : s \in Sinks}

ASSUME ReactorAssumption ==
  /\ {CommandBuffer, StreamBuffer, SinkBuffer, EventBuffer, MaxCopies, MaxCalls} \subseteq Nat
  /\ {SingleThread, Cancels, Crashes} \subseteq BOOLEAN
  /\ IsFiniteSet(Streams)
  /\ \A t \in Streams : StreamFacts[t] \in Seq(AllInputs)
  /\ Flush \notin Emittable
  /\ None \notin Emittable \cup Sinks \cup Nat \cup {Flush}

VARIABLES
  client,     \* "idle", "calling", "gone" once dropped, "closed" once the
              \* reactor has seen the end of command_rx
  call,       \* the call under way or made last, with what its oneshot holds
  commands,   \* command_rx
  at,         \* where async_run is, or the error it ended with
  pending, base, derived,  \* the engine
  out,        \* the VM's output
  registered, \* the reactor's sinks, in the order they were registered
  task,       \* what the reactor is sending to sinks or waiting for
  events,     \* ReachedFixedpoint events not received; None: no receiver
  sink,       \* the state of each sink task
  streamed,   \* stream -> events it sent, or None before it is registered
  arrivals,   \* stream_rx
  parked,     \* streams whose send().await waits, first come first served
  acked,      \* history: the facts whose insert returned
  dropped,    \* history: the future of some call was dropped
  emitted     \* history: the facts popped from the VM

clientVars == <<client, call, acked, dropped>>
engineVars == <<pending, base, derived>>
outVars    == <<out, emitted>>
streamVars == <<streamed, arrivals, parked>>
vars == <<clientVars, commands, at, engineVars, outVars, registered, task, events, sink,
          streamVars>>

Eng == INSTANCE Engine WITH
         Names   <- {<<>>},
         Inputs  <- LAMBDA p : AllInputs,
         Model   <- LAMBDA p, known : Model(known),
         program <- <<>>,
         unread  <- ToSet(out)

\* A call carries, as history, what was acknowledged and derived when it began.
NoCall == [op |-> "none", arg |-> None, id |-> 0, answer |-> "none",
           acked |-> {}, derived |-> {}]

\* command: the flush under way; message: what targets are to be sent;
\* parkedOn: the sink of the last send().await; handles: the sinks of a flush.
NoTask == [command |-> 0, message |-> None, targets |-> <<>>, parkedOn |-> None,
           handles |-> <<>>]

\* since: history, Len(emitted) when the sink was registered.
NewSink == [alive |-> TRUE, channel |-> <<>>, hand |-> None, log |-> <<>>,
            flushed |-> FALSE, since |-> 0]

Init ==
  /\ client = "idle" /\ call = NoCall /\ acked = {} /\ dropped = FALSE
  /\ commands = <<>> /\ at = "select"
  /\ out = <<>> /\ emitted = <<>> /\ Eng!Init
  /\ registered = <<>> /\ task = NoTask /\ events = 0
  /\ sink = [s \in Sinks |-> NewSink]
  /\ streamed = [t \in Streams |-> None] /\ arrivals = <<>> /\ parked = <<>>

-----------------------------------------------------------------------------
(* The client (client.rs).  Its methods take &mut self: one call at a time. *)

Errors == {"reply failed", "send failed", "ack failed", "event failed"}
Dead == at \in Errors

\* On one thread the client does not run between two awaits of the reactor,
\* and the drain loop has none that waits.
ClientRuns == SingleThread => at # "drain"

\* A call sends its command.  A parked client has not called yet, and a dead
\* reactor fails the call before anything changes.
Call(op, arg) ==
  /\ ClientRuns /\ client = "idle" /\ ~ Dead
  /\ call.id < MaxCalls
  /\ Len(commands) <= CommandBuffer
  /\ client' = "calling"
  /\ call' = [op |-> op, arg |-> arg, id |-> call.id + 1, answer |-> "none",
              acked |-> acked, derived |-> derived]
  /\ commands' = Append(commands, [op |-> op, arg |-> arg, id |-> call.id + 1])
  /\ UNCHANGED <<at, engineVars, outVars, registered, task, events, sink, streamVars, acked,
                 dropped>>

CallFlush       == Call("flush", None)
CallInsert(f)   == Call("insert", f)
CallRegister(s) == ~ (\E i \in DOMAIN registered : registered[i] = s) /\ Call("sink", s)
CallStream(t)   == streamed[t] = None /\ Call("stream", t)

\* rx.await completes.
Return ==
  /\ ClientRuns /\ client = "calling" /\ call.answer # "none"
  /\ client' = "idle"
  /\ acked' = IF call.op = "insert" /\ call.answer = "ok" THEN acked \cup {call.arg} ELSE acked
  /\ UNCHANGED <<call, dropped, commands, at, engineVars, outVars, registered, task, events, sink,
                 streamVars>>

\* The future of the call is dropped, its oneshot receiver with it; the
\* command stays where it is.
Cancel ==
  /\ Cancels
  /\ ClientRuns /\ client = "calling"
  /\ client' = "idle"
  /\ dropped' = TRUE
  /\ UNCHANGED <<call, acked, commands, at, engineVars, outVars, registered, task, events, sink,
                 streamVars>>

\* The Client is dropped: command_rx ends after the commands it holds.
Leave ==
  /\ ClientRuns /\ client = "idle"
  /\ client' = "gone"
  /\ UNCHANGED <<call, acked, dropped, commands, at, engineVars, outVars, registered, task, events,
                 sink, streamVars>>

-----------------------------------------------------------------------------
(* The reactor: async_run.                                                  *)

\* Mutant of Die: the waiting call is left waiting.
DieSilently(error) == at' = error /\ UNCHANGED call

\* async_run returns Err: the reactor is dropped with all it holds, and the
\* oneshot of a waiting call with the command that holds it.
Die(error) ==
  /\ at' = error
  /\ call' = IF call.answer = "none" THEN [call EXCEPT !.answer = "err"] ELSE call

\* Mutant of Handled: the reactor waits for the next command.
HandledAlone == at' = "select"

\* A handler is followed by the drain loop, and that by an epoch.
Handled == at' = "drain"

\* The oneshot of command id is answered; nobody receives it: Err.
Reply(id) ==
  IF client = "calling" /\ call.id = id
  THEN Handled /\ call' = [call EXCEPT !.answer = "ok"]
  ELSE Die("reply failed")

\* A select! takes a command; it may as well take a stream event that is ready.
Take(op) ==
  /\ at \in {"select", "drain"}
  /\ commands # <<>> /\ Head(commands).op = op
  /\ commands' = Tail(commands)

HandleInsertFact ==
  /\ Take("insert")
  /\ UNCHANGED outVars
  /\ Eng!Submit(Head(commands).arg)
  /\ Reply(Head(commands).id)
  /\ UNCHANGED <<client, acked, dropped, registered, task, events, sink, streamVars>>

HandleRegisterSink ==
  /\ Take("sink")
  /\ registered' = Append(registered, Head(commands).arg)
  /\ sink' = [sink EXCEPT ![Head(commands).arg].since = Len(emitted)]
  /\ Reply(Head(commands).id)
  /\ UNCHANGED <<client, acked, dropped, engineVars, outVars, task, events, streamVars>>

HandleRegisterStream ==
  /\ Take("stream")
  /\ streamed' = [streamed EXCEPT ![Head(commands).arg] = 0]
  /\ Reply(Head(commands).id)
  /\ UNCHANGED <<client, acked, dropped, engineVars, outVars, registered, task, events, sink,
                 arrivals, parked>>

\* A flush goes to every sink, in the order of a HashMap ...
HandleFlush ==
  /\ Take("flush")
  /\ \E order \in SetToSeqs(ToSet(registered)) :
       task' = [NoTask EXCEPT !.command = Head(commands).id, !.message = Flush,
                              !.targets = order, !.handles = order]
  /\ sink' = [s \in Sinks |-> [sink[s] EXCEPT !.flushed = FALSE]]
  /\ at' = "flush"
  /\ UNCHANGED <<clientVars, engineVars, outVars, registered, events, streamVars>>

\* Mutant of Unparked: the reactor does not wait.
UnparkedAlways == TRUE

\* The last send().await has completed: the channel was unparked or closed.
Unparked ==
  task.parkedOn # None =>
    ~ sink[task.parkedOn].alive \/ Len(sink[task.parkedOn].channel) <= SinkBuffer

\* The receiver of the sink's channel exists.
Open(s) == sink[s].alive

\* One round of the loops that send a flush, or a fact, to the sinks.
SendToSink ==
  /\ at \in {"flush", "deliver"}
  /\ task.targets # <<>> /\ Unparked
  /\ LET s == Head(task.targets)
     IN  IF Open(s)
         THEN /\ sink' = [sink EXCEPT ![s].channel = Append(@, task.message)]
              /\ task' = [task EXCEPT !.targets = Tail(@), !.parkedOn = s]
              /\ UNCHANGED <<at, call>>
         ELSE Die("send failed") /\ UNCHANGED <<sink, task>>
  /\ UNCHANGED <<client, acked, dropped, commands, engineVars, outVars, registered, events,
                 streamVars>>

FlushSent ==
  /\ at = "flush"
  /\ task.targets = <<>> /\ Unparked
  /\ at' = "join"
  /\ task' = [task EXCEPT !.message = None, !.parkedOn = None]
  /\ UNCHANGED <<clientVars, commands, engineVars, outVars, registered, events, sink, streamVars>>

\* Mutant of Acknowledged: only the first handle is awaited.
AcknowledgedByFirst == task.handles # <<>> => sink[Head(task.handles)].flushed

Acknowledged == \A i \in DOMAIN task.handles : sink[task.handles[i]].flushed

\* Mutant of Lost: a handle is polled, not awaited.
LostIfPending(s) == ~ sink[s].flushed

\* The sink ended, and the handle's sender with it, before it answered.
Lost(s) == ~ sink[s].flushed /\ ~ sink[s].alive

\* ... and is answered when every sink has answered; the handle that is awaited
\* fails if its sink is lost.
JoinFlush ==
  /\ at = "join"
  /\ \/ Acknowledged /\ Reply(task.command)
     \/ /\ \E i \in DOMAIN task.handles :
             /\ \A j \in 1..(i - 1) : sink[task.handles[j]].flushed
             /\ Lost(task.handles[i])
        /\ Die("ack failed")
  /\ task' = NoTask
  /\ UNCHANGED <<client, acked, dropped, commands, engineVars, outVars, registered, events,
                 sink, streamVars>>

\* handle_event; the pop unparks one stream.
HandleStreamFact ==
  /\ at \in {"select", "drain"}
  /\ arrivals # <<>>
  /\ UNCHANGED outVars
  /\ Eng!Submit(Head(arrivals))
  /\ arrivals' = Tail(arrivals)
  /\ parked' = IF parked = <<>> THEN <<>> ELSE Tail(parked)
  /\ Handled
  /\ UNCHANGED <<clientVars, commands, registered, task, events, sink, streamed>>

\* command_rx yields its None: no command, but the select! is over.
HandleHangup ==
  /\ at \in {"select", "drain"}
  /\ client = "gone" /\ commands = <<>>
  /\ client' = "closed"
  /\ Handled
  /\ UNCHANGED <<call, acked, dropped, commands, engineVars, outVars, registered, task, events,
                 sink, streamVars>>

\* The output of an epoch: every new fact, some more than once, in any order.
Emissions(new) ==
  LET Copies(q, f) == Cardinality({i \in DOMAIN q : q[i] = f})
  IN  {q \in UNION {[1..n -> new] : n \in 0..(MaxCopies * Cardinality(new))} :
         \A f \in new : Copies(q, f) \in 1..MaxCopies}

\* default => break: nothing is ready, and vm.step_epoch runs.
Evaluate ==
  /\ at = "drain"
  /\ commands = <<>> /\ arrivals = <<>> /\ client # "gone"
  /\ out' \in Emissions(Model(base \cup pending) \ derived)
  /\ Eng!Evaluate
  /\ at' = "deliver"
  /\ UNCHANGED <<clientVars, commands, emitted, registered, task, events, sink, streamVars>>

\* Mutants of TargetsOf: every sink gets every fact; only the first registered
\* sink gets any.
TargetsOfAny(f)   == registered
TargetsOfFirst(f) == Keep(registered, {s \in {registered[1]} : f \in Wants[s]})

\* self.sinks.get_mut(&fact.id()): the sinks of the relation of a fact.
TargetsOf(f) == Keep(registered, {s \in Sinks : f \in Wants[s]})

\* A fact is popped, for the sinks of its relation.
PopFact ==
  /\ at = "deliver"
  /\ out # <<>> /\ task.targets = <<>> /\ Unparked
  /\ task' = [NoTask EXCEPT !.message = Head(out), !.targets = TargetsOf(Head(out))]
  /\ out' = Tail(out)
  /\ emitted' = Append(emitted, Head(out))
  /\ UNCHANGED <<clientVars, commands, at, engineVars, registered, events, sink, streamVars>>

\* event_tx.send() ...
SendEvent ==
  /\ at = "deliver"
  /\ out = <<>> /\ task.targets = <<>> /\ Unparked
  /\ task' = NoTask
  /\ IF events # None
     THEN events' = events + 1 /\ at' = "event" /\ UNCHANGED call
     ELSE Die("event failed") /\ UNCHANGED events
  /\ UNCHANGED <<client, acked, dropped, commands, engineVars, outVars, registered, sink,
                 streamVars>>

\* ... .await completes: unparked, or the receiver is gone.
EventSent ==
  /\ at = "event"
  /\ events # None => events <= EventBuffer
  /\ at' = "select"
  /\ UNCHANGED <<clientVars, commands, engineVars, outVars, registered, task, events, sink,
                 streamVars>>

-----------------------------------------------------------------------------
(* The sink tasks (reactor.rs, RegisterSink).                               *)

\* rx.next(): a flush is answered at once - the task panics when the reactor
\* is no longer there to be answered - and a fact goes to the user's sink.
SinkReceives(s) ==
  /\ sink[s].alive /\ sink[s].hand = None /\ sink[s].channel # <<>>
  /\ LET message == Head(sink[s].channel)
     IN  sink' = [sink EXCEPT ![s].channel = Tail(@),
                              ![s].alive   = message = Flush => ~ Dead,
                              ![s].flushed = IF message = Flush THEN TRUE ELSE @,
                              ![s].hand    = IF message = Flush THEN None ELSE message]
  /\ UNCHANGED <<clientVars, commands, at, engineVars, outVars, registered, task, events,
                 streamVars>>

\* sink.send(fact).await completes.
SinkAccepts(s) ==
  /\ sink[s].alive /\ sink[s].hand # None
  /\ sink' = [sink EXCEPT ![s].log = Append(@, sink[s].hand), ![s].hand = None]
  /\ UNCHANGED <<clientVars, commands, at, engineVars, outVars, registered, task, events,
                 streamVars>>

\* It fails: expect panics, the task ends and its channel with it.
SinkFails(s) ==
  /\ Crashes
  /\ sink[s].alive /\ sink[s].hand # None
  /\ sink' = [sink EXCEPT ![s].alive = FALSE, ![s].hand = None, ![s].channel = <<>>]
  /\ UNCHANGED <<clientVars, commands, at, engineVars, outVars, registered, task, events,
                 streamVars>>

-----------------------------------------------------------------------------
(* The stream tasks (reactor.rs, RegisterStream) and the event listener.    *)

StreamSends(t) ==
  /\ ~ Dead
  /\ streamed[t] # None /\ streamed[t] < Len(StreamFacts[t])
  /\ ~ (\E i \in DOMAIN parked : parked[i] = t)
  /\ arrivals' = Append(arrivals, StreamFacts[t][streamed[t] + 1])
  /\ streamed' = [streamed EXCEPT ![t] = @ + 1]
  /\ parked' = IF Len(arrivals') > StreamBuffer THEN Append(parked, t) ELSE parked
  /\ UNCHANGED <<clientVars, commands, at, engineVars, outVars, registered, task, events, sink>>

TakeEvent ==
  /\ events \notin {None, 0}
  /\ events' = events - 1
  /\ UNCHANGED <<clientVars, commands, at, engineVars, outVars, registered, task, sink,
                 streamVars>>

StopListening ==
  /\ Crashes
  /\ events # None
  /\ events' = None
  /\ UNCHANGED <<clientVars, commands, at, engineVars, outVars, registered, task, sink,
                 streamVars>>

-----------------------------------------------------------------------------
ReactorStep ==
  \/ HandleInsertFact
  \/ HandleRegisterSink
  \/ HandleRegisterStream
  \/ HandleFlush
  \/ SendToSink
  \/ FlushSent
  \/ JoinFlush
  \/ HandleStreamFact
  \/ HandleHangup
  \/ Evaluate
  \/ PopFact
  \/ SendEvent
  \/ EventSent

Next ==
  \/ CallFlush
  \/ \E f \in Inserts : CallInsert(f)
  \/ \E s \in Sinks : CallRegister(s)
  \/ \E t \in Streams : CallStream(t)
  \/ Return
  \/ Cancel
  \/ Leave
  \/ ReactorStep
  \/ \E s \in Sinks : SinkReceives(s)
  \/ \E s \in Sinks : SinkAccepts(s)
  \/ \E s \in Sinks : SinkFails(s)
  \/ \E t \in Streams : StreamSends(t)
  \/ TakeEvent
  \/ StopListening

\* Every task that is ready is run by its executor, the user's sink completes
\* its sends, and somebody receives the events, as in every example.  Nothing
\* obliges the client to call, to cancel or to leave.
Fairness ==
  /\ WF_vars(ReactorStep)
  /\ WF_vars(Return)
  /\ WF_vars(TakeEvent)
  /\ \A s \in Sinks : WF_vars(SinkReceives(s)) /\ WF_vars(SinkAccepts(s))
  /\ \A t \in Streams : WF_vars(StreamSends(t))

Spec == Init /\ [][Next]_vars /\ Fairness

-----------------------------------------------------------------------------
(* What the client may rely on.                                             *)

Registered == ToSet(registered)

\* The facts popped before, and since, sink s was registered.
EmittedBefore(s) == ToSet(SubSeq(emitted, 1, sink[s].since))
EmittedSince(s)  == SubSeq(emitted, sink[s].since + 1, Len(emitted))

\* The type invariant.
TypeOK ==
  /\ client \in {"idle", "calling", "gone", "closed"}
  /\ call.id \in 0..MaxCalls
  /\ call.answer \in {"none", "ok", "err"}
  /\ acked \subseteq Inserts
  /\ at \in {"select", "drain", "flush", "join", "deliver", "event"} \cup Errors
  /\ pending \subseteq AllInputs /\ base \subseteq AllInputs
  /\ Registered \subseteq Sinks /\ Cardinality(Registered) = Len(registered)
  /\ events \in Nat \cup {None}
  /\ \A s \in Sinks :
       /\ ToSet(sink[s].channel) \subseteq Wants[s] \cup {Flush}
       /\ sink[s].hand \in Wants[s] \cup {None}
       /\ ToSet(sink[s].log) \subseteq Wants[s]
       /\ sink[s].since \in 0..Len(emitted)

\* The facts for sink s: those it is to have got by now, the one it is giving
\* to the user's sink, those in its channel and the one about to be sent to it.
Expected(s)  == Keep(EmittedSince(s), Wants[s])
InHand(s)    == IF sink[s].hand = None THEN <<>> ELSE <<sink[s].hand>>
InChannel(s) == Keep(sink[s].channel, Emittable)
ToSend(s)    == IF at = "deliver" /\ s \in ToSet(task.targets) THEN <<task.message>> ELSE <<>>

\* A sink is given the facts of its relation that were emitted since it was
\* registered, in that order, each as often as it was emitted: what it has
\* taken, what is in its channel and what the reactor is about to send it make
\* up exactly these, as long as the sink and the reactor live (reactor.rs:
\* the loop over vm.pop, sink.send().await, the loop of the sink task).
SinkGetsAll ==
  \A s \in Registered :
    /\ IsPrefix(sink[s].log, Expected(s))
    /\ (sink[s].alive /\ ~ Dead) =>
         sink[s].log \o InHand(s) \o InChannel(s) \o ToSend(s) = Expected(s)

\* When a flush returns Ok, every fact that was derived when it was called has
\* been accepted by the sinks of its relation, other than the facts emitted
\* before a sink was registered (reactor.rs, ClientCommand::Flush).
FlushBarrier ==
  (client = "calling" /\ call.op = "flush" /\ call.answer = "ok") =>
    \A s \in Registered :
      (call.derived \cap Wants[s]) \ EmittedBefore(s) \subseteq ToSet(sink[s].log)

\* More inputs never take a conclusion back: a program without negation.
Monotone == \A A \in SUBSET AllInputs, B \in SUBSET AllInputs :
              A \subseteq B => Model(A) \subseteq Model(B)

\* The same for what follows from the inserts that returned before the flush
\* was called, as examples/cid.rs and the test of rhizome-tokio expect.
FlushCoversInserts ==
  (client = "calling" /\ call.op = "flush" /\ call.answer = "ok") =>
    \A s \in Registered :
      (Model(call.acked) \cap Wants[s]) \ EmittedBefore(s) \subseteq ToSet(sink[s].log)

\* No channel ever holds more than its buffer and one message per sender: the
\* back-pressure of send().await reaches every producer (reactor.rs, client.rs).
ChannelsBounded ==
  /\ Len(commands) <= CommandBuffer + 1
  /\ Len(arrivals) <= StreamBuffer + Cardinality(Streams)
  /\ events # None => events <= EventBuffer + 1
  /\ \A s \in Sinks : Len(sink[s].channel) <= SinkBuffer + 1

\* The reactor ends only of what its peers did: a sink that failed, a listener
\* that went away, or a call that was dropped: no other reply finds its oneshot
\* closed (reactor.rs: handle_command, async_run).
DiesOfPeers ==
  /\ at \in {"send failed", "ack failed"} => \E s \in Registered : ~ sink[s].alive
  /\ at = "event failed" => events = None
  /\ at = "reply failed" => dropped

\* "An unexpected error occurred in Rhizome ... This is a bug" (error.rs): the
\* InternalRhizomeError of a reply that nobody waits for does not occur.
NoInternalError == at # "reply failed"

\* Every call returns, with an error if the reactor ended: no task waits for
\* another that waits for it.
CallsReturn == (client = "calling") ~> (client # "calling")

\* What follows from an insert that returned reaches every sink there is for
\* it, unless the reactor or the sink has ended.
InsertsReachSinks ==
  \A f \in Inserts, s \in Sinks :
    (f \in acked /\ s \in Registered) ~>
      \/ Model({f}) \cap Wants[s] \subseteq ToSet(sink[s].log) \cup EmittedBefore(s)
      \/ Dead \/ ~ sink[s].alive

\* Every fact of a registered stream is evaluated, without any further call.
StreamsAreEvaluated ==
  \A t \in Streams : (streamed[t] # None) ~> (ToSet(StreamFacts[t]) \subseteq base \/ Dead)
=============================================================================
