--------------------------- MODULE Reactor_proofs ---------------------------
(***************************************************************************)
(* ChannelsBounded for any buffers and any number of sinks and streams.  A  *)
(* channel over its buffer has a sender that waits for it, so the invariant *)
(* says who that is: a stream in parked, the reactor at "event", or the     *)
(* reactor with the sink in task.parkedOn.                                  *)
(*                                                                         *)
(* Then that the reactor delivers: no fact is lost, doubled or reordered on *)
(* its way from the engine's output to the sinks, and a flush waits for all *)
(* of it.  ReactorInv is the inductive invariant of Reactor; DeliveryInv    *)
(* and FlushInv, about one sink each, are its heart.  ThreadInv is added to *)
(* it for a client and a reactor on one thread.                             *)
(***************************************************************************)
EXTENDS Reactor, Selecting_proofs, FiniteSetTheorems, TLAPS

USE ReactorAssumption

IsSeq(q) == \E S : q \in Seq(S)

\* One more message makes a channel longer by one.
LEMMA Appends ==
  ASSUME NEW q, NEW m, IsSeq(q)
  PROVE  /\ IsSeq(Append(q, m))
         /\ Len(q) \in Nat /\ Len(Append(q, m)) = Len(q) + 1
<1>1. PICK S : q \in Seq(S)
  BY DEF IsSeq
<1>2. q \in Seq(S \cup {m}) /\ m \in S \cup {m}
  BY <1>1
<1>3. Append(q, m) \in Seq(S \cup {m}) /\ Len(q) \in Nat /\ Len(Append(q, m)) = Len(q) + 1
  BY <1>2
<1> QED
  BY <1>3 DEF IsSeq

\* Taking a message makes a channel shorter by one.
LEMMA Tails ==
  ASSUME NEW q, IsSeq(q), q # <<>>
  PROVE  /\ IsSeq(Tail(q))
         /\ Len(q) \in Nat \ {0} /\ Len(Tail(q)) = Len(q) - 1
<1>1. PICK S : q \in Seq(S)
  BY DEF IsSeq
<1>2. Tail(q) \in Seq(S) /\ Len(q) \in Nat \ {0} /\ Len(Tail(q)) = Len(q) - 1
  BY <1>1
<1> QED
  BY <1>2 DEF IsSeq

\* An empty channel has no message.
LEMMA Empty == IsSeq(<<>>) /\ Len(<<>>) = 0
<1>1. <<>> \in Seq({}) /\ Len(<<>>) = 0
  OBVIOUS
<1> QED
  BY <1>1 DEF IsSeq

-----------------------------------------------------------------------------
(* command_rx has one sender, which calls only when the buffer has room.    *)

CommandsInv == IsSeq(commands) /\ Len(commands) \in 0..(CommandBuffer + 1)

\* What a step does to the commands.
LEMMA CommandsChange ==
  ASSUME [Next]_vars
  PROVE  \/ commands' = commands
         \/ commands # <<>> /\ commands' = Tail(commands)
         \/ Len(commands) <= CommandBuffer /\ \E c : commands' = Append(commands, c)
<1>1. CASE ReactorStep
  BY <1>1 DEF ReactorStep, HandleInsertFact, HandleRegisterSink, HandleRegisterStream,
     HandleFlush, Take, SendToSink, FlushSent, JoinFlush, HandleStreamFact, HandleHangup,
     Evaluate, PopFact, SendEvent, EventSent
<1>2. CASE \/ CallFlush
           \/ \E f \in Inserts : CallInsert(f)
           \/ \E s \in Sinks : CallRegister(s)
           \/ \E t \in Streams : CallStream(t)
  BY <1>2 DEF CallFlush, CallInsert, CallRegister, CallStream, Call
<1>3. CASE Return \/ Cancel \/ Leave \/ TakeEvent \/ StopListening
  BY <1>3 DEF Return, Cancel, Leave, TakeEvent, StopListening
<1>4. CASE \/ \E s \in Sinks : (SinkReceives(s) \/ SinkAccepts(s) \/ SinkFails(s))
           \/ \E t \in Streams : StreamSends(t)
  BY <1>4 DEF SinkReceives, SinkAccepts, SinkFails, StreamSends
<1>5. CASE UNCHANGED vars
  BY <1>5 DEF vars
<1> QED
  BY SMTT(40), <1>1, <1>2, <1>3, <1>4, <1>5 DEF Next

\* A step keeps the queue of commands bounded: a client sends its next command
\* once the last is answered (client.rs, command_tx.send().await).
LEMMA CommandsStep ==
  ASSUME CommandsInv, [Next]_vars
  PROVE  CommandsInv'
<1>1. CASE commands' = commands
  BY <1>1 DEF CommandsInv
<1>2. CASE commands # <<>> /\ commands' = Tail(commands)
  BY <1>2, Tails DEF CommandsInv
<1>3. ASSUME NEW c, Len(commands) <= CommandBuffer, commands' = Append(commands, c)
      PROVE  CommandsInv'
  BY SMTT(40), <1>3, Appends DEF CommandsInv
<1> QED
  BY <1>1, <1>2, <1>3, CommandsChange

-----------------------------------------------------------------------------
(* stream_rx has one sender for each stream.                                *)

ArrivalsInv ==
  /\ IsSeq(arrivals)
  /\ parked \in Seq(Streams)
  /\ \A i, j \in 1..Len(parked) : parked[i] = parked[j] => i = j
  /\ Len(arrivals) <= StreamBuffer + Len(parked)

\* Only a stream's task fills the channel of arrivals, and only the reactor
\* empties it (reactor.rs, register_stream and the select).
LEMMA ArrivalsChange ==
  ASSUME [Next]_vars
  PROVE  \/ UNCHANGED <<arrivals, parked>>
         \/ HandleStreamFact
         \/ \E t \in Streams : StreamSends(t)
<1>1. CASE ReactorStep
  BY <1>1 DEF ReactorStep, HandleInsertFact, HandleRegisterSink, HandleRegisterStream,
     HandleFlush, SendToSink, FlushSent, JoinFlush, HandleHangup,
     Evaluate, PopFact, SendEvent, EventSent, streamVars
<1>2. CASE \/ CallFlush
           \/ \E f \in Inserts : CallInsert(f)
           \/ \E s \in Sinks : CallRegister(s)
           \/ \E t \in Streams : CallStream(t)
  BY <1>2 DEF CallFlush, CallInsert, CallRegister, CallStream, Call, streamVars
<1>3. CASE Return \/ Cancel \/ Leave \/ TakeEvent \/ StopListening
  BY <1>3 DEF Return, Cancel, Leave, TakeEvent, StopListening, streamVars
<1>4. CASE \E s \in Sinks : SinkReceives(s) \/ SinkAccepts(s) \/ SinkFails(s)
  BY <1>4 DEF SinkReceives, SinkAccepts, SinkFails, streamVars
<1>5. CASE UNCHANGED vars
  BY <1>5 DEF vars, streamVars
<1> QED
  BY <1>1, <1>2, <1>3, <1>4, <1>5 DEF Next

\* A step keeps it bounded by its buffer and one fact per stream's task.
LEMMA ArrivalsStep ==
  ASSUME ArrivalsInv, [Next]_vars
  PROVE  ArrivalsInv'
<1>0. StreamBuffer \in Nat /\ Len(parked) \in Nat
  BY DEF ArrivalsInv
<1>1. CASE UNCHANGED <<arrivals, parked>>
  BY <1>1 DEF ArrivalsInv
<1>2. CASE HandleStreamFact
  <2>1. /\ arrivals # <<>> /\ arrivals' = Tail(arrivals)
        /\ parked' = IF parked = <<>> THEN <<>> ELSE Tail(parked)
    BY <1>2 DEF HandleStreamFact
  <2>2. IsSeq(arrivals') /\ Len(arrivals) \in Nat /\ Len(arrivals') = Len(arrivals) - 1
    BY <2>1, Tails DEF ArrivalsInv
  <2>3. CASE parked = <<>>
    BY <1>0, <2>1, <2>2, <2>3 DEF ArrivalsInv
  <2>4. CASE parked # <<>>
    <3>1. /\ parked' \in Seq(Streams)
          /\ Len(parked') = Len(parked) - 1
          /\ \A i \in 1..Len(parked') : i + 1 \in 1..Len(parked) /\ parked'[i] = parked[i + 1]
      BY <2>1, <2>4 DEF ArrivalsInv
    <3>2. ASSUME NEW i \in 1..Len(parked'), NEW j \in 1..Len(parked'), parked'[i] = parked'[j]
          PROVE  i = j
      <4>1. i + 1 = j + 1
        BY <3>1, <3>2 DEF ArrivalsInv
      <4> QED
        BY <4>1
    <3>3. Len(arrivals') <= StreamBuffer + Len(parked')
      BY <1>0, <2>2, <3>1 DEF ArrivalsInv
    <3> QED
      BY <2>2, <3>1, <3>2, <3>3 DEF ArrivalsInv
  <2> QED
    BY <2>3, <2>4
<1>3. ASSUME NEW t \in Streams, StreamSends(t)
      PROVE  ArrivalsInv'
  <2>1. /\ \A i \in 1..Len(parked) : parked[i] # t
        /\ \E f : arrivals' = Append(arrivals, f)
        /\ parked' = IF Len(arrivals') > StreamBuffer THEN Append(parked, t) ELSE parked
    BY SMTT(40), <1>3 DEF StreamSends, ArrivalsInv
  <2>2. IsSeq(arrivals') /\ Len(arrivals) \in Nat /\ Len(arrivals') = Len(arrivals) + 1
    BY <2>1, Appends DEF ArrivalsInv
  <2>3. CASE Len(arrivals') > StreamBuffer
    <3>1. /\ parked' \in Seq(Streams)
          /\ Len(parked') = Len(parked) + 1
          /\ \A i \in 1..Len(parked) : parked'[i] = parked[i]
          /\ parked'[Len(parked) + 1] = t
      BY <2>1, <2>3 DEF ArrivalsInv
    <3>2. ASSUME NEW i \in 1..Len(parked'), NEW j \in 1..Len(parked'), parked'[i] = parked'[j]
          PROVE  i = j
      BY SMTT(40), <1>0, <2>1, <3>1, <3>2 DEF ArrivalsInv
    <3>3. Len(arrivals') <= StreamBuffer + Len(parked')
      BY <1>0, <2>2, <3>1 DEF ArrivalsInv
    <3> QED
      BY <2>2, <3>1, <3>2, <3>3 DEF ArrivalsInv
  <2>4. CASE ~ (Len(arrivals') > StreamBuffer)
    BY <1>0, <2>1, <2>2, <2>4 DEF ArrivalsInv
  <2> QED
    BY <2>3, <2>4
<1> QED
  BY <1>1, <1>2, <1>3, ArrivalsChange

\* The bound as ChannelsBounded states it.
LEMMA ArrivalsBounded ==
  ASSUME ArrivalsInv
  PROVE  Len(arrivals) <= StreamBuffer + Cardinality(Streams)
<1>1. Len(parked) \in Nat /\ IsFiniteSet(Streams)
  BY DEF ArrivalsInv
<1>2. Cardinality(1..Len(parked)) = Len(parked)
  <2>1. Len(parked) \in Int /\ 1 \in Int
    BY <1>1
  <2>2. Cardinality(1..Len(parked)) = IF 1 > Len(parked) THEN 0 ELSE Len(parked) - 1 + 1
    BY <2>1, FS_Interval
  <2> QED
    BY <1>1, <2>2
<1>3. Len(parked) <= Cardinality(Streams) /\ Cardinality(Streams) \in Nat
  <2>1. parked \in [1..Len(parked) -> Streams] /\ IsInjective(parked)
    BY DEF ArrivalsInv, IsInjective
  <2>2. parked \in Injection(1..Len(parked), Streams)
    BY <2>1 DEF Injection
  <2> QED
    BY <1>1, <1>2, <2>2, FS_Injection, FS_CardinalityType
<1>4. Len(arrivals) \in Nat /\ Len(parked) \in Nat /\ StreamBuffer \in Nat
  <2>1. PICK S : arrivals \in Seq(S)
    BY DEF ArrivalsInv, IsSeq
  <2> QED
    BY <2>1 DEF ArrivalsInv
<1> QED
  BY <1>3, <1>4 DEF ArrivalsInv

-----------------------------------------------------------------------------
(* The events have one sender, which waits at "event" while they are over   *)
(* the buffer.                                                              *)

EventsInv ==
  /\ events \in Nat \cup {None}
  /\ events # None => events <= EventBuffer + 1 /\ (at # "event" => events <= EventBuffer)

\* Only the reactor sends events, and only the listener takes them.
LEMMA EventsChange ==
  ASSUME [Next]_vars
  PROVE  \/ events' = events /\ (at = "event" <=> at' = "event")
         \/ SendEvent
         \/ EventSent
         \/ UNCHANGED at /\ events \notin {None, 0} /\ events' = events - 1
         \/ events' = None
<1> USE DEF Errors
<1>1. CASE HandleInsertFact \/ HandleRegisterSink \/ HandleRegisterStream \/ HandleFlush
           \/ HandleStreamFact \/ HandleHangup
  BY <1>1 DEF HandleInsertFact, HandleRegisterSink, HandleRegisterStream, HandleFlush,
     HandleStreamFact, HandleHangup, Take, Reply, Handled, Die
<1>2. CASE SendToSink \/ FlushSent \/ JoinFlush \/ Evaluate \/ PopFact
  BY <1>2 DEF SendToSink, FlushSent, JoinFlush, Evaluate, PopFact, Reply, Handled, Die
<1>3. CASE \/ CallFlush
           \/ \E f \in Inserts : CallInsert(f)
           \/ \E s \in Sinks : CallRegister(s)
           \/ \E t \in Streams : CallStream(t)
  BY <1>3 DEF CallFlush, CallInsert, CallRegister, CallStream, Call
<1>4. CASE Return \/ Cancel \/ Leave \/ TakeEvent \/ StopListening
  BY <1>4 DEF Return, Cancel, Leave, TakeEvent, StopListening
<1>5. CASE \/ \E s \in Sinks : (SinkReceives(s) \/ SinkAccepts(s) \/ SinkFails(s))
           \/ \E t \in Streams : StreamSends(t)
  BY <1>5 DEF SinkReceives, SinkAccepts, SinkFails, StreamSends
<1>6. CASE UNCHANGED vars
  BY <1>6 DEF vars
<1> QED
  BY <1>1, <1>2, <1>3, <1>4, <1>5, <1>6 DEF Next, ReactorStep

\* A step keeps the channel of events bounded.
LEMMA EventsStep ==
  ASSUME EventsInv, [Next]_vars
  PROVE  EventsInv'
<1>0. EventBuffer \in Nat /\ None \notin Nat
  OBVIOUS
<1>1. CASE events' = events /\ (at = "event" <=> at' = "event")
  BY <1>1 DEF EventsInv
<1>2. CASE SendEvent
  <2>1. at # "event" /\ (events # None => events' = events + 1 /\ at' = "event")
    BY <1>2 DEF SendEvent
  <2>2. events = None => events' = None
    BY <1>2 DEF SendEvent
  <2> QED
    BY <1>0, <2>1, <2>2 DEF EventsInv
<1>3. CASE EventSent
  BY <1>0, <1>3 DEF EventSent, EventsInv
<1>4. CASE UNCHANGED at /\ events \notin {None, 0} /\ events' = events - 1
  BY <1>0, <1>4 DEF EventsInv
<1>5. CASE events' = None
  BY <1>5 DEF EventsInv
<1> QED
  BY <1>1, <1>2, <1>3, <1>4, <1>5, EventsChange

-----------------------------------------------------------------------------
(* A sink's channel has one sender, which waits for the one in parkedOn.    *)

SinkRecord(r) ==
  r = [alive |-> r.alive, channel |-> r.channel, hand |-> r.hand, log |-> r.log,
       flushed |-> r.flushed, since |-> r.since]

TaskRecord(r) ==
  r = [command |-> r.command, message |-> r.message, targets |-> r.targets,
       parkedOn |-> r.parkedOn, handles |-> r.handles]

Sending == {"flush", "deliver"} \cup Errors

SinkInv(s) ==
  /\ SinkRecord(sink[s])
  /\ IsSeq(sink[s].channel)
  /\ Len(sink[s].channel) <= SinkBuffer + 1
  /\ ~ Dead => /\ ~ sink[s].alive => sink[s].channel = <<>>
               /\ task.parkedOn # s => Len(sink[s].channel) <= SinkBuffer

SinksInv ==
  /\ sink = [s \in Sinks |-> sink[s]]
  /\ TaskRecord(task)
  /\ task.parkedOn # None => at \in Sending
  /\ \A s \in Sinks : SinkInv(s)

\* When the last send has completed, every channel is within its buffer.
LEMMA AllUnparked ==
  ASSUME SinksInv, ~ Dead, Unparked
  PROVE  \A s \in Sinks : Len(sink[s].channel) <= SinkBuffer
<1> TAKE s \in Sinks
<1>1. SinkInv(s) /\ SinkBuffer \in Nat /\ s # None
  BY DEF SinksInv
<1>2. CASE task.parkedOn # s
  BY <1>1, <1>2 DEF SinkInv
<1>3. CASE task.parkedOn = s /\ ~ sink[s].alive
  BY <1>1, <1>3, Empty DEF SinkInv
<1>4. CASE task.parkedOn = s /\ sink[s].alive
  BY <1>1, <1>4 DEF Unparked
<1> QED
  BY <1>2, <1>3, <1>4

\* A reactor that does not send waits for no sink.
LEMMA NotSending ==
  ASSUME SinksInv, at \in {"select", "drain", "join", "event"}
  PROVE  ~ Dead /\ task.parkedOn = None /\ Unparked
BY DEF SinksInv, Sending, Unparked, Dead, Errors

\* What a sink's state may become while the reactor sends nothing.
SinkChange(s) ==
  /\ SinkRecord(sink'[s])
  /\ \/ sink'[s].channel = sink[s].channel /\ (sink[s].alive => sink'[s].alive)
     \/ sink'[s].channel = <<>>
     \/ /\ sink[s].channel # <<>> /\ sink'[s].channel = Tail(sink[s].channel)
        /\ ~ Dead => sink'[s].alive

\* A sink's task takes from its channel or closes it, and never fills it.
LEMMA ChannelShrinks ==
  ASSUME NEW s, IsSeq(sink[s].channel), SinkChange(s)
  PROVE  /\ IsSeq(sink'[s].channel)
         /\ Len(sink[s].channel) \in Nat /\ Len(sink'[s].channel) \in Nat
         /\ Len(sink'[s].channel) <= Len(sink[s].channel)
<1>1. Len(sink[s].channel) \in Nat
  BY Appends
<1>2. CASE sink'[s].channel = sink[s].channel
  BY <1>1, <1>2
<1>3. CASE sink'[s].channel = <<>>
  BY <1>1, <1>3, Empty
<1>4. CASE sink[s].channel # <<>> /\ sink'[s].channel = Tail(sink[s].channel)
  BY <1>1, <1>4, Tails
<1> QED
  BY <1>2, <1>3, <1>4 DEF SinkChange

\* A step in which the reactor sends nothing, and goes on with its task or, every
\* channel being unparked, starts another.
LEMMA NothingSent ==
  ASSUME SinksInv,
         sink' = [s \in Sinks |-> sink'[s]],
         \A s \in Sinks : SinkChange(s),
         Dead => Dead',
         \/ task' = task /\ (task.parkedOn # None => at' \in Sending)
         \/ ~ Dead /\ Unparked /\ TaskRecord(task') /\ task'.parkedOn = None
  PROVE  SinksInv'
<1>1. ASSUME NEW s \in Sinks PROVE SinkInv(s)'
  <2>1. SinkInv(s) /\ SinkChange(s) /\ SinkBuffer \in Nat
    BY DEF SinksInv
  <2>2. IsSeq(sink'[s].channel) /\ Len(sink'[s].channel) <= SinkBuffer + 1
    BY <2>1, ChannelShrinks DEF SinkInv
  <2>3. ASSUME ~ Dead', ~ sink'[s].alive
        PROVE  sink'[s].channel = <<>>
    BY <2>1, <2>3 DEF SinkInv, SinkChange
  <2>4. ASSUME ~ Dead', task'.parkedOn # s
        PROVE  Len(sink'[s].channel) <= SinkBuffer
    <3>1. Len(sink[s].channel) <= SinkBuffer
      BY <2>1, <2>4, AllUnparked DEF SinkInv
    <3> QED
      BY <2>1, <3>1, ChannelShrinks DEF SinkInv
  <2> QED
    BY <2>1, <2>2, <2>3, <2>4 DEF SinkInv, SinkChange
<1>2. TaskRecord(task')
  BY DEF SinksInv, TaskRecord
<1>3. task'.parkedOn # None => at' \in Sending
  OBVIOUS
<1> QED
  BY <1>1, <1>2, <1>3 DEF SinksInv

\* A step keeps the channels of the sinks bounded: the reactor waits for its
\* send to a sink before it goes on (reactor.rs, sink.send().await).
LEMMA SinksStep ==
  ASSUME SinksInv, [Next]_vars
  PROVE  SinksInv'
<1>0. /\ sink = [s \in Sinks |-> sink[s]] /\ TaskRecord(task)
      /\ task.parkedOn # None => at \in Sending
      /\ \A s \in Sinks : SinkInv(s) /\ SinkRecord(sink[s])
  BY DEF SinksInv, SinkInv
<1>1. ASSUME sink' = sink PROVE /\ sink' = [s \in Sinks |-> sink'[s]]
                                /\ \A s \in Sinks : SinkChange(s)
  BY <1>0, <1>1 DEF SinkChange
<1>2. CASE HandleInsertFact \/ HandleRegisterStream \/ HandleStreamFact \/ HandleHangup
  <2>1. at \in {"select", "drain"} /\ task' = task /\ sink' = sink
    BY <1>2 DEF HandleInsertFact, HandleRegisterStream, HandleStreamFact, HandleHangup, Take
  <2> QED
    BY <1>1, <2>1, NotSending, NothingSent
<1>3. CASE HandleRegisterSink
  <2>1. at \in {"select", "drain"} /\ task' = task
    BY <1>3 DEF HandleRegisterSink, Take
  <2>2. sink' = [s \in Sinks |-> sink'[s]]
    BY <1>0, <1>3 DEF HandleRegisterSink
  <2>3. ASSUME NEW s \in Sinks PROVE SinkChange(s)
    <3>1. sink'[s] = sink[s] \/ sink'[s] = [sink[s] EXCEPT !.since = Len(emitted)]
      BY <1>0, <1>3 DEF HandleRegisterSink
    <3> QED
      BY <1>0, <3>1 DEF SinkChange, SinkRecord
  <2> QED
    BY <2>1, <2>2, <2>3, NotSending, NothingSent
<1>4. CASE HandleFlush
  <2>1. /\ at \in {"select", "drain"}
        /\ \E order : task' = [NoTask EXCEPT !.command = Head(commands).id, !.message = Flush,
                                             !.targets = order, !.handles = order]
    BY <1>4 DEF HandleFlush, Take
  <2>2. TaskRecord(task') /\ task'.parkedOn = None
    BY <2>1 DEF NoTask, TaskRecord
  <2>3. sink' = [s \in Sinks |-> [sink[s] EXCEPT !.flushed = FALSE]]
    BY <1>4 DEF HandleFlush
  <2>4. ASSUME NEW s \in Sinks PROVE SinkChange(s)
    <3>1. sink'[s] = [sink[s] EXCEPT !.flushed = FALSE]
      BY <2>3
    <3> QED
      BY <1>0, <3>1 DEF SinkChange, SinkRecord
  <2>5. sink' = [s \in Sinks |-> sink'[s]]
    BY <2>3
  <2> QED
    BY <2>1, <2>2, <2>4, <2>5, NotSending, NothingSent
<1>5. CASE SendToSink
  <2> DEFINE x == Head(task.targets)
  <2>0. ~ Dead /\ Unparked
    BY <1>5 DEF SendToSink, Dead, Errors
  <2>1. \A s \in Sinks : Len(sink[s].channel) <= SinkBuffer
    BY <2>0, AllUnparked
  <2>2. CASE Open(x)
    <3>1. /\ sink' = [sink EXCEPT ![x].channel = Append(@, task.message)]
          /\ task' = [task EXCEPT !.targets = Tail(@), !.parkedOn = x]
          /\ at' = at /\ at \in Sending
      BY <1>5, <2>2 DEF SendToSink, Sending
    <3>2. TaskRecord(task') /\ task'.parkedOn = x
      BY <1>0, <3>1 DEF TaskRecord
    <3>3. ASSUME NEW s \in Sinks PROVE SinkInv(s)'
      <4>1. SinkInv(s) /\ SinkBuffer \in Nat /\ Dead' = Dead
        BY <1>0, <3>1 DEF Dead
      <4>2. CASE s = x
        <5>1. sink'[s] = [sink[s] EXCEPT !.channel = Append(@, task.message)]
          BY <1>0, <3>1, <4>2
        <5>2. /\ SinkRecord(sink'[s]) /\ sink'[s].alive = sink[s].alive
              /\ sink'[s].channel = Append(sink[s].channel, task.message)
          BY <1>0, <5>1 DEF SinkRecord
        <5>3. sink[s].alive
          BY <2>2, <4>2 DEF Open
        <5> QED
          BY SMTT(40), <2>1, <3>2, <4>1, <4>2, <5>2, <5>3, Appends DEF SinkInv
      <4>3. CASE s # x
        <5>1. sink'[s] = sink[s]
          BY <1>0, <3>1, <4>3
        <5> QED
          BY <2>1, <4>1, <5>1 DEF SinkInv
      <4> QED
        BY <4>2, <4>3
    <3>4. sink' = [s \in Sinks |-> sink'[s]]
      BY <1>0, <3>1
    <3> QED
      BY <3>1, <3>2, <3>3, <3>4 DEF SinksInv
  <2>3. CASE ~ Open(x)
    <3>1. sink' = sink /\ task' = task /\ at' \in Sending
      BY <1>5, <2>3 DEF SendToSink, Die, Sending, Errors
    <3> QED
      BY <1>1, <2>0, <3>1, NothingSent
  <2> QED
    BY <2>2, <2>3
<1>6. CASE FlushSent \/ PopFact \/ SendEvent
  <2>1. ~ Dead /\ Unparked /\ sink' = sink
    BY <1>6 DEF FlushSent, PopFact, SendEvent, Dead, Errors
  <2>2. ASSUME FlushSent PROVE TaskRecord(task') /\ task'.parkedOn = None
    <3>1. task' = [task EXCEPT !.message = None, !.parkedOn = None]
      BY <2>2 DEF FlushSent
    <3> QED
      BY <1>0, <3>1 DEF TaskRecord
  <2>3. ASSUME PopFact PROVE TaskRecord(task') /\ task'.parkedOn = None
    <3>1. task' = [NoTask EXCEPT !.message = Head(out), !.targets = TargetsOf(Head(out))]
      BY <2>3 DEF PopFact
    <3> QED
      BY <3>1 DEF NoTask, TaskRecord
  <2>4. ASSUME SendEvent PROVE TaskRecord(task') /\ task'.parkedOn = None
    <3>1. task' = NoTask
      BY <2>4 DEF SendEvent
    <3> QED
      BY <3>1 DEF NoTask, TaskRecord
  <2>5. TaskRecord(task') /\ task'.parkedOn = None
    BY <1>6, <2>2, <2>3, <2>4
  <2> QED
    BY <1>1, <2>1, <2>5, NothingSent
<1>7. CASE JoinFlush
  <2>1. at = "join" /\ sink' = sink /\ task' = NoTask
    BY <1>7 DEF JoinFlush
  <2>2. TaskRecord(task') /\ task'.parkedOn = None
    BY <2>1 DEF NoTask, TaskRecord
  <2> QED
    BY <1>1, <2>1, <2>2, NotSending, NothingSent
<1>8. CASE Evaluate \/ EventSent
  <2>1. at \in {"drain", "event"} /\ sink' = sink /\ task' = task
    BY <1>8 DEF Evaluate, EventSent
  <2> QED
    BY <1>1, <2>1, NotSending, NothingSent
<1>9. ASSUME NEW x \in Sinks, SinkReceives(x) \/ SinkAccepts(x) \/ SinkFails(x)
      PROVE  SinksInv'
  <2>1. at' = at /\ task' = task
    BY <1>9 DEF SinkReceives, SinkAccepts, SinkFails
  <2>2. \A s \in Sinks \ {x} : sink'[s] = sink[s]
    BY <1>0, <1>9 DEF SinkReceives, SinkAccepts, SinkFails
  <2>3. sink' = [s \in Sinks |-> sink'[s]]
    BY <1>0, <1>9 DEF SinkReceives, SinkAccepts, SinkFails
  <2>4. ASSUME SinkReceives(x) PROVE SinkChange(x)
    <3> DEFINE message == Head(sink[x].channel)
    <3>1. /\ sink'[x] = [sink[x] EXCEPT !.channel = Tail(@),
                                        !.alive   = message = Flush => ~ Dead,
                                        !.flushed = IF message = Flush THEN TRUE ELSE @,
                                        !.hand    = IF message = Flush THEN None ELSE message]
          /\ sink[x].alive /\ sink[x].channel # <<>>
      BY <1>0, <2>4 DEF SinkReceives
    <3>2. /\ SinkRecord(sink'[x])
          /\ sink'[x].channel = Tail(sink[x].channel)
          /\ sink'[x].alive = (message = Flush => ~ Dead)
      BY ZenonT(60), <1>0, <3>1 DEF SinkRecord
    <3> QED
      BY <3>1, <3>2 DEF SinkChange
  <2>5. ASSUME SinkAccepts(x) PROVE SinkChange(x)
    <3>1. sink'[x] = [sink[x] EXCEPT !.log = Append(@, sink[x].hand), !.hand = None]
      BY <1>0, <2>5 DEF SinkAccepts
    <3> QED
      BY <1>0, <3>1 DEF SinkChange, SinkRecord
  <2>6. ASSUME SinkFails(x) PROVE SinkChange(x)
    <3>1. sink'[x] = [sink[x] EXCEPT !.alive = FALSE, !.hand = None, !.channel = <<>>]
      BY <1>0, <2>6 DEF SinkFails
    <3> QED
      BY <1>0, <3>1 DEF SinkChange, SinkRecord
  <2>7. \A s \in Sinks : SinkChange(s)
    BY <1>0, <1>9, <2>2, <2>4, <2>5, <2>6 DEF SinkChange
  <2> QED
    BY <1>0, <2>1, <2>3, <2>7, NothingSent DEF Dead
<1>10. CASE \/ CallFlush
            \/ \E f \in Inserts : CallInsert(f)
            \/ \E s \in Sinks : CallRegister(s)
            \/ \E t \in Streams : CallStream(t)
            \/ Return \/ Cancel \/ Leave \/ TakeEvent \/ StopListening
            \/ \E t \in Streams : StreamSends(t)
            \/ UNCHANGED vars
  <2>1. at' = at /\ sink' = sink /\ task' = task
    BY <1>10 DEF CallFlush, CallInsert, CallRegister, CallStream, Call, Return, Cancel, Leave,
       TakeEvent, StopListening, StreamSends, vars
  <2> QED
    BY <1>0, <1>1, <2>1, NothingSent DEF Dead
<1> QED
  BY <1>2, <1>3, <1>4, <1>5, <1>6, <1>7, <1>8, <1>9, <1>10 DEF Next, ReactorStep

-----------------------------------------------------------------------------
ChannelsInv == CommandsInv /\ ArrivalsInv /\ EventsInv /\ SinksInv

\* All channels start empty.
LEMMA InitChannels == Init => ChannelsInv
<1> SUFFICES ASSUME Init PROVE ChannelsInv
  OBVIOUS
<1>1. CommandsInv
  BY Empty DEF Init, CommandsInv
<1>2. ArrivalsInv
  BY Empty DEF Init, ArrivalsInv
<1>3. EventsInv
  BY DEF Init, EventsInv
<1>4. SinksInv
  <2>1. \A s \in Sinks : sink[s] = NewSink
    BY DEF Init
  <2>2. ASSUME NEW s \in Sinks PROVE SinkInv(s)
    BY <2>1, Empty DEF SinkInv, SinkRecord, NewSink
  <2> QED
    BY <2>2 DEF Init, SinksInv, NoTask, TaskRecord
<1> QED
  BY <1>1, <1>2, <1>3, <1>4 DEF ChannelsInv

\* Whatever the buffers and however many sinks and streams there are, no channel
\* of the reactor outgrows its buffer by more than a message per sender: every
\* producer awaits its send (client.rs, reactor.rs), so none floods another.
THEOREM BackPressure == Spec => []ChannelsBounded
<1>1. ChannelsInv /\ [Next]_vars => ChannelsInv'
  BY CommandsStep, ArrivalsStep, EventsStep, SinksStep DEF ChannelsInv
<1>2. ChannelsInv => ChannelsBounded
  BY ArrivalsBounded
  DEF ChannelsInv, ChannelsBounded, CommandsInv, EventsInv, SinksInv, SinkInv
<1> QED
  BY InitChannels, <1>1, <1>2, PTL DEF Spec

-----------------------------------------------------------------------------
(* What the steps of the reactor preserve, one part of its inductive         *)
(* invariant after the other: the calls and the queue of commands, what goes *)
(* into the engine, who is registered, what comes out of the engine, what is *)
(* being sent, and what a sink holds.  Delivery_proofs puts them together.   *)

HIDE ReactorAssumption

\* What ReactorAssumption says of the constants, in the form the steps use.
LEMMA Constants ==
  /\ Inserts \subseteq AllInputs
  /\ \A t \in Streams : /\ Len(StreamFacts[t]) \in Nat
                        /\ \A k \in 1..Len(StreamFacts[t]) : StreamFacts[t][k] \in AllInputs
  /\ MaxCalls \in Nat
  /\ \A s \in Sinks : Flush \notin Wants[s] /\ None \notin Wants[s] /\ s # None
  /\ None # Flush /\ None \notin Nat
<1>1. Inserts \subseteq AllInputs
  BY DEF AllInputs
<1>2. \A t \in Streams : StreamFacts[t] \in Seq(AllInputs)
  BY ReactorAssumption
<1>3. ASSUME NEW t \in Streams PROVE /\ Len(StreamFacts[t]) \in Nat
                        /\ \A k \in 1..Len(StreamFacts[t]) : StreamFacts[t][k] \in AllInputs
  BY <1>2
<1>4. MaxCalls \in Nat
  BY ReactorAssumption
<1>5. Flush \notin Emittable /\ None \notin Emittable \cup Sinks \cup Nat \cup {Flush}
  BY ReactorAssumption
<1> QED
  BY <1>1, <1>3, <1>4, <1>5 DEF Emittable

-----------------------------------------------------------------------------
(* The commands: each is younger than the one before it, and the youngest is *)
(* the call under way or made last.                                          *)

Commands ==
  [op : {"insert"}, arg : Inserts, id : 1..MaxCalls]
    \cup [op : {"sink"}, arg : Sinks, id : 1..MaxCalls]
    \cup [op : {"stream"}, arg : Streams, id : 1..MaxCalls]
    \cup [op : {"flush"}, arg : {None}, id : 1..MaxCalls]

Places == {"select", "drain", "flush", "join", "deliver", "event"} \cup Errors

Flushing == at \in {"flush", "join"}

CallInv ==
  /\ client \in {"idle", "calling", "gone", "closed"}
  /\ call = [op |-> call.op, arg |-> call.arg, id |-> call.id, answer |-> call.answer,
             acked |-> call.acked, derived |-> call.derived]
  /\ call.id \in 0..MaxCalls
  /\ call.answer \in {"none", "ok", "err"}
  /\ call.op = "insert" => call.arg \in Inserts
  /\ acked \subseteq Inserts
  /\ at \in Places

QueueInv ==
  /\ commands \in Seq(Commands)
  /\ \A i, j \in 1..Len(commands) : i < j => commands[i].id < commands[j].id
  /\ \A i \in 1..Len(commands) :
       /\ commands[i].id <= call.id
       /\ commands[i].id = call.id => commands[i].op = call.op /\ commands[i].arg = call.arg
  /\ call.answer = "ok" => commands = <<>>
  /\ Flushing => /\ task.command \in 1..call.id
                 /\ \A i \in 1..Len(commands) : task.command < commands[i].id
                 /\ task.command = call.id => call.op = "flush"

\* What a call is does not change while it is under way.
CallKept ==
  /\ call' = [op |-> call.op, arg |-> call.arg, id |-> call.id, answer |-> call'.answer,
              acked |-> call.acked, derived |-> call.derived]
  /\ call'.answer \in {call.answer, "ok", "err"}

\* An error ends the reactor and answers nobody, but with the error of a
\* dropped channel (reactor.rs, the ? of the calls of async_run).
LEMMA DieKeeps ==
  ASSUME CallInv, NEW error, Die(error)
  PROVE  /\ CallKept /\ at' = error
         /\ call'.answer \in {call.answer, "err"} /\ call'.answer # "none"
<1>1. call' = call \/ call' = [call EXCEPT !.answer = "err"]
  BY DEF Die
<1>2. CallKept
  BY <1>1 DEF CallInv, CallKept
<1>3. call'.answer \in {call.answer, "err"} /\ call'.answer # "none"
  BY DEF Die, CallInv
<1> QED
  BY <1>2, <1>3 DEF Die

\* A reply reaches the call that waits for it, or ends the reactor
\* (reactor.rs: sender.send().map_err(InternalRhizomeError)).
LEMMA ReplyKeeps ==
  ASSUME CallInv, NEW id, Reply(id)
  PROVE  /\ CallKept
         /\ \/ /\ client = "calling" /\ call.id = id
               /\ at' = "drain" /\ call'.answer = "ok"
            \/ /\ ~ (client = "calling" /\ call.id = id)
               /\ at' = "reply failed" /\ call'.answer \in {call.answer, "err"}
               /\ call'.answer # "none"
<1>1. CASE client = "calling" /\ call.id = id
  <2>1. call' = [call EXCEPT !.answer = "ok"] /\ at' = "drain"
    BY <1>1 DEF Reply, Handled
  <2> QED
    BY <1>1, <2>1 DEF CallInv, CallKept
<1>2. CASE ~ (client = "calling" /\ call.id = id)
  <2>1. Die("reply failed")
    BY <1>2 DEF Reply
  <2> QED
    BY <1>2, <2>1, DieKeeps
<1> QED
  BY <1>1, <1>2

\* A step of a call: the command sent is well formed.
Calls ==
  \E op, arg :
    /\ Call(op, arg)
    /\ [op |-> op, arg |-> arg, id |-> call.id + 1] \in Commands
    /\ op = "insert" => arg \in Inserts
    /\ op = "sink" => arg \in Sinks /\ arg \notin Registered

\* A method of the client sends a well-formed command (client.rs).
LEMMA CallsAre ==
  ASSUME CallInv,
         \/ CallFlush
         \/ \E f \in Inserts : CallInsert(f)
         \/ \E s \in Sinks : CallRegister(s)
         \/ \E t \in Streams : CallStream(t)
  PROVE  Calls
<1>0. ASSUME NEW op, NEW arg, Call(op, arg) PROVE call.id + 1 \in 1..MaxCalls
  BY <1>0, Constants DEF Call, CallInv
<1>1. CASE CallFlush
  <2>1. Call("flush", None)
    BY <1>1 DEF CallFlush
  <2>2. [op |-> "flush", arg |-> None, id |-> call.id + 1] \in Commands
    BY <2>1, <1>0 DEF Commands
  <2> QED
    BY <2>1, <2>2 DEF Calls
<1>2. ASSUME NEW f \in Inserts, CallInsert(f) PROVE Calls
  <2>1. Call("insert", f)
    BY <1>2 DEF CallInsert
  <2>2. [op |-> "insert", arg |-> f, id |-> call.id + 1] \in Commands
    BY <2>1, <1>0 DEF Commands
  <2> QED
    BY <2>1, <2>2 DEF Calls
<1>3. ASSUME NEW s \in Sinks, CallRegister(s) PROVE Calls
  <2>1. Call("sink", s) /\ s \notin Registered
    BY <1>3 DEF CallRegister, Registered, ToSet
  <2>2. [op |-> "sink", arg |-> s, id |-> call.id + 1] \in Commands
    BY <2>1, <1>0 DEF Commands
  <2> QED
    BY <2>1, <2>2 DEF Calls
<1>4. ASSUME NEW t \in Streams, CallStream(t) PROVE Calls
  <2>1. Call("stream", t)
    BY <1>4 DEF CallStream
  <2>2. [op |-> "stream", arg |-> t, id |-> call.id + 1] \in Commands
    BY <2>1, <1>0 DEF Commands
  <2> QED
    BY <2>1, <2>2 DEF Calls
<1> QED
  BY <1>1, <1>2, <1>3, <1>4

\* Handlers that take a command and answer it at once.
Answers(op) ==
  /\ Take(op)
  /\ Reply(Head(commands).id)
  /\ op = "insert" => HandleInsertFact
  /\ UNCHANGED <<client, acked, task>>

\* The branches of handle_command that answer at once.
LEMMA AnswersAre ==
  /\ HandleInsertFact => Answers("insert")
  /\ HandleRegisterSink => Answers("sink")
  /\ HandleRegisterStream => Answers("stream")
BY DEF HandleInsertFact, HandleRegisterSink, HandleRegisterStream, Answers

\* Steps that neither call nor take a command nor answer one.
Ends ==
  \/ call' = call /\ at' = at
  \/ call' = call /\ at' \in Places \ Errors
  \/ at' \in Errors \ {"reply failed"} /\ Die(at')

Goes ==
  /\ UNCHANGED <<acked, commands>>
  /\ \/ client' = client
     \/ client' \in {"idle", "gone", "closed"} /\ (dropped' \/ client # "calling")
  /\ Ends
  /\ Flushing' => Flushing /\ task'.command = task.command

\* All other steps leave the calls and the commands alone.
LEMMA GoesAre ==
  ASSUME CallInv, SinksInv,
         \/ Cancel \/ Leave \/ TakeEvent \/ StopListening
         \/ SendToSink \/ FlushSent \/ HandleStreamFact \/ HandleHangup
         \/ Evaluate \/ PopFact \/ SendEvent \/ EventSent
         \/ \E s \in Sinks : (SinkReceives(s) \/ SinkAccepts(s) \/ SinkFails(s))
         \/ \E t \in Streams : StreamSends(t)
         \/ UNCHANGED vars
  PROVE  Goes
<1> USE DEF Flushing, clientVars
<1>0. TaskRecord(task) /\ at \in Places
  BY DEF SinksInv, CallInv
<1>1. CASE Cancel \/ Leave \/ TakeEvent \/ StopListening
  BY <1>0, <1>1 DEF Goes, Ends, Cancel, Leave, TakeEvent, StopListening
<1>2. CASE SendToSink
  <2>1. task'.command = task.command
    <3>1. task' = task \/ \E s : task' = [task EXCEPT !.targets = Tail(@), !.parkedOn = s]
      BY <1>2 DEF SendToSink
    <3> QED
      BY <1>0, <3>1 DEF TaskRecord
  <2>2. (at' = at /\ call' = call) \/ Die("send failed")
    BY <1>2 DEF SendToSink
  <2>3. Ends
    BY <1>0, <2>2 DEF Ends, Die, Errors
  <2>4. Flushing' => Flushing
    BY <2>2 DEF Die
  <2> QED
    BY <1>2, <2>1, <2>3, <2>4 DEF Goes, SendToSink
<1>3. CASE FlushSent
  <2>1. task' = [task EXCEPT !.message = None, !.parkedOn = None]
    BY <1>3 DEF FlushSent
  <2>2. task'.command = task.command
    BY <1>0, <2>1 DEF TaskRecord
  <2> QED
    BY <1>3, <2>2 DEF FlushSent, Goes, Ends, Places, Errors
<1>4. CASE HandleStreamFact \/ HandleHangup \/ Evaluate \/ PopFact \/ EventSent
  BY <1>0, <1>4 DEF Goes, Ends, Places, Errors, HandleStreamFact, HandleHangup, Evaluate, PopFact,
     EventSent, Handled
<1>5. CASE SendEvent
  <2>1. (at' = "event" /\ call' = call) \/ Die("event failed")
    BY <1>5 DEF SendEvent
  <2>2. Ends
    BY <2>1 DEF Ends, Die, Places, Errors
  <2>3. ~ Flushing'
    BY ZenonT(60), <2>1 DEF Die
  <2> QED
    BY <1>5, <2>2, <2>3 DEF SendEvent, Goes
<1>6. CASE \/ \E s \in Sinks : (SinkReceives(s) \/ SinkAccepts(s) \/ SinkFails(s))
           \/ \E t \in Streams : StreamSends(t)
  BY <1>0, <1>6 DEF Goes, Ends, SinkReceives, SinkAccepts, SinkFails, StreamSends
<1>7. CASE UNCHANGED vars
  BY <1>0, <1>7 DEF Goes, Ends, vars, clientVars
<1> QED
  BY <1>1, <1>2, <1>3, <1>4, <1>5, <1>6, <1>7

\* Every step, by what it does to the calls.
LEMMA CallSteps ==
  ASSUME CallInv, SinksInv, [Next]_vars
  PROVE  \/ Calls
         \/ Return
         \/ \E op \in {"insert", "sink", "stream"} : Answers(op)
         \/ HandleFlush
         \/ JoinFlush
         \/ Goes
<1>1. CASE ReactorStep
  BY <1>1, AnswersAre, GoesAre DEF ReactorStep
<1>2. CASE \/ CallFlush
           \/ \E f \in Inserts : CallInsert(f)
           \/ \E s \in Sinks : CallRegister(s)
           \/ \E t \in Streams : CallStream(t)
  BY <1>2, CallsAre
<1>3. CASE Return \/ Cancel \/ Leave \/ TakeEvent \/ StopListening
  BY <1>3, GoesAre
<1>4. CASE \/ \E s \in Sinks : (SinkReceives(s) \/ SinkAccepts(s) \/ SinkFails(s))
           \/ \E t \in Streams : StreamSends(t)
  BY <1>4, GoesAre
<1>5. CASE UNCHANGED vars
  BY <1>5, GoesAre
<1> QED
  BY <1>1, <1>2, <1>3, <1>4, <1>5 DEF Next

-----------------------------------------------------------------------------
\* A step keeps CallInv: the client and its call are well formed.
LEMMA CallStep ==
  ASSUME CallInv, SinksInv, [Next]_vars
  PROVE  CallInv'
<1>1. CASE Calls
  <2>1. PICK op, arg : /\ Call(op, arg)
                       /\ op = "insert" => arg \in Inserts
                       /\ [op |-> op, arg |-> arg, id |-> call.id + 1] \in Commands
    BY <1>1 DEF Calls
  <2>2. /\ client' = "calling" /\ at' = at /\ acked' = acked
        /\ call' = [op |-> op, arg |-> arg, id |-> call.id + 1, answer |-> "none",
                    acked |-> acked, derived |-> derived]
    BY <2>1 DEF Call
  <2>3. call.id + 1 \in 0..MaxCalls
    BY <2>1, Constants DEF CallInv, Call
  <2> QED
    BY <2>1, <2>2, <2>3 DEF CallInv
<1>2. CASE Return
  <2>1. /\ client' = "idle" /\ at' = at /\ call' = call
        /\ acked' = IF call.op = "insert" /\ call.answer = "ok" THEN acked \cup {call.arg}
                    ELSE acked
    BY <1>2 DEF Return
  <2> QED
    BY <2>1 DEF CallInv
<1>3. ASSUME CallKept, client' \in {client, "idle", "gone", "closed"}, acked' = acked,
             at' \in Places
      PROVE  CallInv'
  <2>1. /\ call'.op = call.op /\ call'.arg = call.arg /\ call'.id = call.id
        /\ call'.acked = call.acked /\ call'.derived = call.derived
    BY <1>3 DEF CallKept
  <2>2. call' = [op |-> call'.op, arg |-> call'.arg, id |-> call'.id, answer |-> call'.answer,
                 acked |-> call'.acked, derived |-> call'.derived]
    BY <1>3, <2>1 DEF CallKept
  <2>3. call'.answer \in {"none", "ok", "err"}
    BY <1>3 DEF CallKept, CallInv
  <2> QED
    BY <1>3, <2>1, <2>2, <2>3 DEF CallInv
<1>4. ASSUME NEW id, Reply(id), UNCHANGED <<client, acked>>
      PROVE  CallInv'
  <2>1. at' \in Places
    BY <1>4, ReplyKeeps DEF Places, Errors
  <2> QED
    BY <1>3, <1>4, <2>1, ReplyKeeps
<1>5. CASE \E op : Answers(op)
  BY <1>4, <1>5 DEF Answers
<1>6. CASE HandleFlush
  <2>1. client' = client /\ call' = call /\ acked' = acked /\ at' = "flush"
    BY <1>6 DEF HandleFlush, clientVars
  <2> QED
    BY <2>1 DEF CallInv, Places
<1>7. CASE JoinFlush
  <2>1. UNCHANGED <<client, acked>> /\ (Reply(task.command) \/ Die("ack failed"))
    BY <1>7 DEF JoinFlush
  <2>2. CASE Die("ack failed")
    BY <1>3, <2>1, <2>2, DieKeeps DEF Places, Errors
  <2> QED
    BY <1>4, <2>1, <2>2
<1>8. CASE Goes
  <2>1. CASE call' = call /\ at' \in Places
    BY <1>8, <2>1 DEF Goes, CallInv
  <2>2. CASE at' \in Errors /\ Die(at')
    <3>1. CallKept
      BY <2>2, DieKeeps
    <3> QED
    BY <1>3, <1>8, <2>2, <3>1 DEF Goes, Places
  <2> QED
    BY <1>8, <2>1, <2>2 DEF Goes, Ends, CallInv
<1> QED
  BY <1>1, <1>2, <1>5, <1>6, <1>7, <1>8, CallSteps

\* A sequence without elements is empty.
LEMMA NoElements ==
  ASSUME NEW S, NEW q \in Seq(S), \A i \in 1..Len(q) : FALSE
  PROVE  q = <<>>
<1>1. Len(q) = 0
  OBVIOUS
<1> QED
  BY <1>1

\* When a command is taken the others stay in order, and follow it.
LEMMA Taken ==
  ASSUME QueueInv, commands # <<>>
  PROVE  /\ Head(commands) = commands[1] /\ Head(commands) \in Commands
         /\ Tail(commands) \in Seq(Commands)
         /\ \A i \in 1..Len(Tail(commands)) :
              /\ i + 1 \in 1..Len(commands) /\ Tail(commands)[i] = commands[i + 1]
              /\ Head(commands).id < Tail(commands)[i].id
         /\ Head(commands).id = call.id => Tail(commands) = <<>>
<1>1. /\ Head(commands) = commands[1] /\ Head(commands) \in Commands
      /\ Tail(commands) \in Seq(Commands)
      /\ 1 \in 1..Len(commands) /\ Len(Tail(commands)) \in Nat
      /\ \A i \in 1..Len(Tail(commands)) :
           i + 1 \in 1..Len(commands) /\ Tail(commands)[i] = commands[i + 1]
  BY DEF QueueInv
<1>2. ASSUME NEW i \in 1..Len(Tail(commands))
      PROVE  Head(commands).id < Tail(commands)[i].id /\ Tail(commands)[i].id <= call.id
  <2>1. 1 < i + 1
    OBVIOUS
  <2> QED
    BY <1>1, <2>1 DEF QueueInv
<1>3. ASSUME Head(commands).id = call.id PROVE Tail(commands) = <<>>
  <2>1. Head(commands).id \in Nat /\ \A i \in 1..Len(Tail(commands)) : Tail(commands)[i].id \in Nat
    BY <1>1 DEF Commands
  <2>2. ASSUME NEW i \in 1..Len(Tail(commands)) PROVE FALSE
    <3>1. Head(commands).id < Tail(commands)[i].id /\ Tail(commands)[i].id <= Head(commands).id
      BY <1>2, <1>3
    <3>2. Head(commands).id \in Nat /\ Tail(commands)[i].id \in Nat
      BY <2>1
    <3> HIDE DEF CallInv, QueueInv
    <3> QED
      BY <3>1, <3>2
  <2> QED
    BY <1>1, <2>2, NoElements
<1> QED
  BY <1>1, <1>2, <1>3

\* A step keeps QueueInv: commands are taken in the order they were sent in, and
\* a call is only answered once the queue in front of it is empty.
LEMMA QueueStep ==
  ASSUME CallInv, QueueInv, SinksInv, [Next]_vars
  PROVE  QueueInv'
<1> USE DEF Flushing
<1>0. \A i \in 1..Len(commands) : commands[i] \in Commands /\ commands[i].id \in 1..MaxCalls
  BY DEF QueueInv, Commands
<1>a. Len(commands) \in Nat /\ call.id \in Nat
  BY Constants DEF QueueInv, CallInv
<1>1. CASE Calls
  <2>1. PICK op, arg : /\ Call(op, arg)
                       /\ [op |-> op, arg |-> arg, id |-> call.id + 1] \in Commands
    BY <1>1 DEF Calls
  <2> DEFINE c == [op |-> op, arg |-> arg, id |-> call.id + 1]
  <2>2. /\ commands' = Append(commands, c) /\ UNCHANGED <<at, task>>
        /\ call'.id = call.id + 1 /\ call'.op = op /\ call'.arg = arg /\ call'.answer = "none"
    BY <2>1 DEF Call
  <2> HIDE DEF c
  <2>3. /\ commands' \in Seq(Commands) /\ Len(commands') = Len(commands) + 1
        /\ \A i \in 1..Len(commands) : commands'[i] = commands[i]
        /\ commands'[Len(commands) + 1] = c
    BY <2>1, <2>2 DEF QueueInv, c
  <2>4. c.id = call.id + 1 /\ c.op = op /\ c.arg = arg
    BY DEF c
  <2>5. ASSUME NEW i \in 1..Len(commands'), NEW j \in 1..Len(commands'), i < j
        PROVE  commands'[i].id < commands'[j].id
    <3>1. CASE j \in 1..Len(commands)
      BY <1>a, <2>3, <2>5, <3>1 DEF QueueInv
    <3>2. CASE j = Len(commands) + 1
      <4>1. i \in 1..Len(commands)
        BY <1>a, <2>3, <2>5, <3>2
      <4>2. commands[i].id <= call.id /\ commands[i].id \in Nat
        BY <1>0, <4>1 DEF QueueInv
      <4> QED
        BY <1>a, <2>3, <2>4, <3>2, <4>1, <4>2
    <3> QED
      BY <1>a, <2>3, <3>1, <3>2
  <2>6. ASSUME NEW i \in 1..Len(commands')
        PROVE  /\ commands'[i].id <= call'.id
               /\ commands'[i].id = call'.id =>
                    commands'[i].op = call'.op /\ commands'[i].arg = call'.arg
    <3>1. CASE i \in 1..Len(commands)
      <4>1. commands[i].id <= call.id /\ commands[i].id \in Nat /\ commands'[i] = commands[i]
        BY <1>0, <2>3, <3>1 DEF QueueInv
      <4> QED
        BY <1>a, <2>2, <4>1
    <3>2. CASE i = Len(commands) + 1
      BY <1>a, <2>2, <2>3, <2>4, <3>2
    <3> QED
      BY <1>a, <2>3, <3>1, <3>2
  <2>7. ASSUME Flushing'
        PROVE  /\ task'.command \in 1..call'.id
               /\ \A i \in 1..Len(commands') : task'.command < commands'[i].id
               /\ task'.command = call'.id => call'.op = "flush"
    <3>1. task'.command = task.command /\ task.command \in 1..call.id
      BY <2>2, <2>7 DEF QueueInv
    <3>2. ASSUME NEW i \in 1..Len(commands') PROVE task.command < commands'[i].id
      <4>1. CASE i \in 1..Len(commands)
        BY <2>2, <2>3, <2>7, <4>1 DEF QueueInv
      <4>2. CASE i = Len(commands) + 1
        BY <1>a, <2>3, <2>4, <3>1, <4>2
      <4> QED
        BY <1>a, <2>3, <4>1, <4>2
    <3> QED
      BY <1>a, <2>2, <3>1, <3>2
  <2> QED
    BY <2>2, <2>3, <2>5, <2>6, <2>7 DEF QueueInv
<1>2. CASE Return
  BY <1>2 DEF Return, QueueInv
\* A command is taken.
<1>3. ASSUME commands # <<>>, commands' = Tail(commands), CallKept \/ call' = call,
             call'.answer = "ok" => Tail(commands) = <<>>,
             Flushing' => task'.command = Head(commands).id /\ Head(commands).op = "flush"
      PROVE  QueueInv'
  <2> DEFINE q == Tail(commands)
  <2>1. /\ Head(commands) = commands[1] /\ Head(commands) \in Commands
        /\ q \in Seq(Commands)
        /\ \A i \in 1..Len(q) :
             /\ i + 1 \in 1..Len(commands) /\ q[i] = commands[i + 1]
             /\ Head(commands).id < q[i].id
    BY <1>3, Taken
  <2>2. call'.op = call.op /\ call'.arg = call.arg /\ call'.id = call.id
    BY <1>3 DEF CallKept
  <2>3. commands' = q
    BY <1>3
  <2>h. /\ Head(commands).id \in 1..call.id
        /\ Head(commands).id = call.id => Head(commands).op = call.op
    <3>1. 1 \in 1..Len(commands)
      BY <1>3 DEF QueueInv
    <3> QED
      BY <1>0, <1>a, <2>1, <3>1 DEF QueueInv
  <2> HIDE DEF q
  <2>4. ASSUME NEW i \in 1..Len(q), NEW j \in 1..Len(q), i < j
        PROVE  q[i].id < q[j].id
    <3>1. i + 1 < j + 1
      BY <2>4
    <3> QED
      BY <2>1, <3>1 DEF QueueInv
  <2>5. ASSUME NEW i \in 1..Len(q)
        PROVE  /\ q[i].id <= call.id
               /\ q[i].id = call.id => q[i].op = call.op /\ q[i].arg = call.arg
    BY <2>1 DEF QueueInv
  <2>6. ASSUME Flushing'
        PROVE  /\ task'.command \in 1..call.id
               /\ \A i \in 1..Len(q) : task'.command < q[i].id
               /\ task'.command = call.id => call.op = "flush"
    <3>1. task'.command = Head(commands).id /\ Head(commands).op = "flush"
      BY <1>3, <2>6
    <3> QED
      BY <2>1, <2>h, <3>1
  <2>7. call'.answer = "ok" => q = <<>>
    BY <1>3 DEF q
  <2> QED
    BY <2>1, <2>2, <2>3, <2>4, <2>5, <2>6, <2>7 DEF QueueInv
<1>4. CASE \E op : Answers(op)
  <2>1. /\ commands # <<>> /\ commands' = Tail(commands) /\ Reply(Head(commands).id)
    BY <1>4 DEF Answers, Take
  <2>2. call'.answer = "ok" => Tail(commands) = <<>>
    BY <2>1, ReplyKeeps, Taken DEF QueueInv
  <2> QED
    BY <1>3, <2>1, <2>2, ReplyKeeps
<1>5. CASE HandleFlush
  <2>1. /\ commands # <<>> /\ commands' = Tail(commands) /\ call' = call
        /\ Head(commands).op = "flush" /\ task'.command = Head(commands).id
    BY <1>5 DEF HandleFlush, Take, clientVars, NoTask
  <2>2. call'.answer = "ok" => Tail(commands) = <<>>
    BY <2>1 DEF QueueInv
  <2> QED
    BY <1>3, <2>1, <2>2
\* None is taken.
<1>6. ASSUME commands' = commands, CallKept \/ call' = call,
             call'.answer = "ok" => commands = <<>>,
             Flushing' => Flushing /\ task'.command = task.command
      PROVE  QueueInv'
  <2>1. call'.op = call.op /\ call'.arg = call.arg /\ call'.id = call.id
    BY <1>6 DEF CallKept
  <2> QED
    BY <1>6, <2>1 DEF QueueInv
<1>7. CASE JoinFlush
  <2>1. at = "join" /\ commands' = commands /\ (Reply(task.command) \/ Die("ack failed"))
    BY <1>7 DEF JoinFlush
  <2>2. CASE Die("ack failed")
    <3>1. CallKept /\ at' = "ack failed" /\ call'.answer \in {call.answer, "err"}
      BY <2>2, DieKeeps
    <3>2. ~ Flushing' /\ (call'.answer = "ok" => commands = <<>>)
      BY <3>1 DEF QueueInv
    <3> QED
      BY <1>6, <2>1, <3>1, <3>2
  <2>3. CASE Reply(task.command)
    <3>1. ASSUME task.command = call.id PROVE commands = <<>>
      <4>1. ASSUME NEW i \in 1..Len(commands) PROVE FALSE
        <5>1. task.command < commands[i].id /\ commands[i].id <= call.id
          BY <2>1 DEF QueueInv
        <5> QED
          BY <1>0, <1>a, <3>1, <5>1
      <4> QED
        BY <4>1, NoElements DEF QueueInv
    <3>2. call'.answer = "ok" => commands = <<>>
      BY <2>3, <3>1, ReplyKeeps DEF QueueInv
    <3>3. ~ Flushing'
      BY <2>3, ReplyKeeps
    <3> QED
      BY <1>6, <2>1, <2>3, <3>2, <3>3, ReplyKeeps
  <2> QED
    BY <2>1, <2>2, <2>3
<1>8. CASE Goes
  <2>1. CASE call' = call
    BY <1>6, <1>8, <2>1 DEF Goes, QueueInv
  <2>2. CASE at' \in Errors /\ Die(at')
    BY <1>6, <1>8, <2>2, DieKeeps DEF Goes, QueueInv
  <2> QED
    BY <1>8, <2>1, <2>2 DEF Goes, Ends
<1> QED
  BY <1>1, <1>2, <1>4, <1>5, <1>7, <1>8, CallSteps

-----------------------------------------------------------------------------
\* The steps that change what has been put in and put out, and the sinks known.

\* Which steps change what the engine and the reactor remember; an error is
\* final.
LEMMA Frames ==
  ASSUME [Next]_vars
  PROVE  /\ HandleRegisterSink \/ registered' = registered
         /\ PopFact \/ emitted' = emitted
         /\ PopFact \/ Evaluate \/ out' = out
         /\ Evaluate \/ HandleInsertFact \/ HandleStreamFact \/ pending' = pending
         /\ Evaluate \/ UNCHANGED <<base, derived>>
         /\ HandleStreamFact \/ (\E t \in Streams : StreamSends(t)) \/ arrivals' = arrivals
         /\ HandleRegisterStream \/ (\E t \in Streams : StreamSends(t)) \/ streamed' = streamed
         /\ Dead => Dead'
<1> USE DEF engineVars, outVars, streamVars, Dead, Errors
<1>1. CASE ReactorStep
  <2>1. CASE HandleInsertFact \/ HandleStreamFact
    BY <2>1 DEF HandleInsertFact, HandleStreamFact, Eng!Submit, Take, Handled
  <2>2. CASE HandleRegisterSink \/ HandleRegisterStream \/ HandleFlush \/ HandleHangup
    BY <2>2 DEF HandleRegisterSink, HandleRegisterStream, HandleFlush, HandleHangup, Take
  <2>3. CASE SendToSink \/ FlushSent \/ JoinFlush \/ SendEvent \/ EventSent
    BY <2>3 DEF SendToSink, FlushSent, JoinFlush, SendEvent, EventSent
  <2>4. CASE Evaluate \/ PopFact
    BY <2>4 DEF Evaluate, PopFact
  <2> QED
    BY <1>1, <2>1, <2>2, <2>3, <2>4 DEF ReactorStep
<1>2. CASE \/ CallFlush
           \/ \E f \in Inserts : CallInsert(f)
           \/ \E s \in Sinks : CallRegister(s)
           \/ \E t \in Streams : CallStream(t)
  BY ZenonT(60), <1>2 DEF CallFlush, CallInsert, CallRegister, CallStream, Call
<1>3. CASE Return \/ Cancel \/ Leave \/ TakeEvent \/ StopListening
  BY ZenonT(60), <1>3 DEF Return, Cancel, Leave, TakeEvent, StopListening
<1>4. CASE \/ \E s \in Sinks : (SinkReceives(s) \/ SinkAccepts(s) \/ SinkFails(s))
           \/ \E t \in Streams : StreamSends(t)
  BY <1>4 DEF SinkReceives, SinkAccepts, SinkFails, StreamSends
<1>5. CASE UNCHANGED vars
  BY <1>5 DEF vars
<1> QED
  BY <1>1, <1>2, <1>3, <1>4, <1>5 DEF Next

\* How the reactor moves.

\* Where the reactor goes: it leaves its loops of sends only when they are over.
LEMMA Moves ==
  ASSUME [Next]_vars
  PROVE  /\ at = "deliver" => SendEvent \/ at' = "deliver" \/ Dead'
         /\ at' = "deliver" => at = "deliver" \/ Evaluate
         /\ Flushing => Flushing' \/ JoinFlush \/ Dead'
         /\ Flushing' => Flushing \/ HandleFlush
<1> USE DEF Dead, Errors, Flushing
<1>1. CASE HandleInsertFact \/ HandleRegisterSink \/ HandleRegisterStream \/ HandleFlush
           \/ HandleStreamFact \/ HandleHangup
  BY <1>1 DEF HandleInsertFact, HandleRegisterSink, HandleRegisterStream, HandleFlush,
     HandleStreamFact, HandleHangup, Take, Reply, Handled, Die
<1>2. CASE SendToSink \/ FlushSent \/ JoinFlush \/ SendEvent \/ EventSent \/ Evaluate \/ PopFact
  BY ZenonT(60), <1>2 DEF SendToSink, FlushSent, JoinFlush, SendEvent, EventSent, Evaluate, PopFact, Reply,
     Handled, Die
<1>3. CASE \/ CallFlush
           \/ \E f \in Inserts : CallInsert(f)
           \/ \E s \in Sinks : CallRegister(s)
           \/ \E t \in Streams : CallStream(t)
           \/ Return \/ Cancel \/ Leave \/ TakeEvent \/ StopListening
           \/ \E s \in Sinks : (SinkReceives(s) \/ SinkAccepts(s) \/ SinkFails(s))
           \/ \E t \in Streams : StreamSends(t)
           \/ UNCHANGED vars
  <2>1. at' = at
    BY <1>3 DEF CallFlush, CallInsert, CallRegister, CallStream, Call, Return, Cancel, Leave,
       TakeEvent, StopListening, StreamSends, SinkReceives, SinkAccepts, SinkFails, vars
  <2> QED
    BY <2>1
<1> QED
  BY <1>1, <1>2, <1>3 DEF Next, ReactorStep

-----------------------------------------------------------------------------
(* What goes into the engine. *)

InputsInv ==
  /\ pending \subseteq AllInputs /\ base \subseteq AllInputs
  /\ arrivals \in Seq(AllInputs)
  /\ \A t \in Streams : streamed[t] \in Nat \cup {None}
  /\ streamed = [t \in Streams |-> streamed[t]]

\* A step keeps InputsInv: the engine is given facts only.
LEMMA InputsStep ==
  ASSUME QueueInv, InputsInv, [Next]_vars
  PROVE  InputsInv'
<1>1. CASE HandleInsertFact
  <2>1. /\ pending' = pending \cup {Head(commands).arg} /\ UNCHANGED <<base, arrivals, streamed>>
        /\ commands # <<>> /\ Head(commands).op = "insert"
    BY <1>1 DEF HandleInsertFact, Eng!Submit, Take, streamVars
  <2>2. Head(commands).arg \in Inserts
    BY <2>1, Taken DEF Commands
  <2> QED
    BY <2>1, <2>2, Constants DEF InputsInv
<1>2. CASE HandleStreamFact
  <2>1. /\ pending' = pending \cup {Head(arrivals)} /\ UNCHANGED <<base, streamed>>
        /\ arrivals # <<>> /\ arrivals' = Tail(arrivals)
    BY <1>2 DEF HandleStreamFact, Eng!Submit
  <2> QED
    BY <2>1 DEF InputsInv
<1>3. CASE Evaluate
  BY <1>3 DEF Evaluate, Eng!Evaluate, InputsInv, streamVars
<1>4. CASE HandleRegisterStream
  BY <1>4 DEF HandleRegisterStream, engineVars, InputsInv
<1>5. ASSUME NEW t \in Streams, StreamSends(t) PROVE InputsInv'
  <2>1. /\ streamed[t] # None /\ streamed[t] < Len(StreamFacts[t])
        /\ arrivals' = Append(arrivals, StreamFacts[t][streamed[t] + 1])
        /\ streamed' = [streamed EXCEPT ![t] = @ + 1]
        /\ UNCHANGED <<pending, base>>
    BY <1>5 DEF StreamSends, engineVars
  <2>2. streamed[t] \in Nat /\ StreamFacts[t][streamed[t] + 1] \in AllInputs
    <3>1. streamed[t] \in Nat /\ streamed[t] + 1 \in 1..Len(StreamFacts[t])
      BY <2>1, Constants DEF InputsInv
    <3> QED
      BY <3>1, Constants
  <2>3. \A u \in Streams : streamed'[u] \in Nat \cup {None}
    BY <2>1, <2>2 DEF InputsInv
  <2> QED
    BY SMTT(40), <2>1, <2>2, <2>3 DEF InputsInv
<1>6. CASE UNCHANGED <<pending, base, arrivals, streamed>>
  BY <1>6 DEF InputsInv
<1> QED
  BY <1>1, <1>2, <1>3, <1>4, <1>5, <1>6, Frames

-----------------------------------------------------------------------------
(* A sink that is in the queue is not registered yet, so none is twice. *)

RegisteredInv ==
  /\ registered \in Seq(Sinks) /\ NoRepeats(registered)
  /\ ~ Dead => \A i \in 1..Len(commands) :
                 commands[i].op = "sink" => commands[i].arg \notin Registered

\* A step keeps RegisteredInv: no sink is registered twice (client.rs and
\* reactor.rs, ClientCommand::RegisterSink).
LEMMA RegisteredStep ==
  ASSUME CallInv, QueueInv, RegisteredInv, SinksInv, [Next]_vars
  PROVE  RegisteredInv'
<1>0. Dead => Dead'
  BY Frames
<1>1. CASE Calls
  <2>1. PICK op, arg : /\ Call(op, arg)
                       /\ op = "sink" => arg \notin Registered
    BY <1>1 DEF Calls
  <2> DEFINE c == [op |-> op, arg |-> arg, id |-> call.id + 1]
  <2>2. commands' = Append(commands, c) /\ registered' = registered
    BY <2>1 DEF Call
  <2>3. c.op = op /\ c.arg = arg
    OBVIOUS
  <2> HIDE DEF c
  <2>4. /\ Len(commands) \in Nat /\ Len(commands') = Len(commands) + 1
        /\ \A i \in 1..Len(commands) : commands'[i] = commands[i]
        /\ commands'[Len(commands) + 1] = c
    BY <2>2 DEF QueueInv
  <2>5. ASSUME ~ Dead', NEW i \in 1..Len(commands'), commands'[i].op = "sink"
        PROVE  commands'[i].arg \notin Registered
    <3>1. CASE i \in 1..Len(commands)
      BY <1>0, <2>4, <2>5, <3>1 DEF RegisteredInv
    <3>2. CASE i = Len(commands) + 1
      BY <2>1, <2>3, <2>4, <2>5, <3>2
    <3> QED
      BY <2>4, <3>1, <3>2
  <2> QED
    BY <2>2, <2>5 DEF RegisteredInv, Registered
<1>2. CASE HandleRegisterSink
  <2> DEFINE s == Head(commands).arg
  <2>1. /\ at \in {"select", "drain"} /\ commands # <<>> /\ Head(commands).op = "sink"
        /\ commands' = Tail(commands) /\ registered' = Append(registered, s)
        /\ Reply(Head(commands).id)
    BY <1>2 DEF HandleRegisterSink, Take
  <2>2. s \in Sinks
    BY <2>1, Taken DEF Commands
  <2>3. ~ Dead
    BY <2>1 DEF Dead, Errors
  <2>4. s \notin Registered
    <3>1. 1 \in 1..Len(commands) /\ Head(commands) = commands[1]
      BY <2>1 DEF QueueInv
    <3> QED
      BY <2>1, <2>3, <3>1 DEF RegisteredInv
  <2>5. Dead' \/ Tail(commands) = <<>>
    BY <2>1, ReplyKeeps, Taken DEF Dead, Errors
  <2>6. registered' \in Seq(Sinks) /\ NoRepeats(registered')
    BY <2>1, <2>2, <2>4, NoRepeatsAppend DEF RegisteredInv, Registered
  <2> QED
    BY <2>1, <2>5, <2>6 DEF RegisteredInv
<1>3. ASSUME registered' = registered, commands # <<>>, commands' = Tail(commands)
      PROVE  RegisteredInv'
  <2>1. \A i \in 1..Len(Tail(commands)) :
          i + 1 \in 1..Len(commands) /\ Tail(commands)[i] = commands[i + 1]
    BY <1>3, Taken
  <2> QED
    BY <1>0, <1>3, <2>1 DEF RegisteredInv, Registered
<1>4. ASSUME registered' = registered, commands' = commands
      PROVE  RegisteredInv'
  BY <1>0, <1>4 DEF RegisteredInv, Registered
<1>5. registered' = registered \/ HandleRegisterSink
  BY Frames
<1>6. CASE HandleFlush \/ \E op : Answers(op)
  BY <1>2, <1>3, <1>5, <1>6 DEF HandleFlush, Answers, Take
<1>7. CASE Return \/ JoinFlush \/ Goes
  BY <1>2, <1>4, <1>5, <1>7 DEF Return, JoinFlush, Goes
<1> QED
  BY <1>1, <1>6, <1>7, CallSteps

-----------------------------------------------------------------------------
(* Until a call is dropped each command is the one the client waits for. *)

Answerable(id) == id = call.id /\ client = "calling" /\ call.answer = "none"

PatientInv ==
  ~ dropped =>
    /\ at # "reply failed"
    /\ ~ Dead => /\ \A i \in 1..Len(commands) : Answerable(commands[i].id)
                 /\ Flushing => Answerable(task.command)

\* A call that was dropped has been for ever.
LEMMA DroppedStays ==
  ASSUME [Next]_vars, dropped
  PROVE  dropped'
<1>1. CASE ReactorStep
  BY <1>1 DEF ReactorStep, HandleInsertFact, HandleRegisterSink, HandleRegisterStream, HandleFlush,
     SendToSink, FlushSent, JoinFlush, HandleStreamFact, HandleHangup, Evaluate, PopFact, SendEvent,
     EventSent, clientVars
<1>2. CASE \/ CallFlush
           \/ \E f \in Inserts : CallInsert(f)
           \/ \E s \in Sinks : CallRegister(s)
           \/ \E t \in Streams : CallStream(t)
  BY <1>2 DEF CallFlush, CallInsert, CallRegister, CallStream, Call
<1>3. CASE Return \/ Cancel \/ Leave \/ TakeEvent \/ StopListening
  BY <1>3 DEF Return, Cancel, Leave, TakeEvent, StopListening, clientVars
<1>4. CASE \/ \E s \in Sinks : (SinkReceives(s) \/ SinkAccepts(s) \/ SinkFails(s))
           \/ \E t \in Streams : StreamSends(t)
  BY <1>4 DEF SinkReceives, SinkAccepts, SinkFails, StreamSends, clientVars
<1>5. CASE UNCHANGED vars
  BY <1>5 DEF vars, clientVars
<1> QED
  BY <1>1, <1>2, <1>3, <1>4, <1>5 DEF Next

\* A step keeps PatientInv: if no call was dropped, whoever is to be answered
\* still waits, so that no reply fails.
LEMMA PatientStep ==
  ASSUME CallInv, QueueInv, PatientInv, SinksInv, [Next]_vars
  PROVE  PatientInv'
<1> SUFFICES ASSUME ~ dropped' PROVE PatientInv'
  BY DEF PatientInv
<1>d. ~ dropped
  BY DroppedStays
<1>0. Dead => Dead'
  BY Frames
<1>1. CASE Calls
  <2>1. PICK op, arg : Call(op, arg)
    BY <1>1 DEF Calls
  <2> DEFINE c == [op |-> op, arg |-> arg, id |-> call.id + 1]
  <2>2. /\ ~ Dead /\ at' = at /\ client = "idle" /\ commands' = Append(commands, c)
        /\ client' = "calling" /\ call'.id = call.id + 1 /\ call'.answer = "none" /\ task' = task
    BY <2>1 DEF Call
  <2>3. c.id = call.id + 1
    OBVIOUS
  <2> HIDE DEF c
  <2>4. ~ Flushing /\ \A i \in 1..Len(commands) : FALSE
    BY <1>d, <2>2 DEF PatientInv, Answerable
  <2>5. commands = <<>>
    BY <2>4, NoElements DEF QueueInv
  <2>6. Len(commands') = 1 /\ commands'[1] = c
    BY <2>2, <2>5
  <2>7. at' # "reply failed" /\ ~ Flushing'
    BY <1>d, <2>2, <2>4 DEF PatientInv, Flushing
  <2>8. \A i \in 1..Len(commands') : commands'[i].id = call'.id
    BY <2>2, <2>3, <2>6
  <2> QED
    BY <1>d, <2>2, <2>7, <2>8 DEF PatientInv, Answerable
<1>2. CASE Return
  <2>1. call.answer # "none" /\ call' = call /\ commands' = commands /\ task' = task /\ at' = at
    BY <1>2 DEF Return
  <2> QED
    BY <1>d, <1>0, <2>1 DEF PatientInv, Answerable, Flushing
\* An answer that is not awaited would need a cancelled call.
<1>3. ASSUME NEW id, Reply(id), Answerable(id), client' = client, ~ Dead
      PROVE  at' = "drain" /\ ~ Flushing'
  BY <1>3, ReplyKeeps DEF Answerable, Flushing
<1>4. CASE \E op : Answers(op)
  <2>1. /\ commands # <<>> /\ commands' = Tail(commands) /\ Reply(Head(commands).id)
        /\ client' = client /\ ~ Dead
    BY <1>4 DEF Answers, Take, Dead, Errors
  <2>2. Answerable(Head(commands).id)
    <3>1. 1 \in 1..Len(commands) /\ Head(commands) = commands[1]
      BY <2>1 DEF QueueInv
    <3> QED
      BY <1>d, <2>1, <3>1 DEF PatientInv
  <2>3. at' = "drain" /\ ~ Flushing' /\ Tail(commands) = <<>>
    BY <1>3, <2>1, <2>2, Taken DEF Answerable
  <2>4. commands' = <<>>
    BY <2>1, <2>3, Zenon
  <2>5. \A i \in 1..Len(commands') : FALSE
    BY <2>4
  <2>6. at' # "reply failed"
    BY <2>3
  <2> QED
    BY <1>d, <2>3, <2>5, <2>6 DEF PatientInv
<1>5. CASE HandleFlush
  <2>1. /\ commands # <<>> /\ commands' = Tail(commands)
        /\ client' = client /\ call' = call /\ ~ Dead /\ at' = "flush"
        /\ task'.command = Head(commands).id
    BY <1>5 DEF HandleFlush, Take, Dead, Errors, clientVars, NoTask
  <2>2. Answerable(Head(commands).id)
    <3>1. 1 \in 1..Len(commands) /\ Head(commands) = commands[1]
      BY <2>1 DEF QueueInv
    <3> QED
      BY <1>d, <2>1, <3>1 DEF PatientInv
  <2>3. commands' = <<>>
    <3>1. Tail(commands) = <<>>
      BY <2>1, <2>2, Taken DEF Answerable
    <3> QED
      BY <2>1, <3>1, Zenon
  <2>4. \A i \in 1..Len(commands') : FALSE
    BY <2>3
  <2>5. at' # "reply failed"
    BY <2>1
  <2> QED
    BY <1>d, <2>1, <2>2, <2>4, <2>5 DEF PatientInv, Answerable
<1>6. CASE JoinFlush
  <2>1. /\ at = "join" /\ ~ Dead /\ commands' = commands /\ client' = client
        /\ Reply(task.command) \/ Die("ack failed")
    BY <1>6 DEF JoinFlush, Dead, Errors
  <2>2. CASE Die("ack failed")
    <3>1. at' = "ack failed"
      BY <2>2 DEF Die
    <3> QED
      BY <1>d, <3>1 DEF PatientInv, Dead, Errors
  <2>3. CASE Reply(task.command)
    <3>1. Answerable(task.command)
      BY <1>d, <2>1 DEF PatientInv, Flushing
    <3>2. at' = "drain" /\ ~ Flushing'
      BY <1>3, <2>1, <2>3, <3>1
    <3>3. ASSUME NEW i \in 1..Len(commands) PROVE FALSE
      <4>1. task.command < commands[i].id /\ commands[i].id = task.command
        BY <1>d, <2>1, <3>1 DEF PatientInv, Answerable, QueueInv, Flushing
      <4>2. commands[i].id \in Nat
        BY DEF QueueInv, Commands
      <4> QED
        BY <4>1, <4>2
    <3> QED
      BY <1>d, <2>1, <3>2, <3>3 DEF PatientInv
  <2> QED
    BY <2>1, <2>2, <2>3
<1>7. CASE Goes
  <2>1. commands' = commands /\ (Flushing' => Flushing /\ task'.command = task.command)
    BY <1>7 DEF Goes
  <2>2. at' # "reply failed"
    BY <1>d, <1>7 DEF Goes, Ends, PatientInv, Errors
  <2>3. CASE Dead'
    BY <1>d, <2>2, <2>3 DEF PatientInv
  <2>4. CASE ~ Dead' /\ client' = client
    <3>1. call' = call
      BY <1>7, <2>4 DEF Goes, Ends, Dead
    <3> QED
      BY <1>d, <1>0, <2>1, <2>2, <2>4, <3>1 DEF PatientInv, Answerable
  <2>5. CASE ~ Dead' /\ client # "calling"
    <3>1. ~ Flushing' /\ \A i \in 1..Len(commands) : FALSE
      BY <1>d, <1>0, <2>1, <2>5 DEF PatientInv, Answerable
    <3> QED
      BY <1>d, <2>1, <2>2, <3>1 DEF PatientInv
  <2> QED
    BY <1>7, <2>3, <2>4, <2>5 DEF Goes
<1> QED
  BY <1>1, <1>2, <1>4, <1>5, <1>6, <1>7, CallSteps

\* A call that is not made in this step remains the same.

\* A call keeps its operation, argument and number from its start to its end.
LEMMA CallFrame ==
  ASSUME CallInv, SinksInv, [Next]_vars
  PROVE  \/ Calls
         \/ /\ call'.op = call.op /\ call'.arg = call.arg /\ call'.id = call.id
            /\ call'.acked = call.acked /\ call'.derived = call.derived
<1>1. ASSUME CallKept \/ call' = call
      PROVE  /\ call'.op = call.op /\ call'.arg = call.arg /\ call'.id = call.id
             /\ call'.acked = call.acked /\ call'.derived = call.derived
  BY <1>1 DEF CallKept
<1>2. ASSUME Return \/ HandleFlush PROVE call' = call
  BY <1>2 DEF Return, HandleFlush, clientVars
<1>3. ASSUME (\E op : Answers(op)) \/ JoinFlush PROVE CallKept
  BY <1>3, ReplyKeeps, DieKeeps DEF Answers, JoinFlush
<1>4. ASSUME Goes PROVE CallKept \/ call' = call
  BY <1>4, DieKeeps DEF Goes, Ends
<1> QED
  BY <1>1, <1>2, <1>3, <1>4, CallSteps

-----------------------------------------------------------------------------
(* What was derived has been emitted or is about to be. *)

OutInv ==
  /\ IsSeq(out) /\ IsSeq(emitted)
  /\ out # <<>> => at = "deliver" \/ Dead
  /\ derived \cup call.derived \subseteq ToSet(emitted) \cup ToSet(out)

\* The output of an epoch has every new fact (vm.rs: the facts of delta are sent
\* to the output before the epoch ends).
LEMMA Emitted ==
  ASSUME NEW new, NEW q \in Emissions(new)
  PROVE  IsSeq(q) /\ new \subseteq ToSet(q)
<1> DEFINE Copies(f) == Cardinality({i \in DOMAIN q : q[i] = f})
<1>1. PICK n \in 0..(MaxCopies * Cardinality(new)) : q \in [1..n -> new]
  BY DEF Emissions
<1>2. \A f \in new : Copies(f) \in 1..MaxCopies
  BY DEF Emissions
<1>3. n \in Nat
  BY <1>1
<1>4. q \in Seq(new)
  BY <1>1, <1>3
<1>5. ASSUME NEW f \in new, f \notin ToSet(q) PROVE FALSE
  <2>1. {i \in DOMAIN q : q[i] = f} = {}
    BY <1>5 DEF ToSet
  <2>2. Copies(f) = 0
    BY <2>1, FS_EmptySet
  <2>3. Copies(f) \in 1..MaxCopies
    BY <1>2
  <2> QED
    BY <2>2, <2>3
<1> QED
  BY <1>4, <1>5 DEF IsSeq

\* One fact goes from the output to what was emitted.
LEMMA Popped ==
  ASSUME NEW q, NEW p, IsSeq(q), IsSeq(p), q # <<>>
  PROVE  /\ IsSeq(Tail(q)) /\ IsSeq(Append(p, Head(q)))
         /\ ToSet(p) \cup ToSet(q) = ToSet(Append(p, Head(q))) \cup ToSet(Tail(q))
<1>1. PICK S : q \in Seq(S)
  BY DEF IsSeq
<1>2. PICK T : p \in Seq(T)
  BY DEF IsSeq
<1>3. ToSet(Append(p, Head(q))) = ToSet(p) \cup {Head(q)}
  BY <1>2, ToSetAppend
<1>4. ToSet(q) = {Head(q)} \cup ToSet(Tail(q))
  BY <1>1, TailParts
<1> QED
  BY <1>3, <1>4, Tails, Appends

\* A step keeps OutInv: what was derived was popped or is still in the output,
\* and the output is empty outside the loop that pops it (reactor.rs,
\* while let Ok(Some(fact)) = vm.pop()).
LEMMA OutStep ==
  ASSUME CallInv, SinksInv, OutInv, [Next]_vars
  PROVE  OutInv'
<1>1. CASE Calls
  <2>1. UNCHANGED <<out, emitted, at, derived>> /\ call'.derived = derived
    BY <1>1 DEF Calls, Call, engineVars, outVars
  <2> QED
    BY <2>1 DEF OutInv, Dead
<1>2. ASSUME call'.derived = call.derived PROVE OutInv'
  <2>1. CASE Evaluate
    <3>1. /\ at = "drain" /\ at' = "deliver" /\ emitted' = emitted
          /\ out' \in Emissions(Model(base \cup pending) \ derived)
          /\ derived' = Model(base \cup pending)
      BY <2>1 DEF Evaluate, Eng!Evaluate
    <3>2. out = <<>>
      BY <3>1 DEF OutInv, Dead, Errors
    <3>3. IsSeq(out') /\ Model(base \cup pending) \ derived \subseteq ToSet(out')
      BY <3>1, Emitted
    <3>4. derived \cup call.derived \subseteq ToSet(emitted)
      BY <3>2, ToSetEmpty DEF OutInv
    <3> QED
      BY <1>2, <3>1, <3>3, <3>4 DEF OutInv
  <2>2. CASE PopFact
    <3>1. /\ at = "deliver" /\ at' = at /\ out # <<>> /\ derived' = derived
          /\ out' = Tail(out) /\ emitted' = Append(emitted, Head(out))
      BY <2>2 DEF PopFact, engineVars
    <3>2. /\ IsSeq(out') /\ IsSeq(emitted')
          /\ ToSet(emitted) \cup ToSet(out) = ToSet(emitted') \cup ToSet(out')
      BY <3>1, Popped DEF OutInv
    <3> QED
      BY <1>2, <3>1, <3>2 DEF OutInv
  <2>3. CASE out' = out /\ emitted' = emitted /\ derived' = derived
    <3>1. ASSUME out # <<>> PROVE at' = "deliver" \/ Dead'
      BY <3>1, Frames, Moves DEF OutInv, SendEvent
    <3> QED
      BY <1>2, <2>3, <3>1 DEF OutInv
  <2> QED
    BY <2>1, <2>2, <2>3, Frames
<1> QED
  BY <1>1, <1>2, CallFrame

-----------------------------------------------------------------------------
(* What the reactor sends, and to whom. *)

TaskInv ==
  /\ task.targets \in Seq(Sinks) /\ NoRepeats(task.targets)
  /\ ToSet(task.targets) \subseteq Registered
  /\ at = "flush" => task.message = Flush
  /\ at = "deliver" => \A s \in ToSet(task.targets) : task.message \in Wants[s]
  /\ at \in {"select", "drain", "join", "event"} => task.targets = <<>>
  /\ Flushing => task.handles \in Seq(Sinks) /\ ToSet(task.handles) = Registered

\* With nothing left to send TaskInv holds.
LEMMA NoTargets ==
  ASSUME task'.targets = <<>>, at' # "flush", ~ Flushing'
  PROVE  TaskInv'
<1>1. <<>> \in Seq(Sinks) /\ NoRepeats(<<>>) /\ ToSet(<<>>) = {}
  BY ToSetEmpty DEF NoRepeats
<1> QED
  BY <1>1 DEF TaskInv

\* A step keeps TaskInv: a fact is sent to registered sinks of its relation, to
\* each once, and a flush waits for all registered sinks.
LEMMA TaskStep ==
  ASSUME CallInv, QueueInv, RegisteredInv, SinksInv, TaskInv, [Next]_vars
  PROVE  TaskInv'
<1> USE DEF Flushing
<1>0. /\ TaskRecord(task)
      /\ registered \in Seq(Sinks) /\ NoRepeats(registered) /\ Registered \subseteq Sinks
  BY DEF SinksInv, RegisteredInv, Registered, ToSet
<1>1. CASE HandleFlush
  <2>1. PICK order \in SetToSeqs(Registered) :
          task' = [NoTask EXCEPT !.command = Head(commands).id, !.message = Flush,
                                 !.targets = order, !.handles = order]
    BY <1>1 DEF HandleFlush, Registered
  <2>2. /\ task'.message = Flush /\ task'.targets = order /\ task'.handles = order
        /\ at' = "flush" /\ registered' = registered
    BY <1>1, <2>1 DEF HandleFlush, NoTask
  <2>3. IsFiniteSet(Registered)
    BY <1>0, ToSetFinite DEF Registered
  <2>4. order \in Seq(Registered) /\ NoRepeats(order) /\ ToSet(order) = Registered
    BY <2>3, OrdersOf
  <2>5. order \in Seq(Sinks)
    BY <1>0, <2>4
  <2> QED
    BY <2>2, <2>4, <2>5 DEF TaskInv, Registered
<1>2. CASE SendToSink
  <2> DEFINE x == Head(task.targets)
  <2>0. /\ at \in {"flush", "deliver"} /\ task.targets # <<>> /\ registered' = registered
    BY <1>2 DEF SendToSink
  <2>1. CASE Open(x)
    <3>1. task' = [task EXCEPT !.targets = Tail(@), !.parkedOn = x] /\ at' = at
      BY <1>2, <2>1 DEF SendToSink
    <3>2. /\ task'.targets = Tail(task.targets) /\ task'.message = task.message
          /\ task'.handles = task.handles
      BY <1>0, <3>1 DEF TaskRecord
    <3>3. /\ Tail(task.targets) \in Seq(Sinks) /\ NoRepeats(Tail(task.targets))
          /\ ToSet(Tail(task.targets)) \subseteq ToSet(task.targets)
      BY <2>0, TailParts DEF TaskInv
    <3> QED
      BY <2>0, <3>1, <3>2, <3>3 DEF TaskInv, Registered
  <2>2. CASE ~ Open(x)
    <3>1. task' = task /\ at' = "send failed"
      BY <1>2, <2>2 DEF SendToSink, Die
    <3> QED
      BY <2>0, <3>1 DEF TaskInv, Registered
  <2> QED
    BY <2>1, <2>2
<1>3. CASE FlushSent
  <2>1. /\ task' = [task EXCEPT !.message = None, !.parkedOn = None]
        /\ at = "flush" /\ at' = "join" /\ task.targets = <<>> /\ registered' = registered
    BY <1>3 DEF FlushSent
  <2>2. task'.targets = task.targets /\ task'.handles = task.handles
    BY <1>0, <2>1 DEF TaskRecord
  <2> QED
    BY <2>1, <2>2 DEF TaskInv, Registered
<1>4. CASE PopFact
  <2> DEFINE W == {s \in Sinks : Head(out) \in Wants[s]}
  <2>1. /\ task' = [NoTask EXCEPT !.message = Head(out), !.targets = TargetsOf(Head(out))]
        /\ at = "deliver" /\ at' = "deliver" /\ registered' = registered
    BY <1>4 DEF PopFact
  <2>2. task'.targets = Keep(registered, W) /\ task'.message = Head(out)
    BY <2>1 DEF NoTask, TargetsOf
  <2>3. /\ Keep(registered, W) \in Seq(Sinks \cap W) /\ NoRepeats(Keep(registered, W))
        /\ ToSet(Keep(registered, W)) = Registered \cap W
    BY <1>0, KeepType, KeepNoRepeats, KeepRange DEF Registered
  <2>4. Keep(registered, W) \in Seq(Sinks)
    BY <2>3
  <2>5. \A s \in ToSet(task'.targets) : task'.message \in Wants[s]
    BY <2>2, <2>3
  <2> HIDE DEF W
  <2> QED
    BY <2>1, <2>2, <2>3, <2>4, <2>5 DEF TaskInv, Registered
<1>5. CASE SendEvent \/ JoinFlush
  <2>1. task' = NoTask
    BY <1>5 DEF SendEvent, JoinFlush
  <2>2. at' \notin {"flush", "join"}
    <3>1. CASE SendEvent
      BY <3>1 DEF SendEvent, Die
    <3>2. CASE JoinFlush
      BY <3>2, ReplyKeeps DEF JoinFlush, Die
    <3> QED
      BY <1>5, <3>1, <3>2
  <2> QED
    BY <2>1, <2>2, NoTargets DEF NoTask
<1>6. CASE HandleInsertFact \/ HandleRegisterSink \/ HandleRegisterStream \/ HandleStreamFact
           \/ HandleHangup \/ Evaluate \/ EventSent
  <2>1. at \in {"select", "drain", "event"} /\ task' = task
    BY <1>6 DEF HandleInsertFact, HandleRegisterSink, HandleRegisterStream, HandleStreamFact,
       HandleHangup, Evaluate, EventSent, Take
  <2>2. at' \notin {"flush", "join"}
    <3>1. CASE HandleInsertFact \/ HandleRegisterSink \/ HandleRegisterStream
      BY <3>1, AnswersAre, ReplyKeeps DEF Answers
    <3>2. CASE HandleStreamFact \/ HandleHangup \/ Evaluate \/ EventSent
      BY <3>2 DEF HandleStreamFact, HandleHangup, Evaluate, EventSent, Handled
    <3> QED
      BY <1>6, <3>1, <3>2
  <2> QED
    BY <2>1, <2>2, NoTargets DEF TaskInv
<1>7. CASE \/ CallFlush
           \/ \E f \in Inserts : CallInsert(f)
           \/ \E s \in Sinks : CallRegister(s)
           \/ \E t \in Streams : CallStream(t)
           \/ Return \/ Cancel \/ Leave \/ TakeEvent \/ StopListening
           \/ \E s \in Sinks : (SinkReceives(s) \/ SinkAccepts(s) \/ SinkFails(s))
           \/ \E t \in Streams : StreamSends(t)
           \/ UNCHANGED vars
  <2>1. UNCHANGED <<at, task, registered>>
    BY <1>7 DEF CallFlush, CallInsert, CallRegister, CallStream, Call, Return, Cancel, Leave,
       TakeEvent, StopListening, StreamSends, SinkReceives, SinkAccepts, SinkFails, vars
  <2> QED
    BY SMTT(40), <2>1 DEF TaskInv, Registered
<1> QED
  BY <1>1, <1>2, <1>3, <1>4, <1>5, <1>6, <1>7 DEF Next, ReactorStep

-----------------------------------------------------------------------------
(* What a step does to one sink. *)

Kept(s)    == sink'[s].alive = sink[s].alive
              /\ sink'[s].hand = sink[s].hand /\ sink'[s].log = sink[s].log

Registers(s) ==
  /\ HandleRegisterSink /\ s = Head(commands).arg
  /\ Kept(s) /\ sink'[s].channel = sink[s].channel /\ sink'[s].flushed = sink[s].flushed
  /\ sink'[s].since = Len(emitted)

Resets(s) ==
  /\ HandleFlush
  /\ Kept(s) /\ sink'[s].channel = sink[s].channel /\ sink'[s].since = sink[s].since
  /\ sink'[s].flushed = FALSE

Gets(s) ==
  /\ SendToSink /\ s = Head(task.targets) /\ sink[s].alive
  /\ at' = at /\ task'.targets = Tail(task.targets) /\ task'.message = task.message
  /\ Kept(s) /\ sink'[s].flushed = sink[s].flushed /\ sink'[s].since = sink[s].since
  /\ sink'[s].channel = Append(sink[s].channel, task.message)

Receives(s) ==
  /\ sink[s].alive /\ sink[s].hand = None /\ sink[s].channel # <<>>
  /\ sink'[s].channel = Tail(sink[s].channel)
  /\ sink'[s].log = sink[s].log /\ sink'[s].since = sink[s].since
  /\ \/ /\ Head(sink[s].channel) = Flush
        /\ sink'[s].alive = ~ Dead /\ sink'[s].hand = None /\ sink'[s].flushed = TRUE
     \/ /\ Head(sink[s].channel) # Flush
        /\ sink'[s].alive = TRUE /\ sink'[s].flushed = sink[s].flushed
        /\ sink'[s].hand = Head(sink[s].channel)

Accepts(s) ==
  /\ sink[s].alive /\ sink[s].hand # None
  /\ sink'[s].alive = TRUE /\ sink'[s].channel = sink[s].channel
  /\ sink'[s].flushed = sink[s].flushed /\ sink'[s].since = sink[s].since
  /\ sink'[s].log = Append(sink[s].log, sink[s].hand) /\ sink'[s].hand = None

Fails(s) ==
  /\ sink[s].alive /\ sink[s].hand # None
  /\ sink'[s].alive = FALSE /\ sink'[s].channel = <<>> /\ sink'[s].hand = None
  /\ sink'[s].log = sink[s].log
  /\ sink'[s].flushed = sink[s].flushed /\ sink'[s].since = sink[s].since

Spared(s) ==
  /\ sink'[s] = sink[s]
  /\ task' = task \/ FlushSent \/ JoinFlush \/ SendEvent \/ PopFact

Misses(s) ==
  /\ SendToSink /\ sink'[s] = sink[s]
  /\ Dead' \/ /\ s # Head(task.targets) /\ at' = at
              /\ task'.targets = Tail(task.targets) /\ task'.message = task.message

\* The steps of a sink task leave all else alone.
Apart == UNCHANGED <<clientVars, commands, at, engineVars, outVars, registered, task, events,
                     streamVars>>

\* What a step may do to a sink: leave it alone, register it, reset its
\* acknowledgement, send to it, or be a step of its task (reactor.rs, the task
\* that create_sink spawns).
LEMMA SinkSteps ==
  ASSUME SinksInv, [Next]_vars, NEW s \in Sinks
  PROVE  \/ Spared(s) \/ Misses(s)
         \/ Registers(s) \/ Resets(s) \/ Gets(s)
         \/ Apart /\ (Receives(s) \/ Accepts(s) \/ Fails(s))
<1>0. sink = [t \in Sinks |-> sink[t]] /\ SinkRecord(sink[s]) /\ TaskRecord(task)
  BY DEF SinksInv, SinkInv
<1> DEFINE Goal == \/ Spared(s) \/ Misses(s)
                   \/ Registers(s) \/ Resets(s) \/ Gets(s)
                   \/ Apart /\ (Receives(s) \/ Accepts(s) \/ Fails(s))
<1> SUFFICES Goal
  OBVIOUS
<1>1. CASE HandleRegisterSink
  <2>1. CASE s = Head(commands).arg
    <3>1. sink'[s] = [sink[s] EXCEPT !.since = Len(emitted)]
      BY <1>0, <1>1, <2>1 DEF HandleRegisterSink
    <3>2. /\ Kept(s) /\ sink'[s].channel = sink[s].channel /\ sink'[s].flushed = sink[s].flushed
          /\ sink'[s].since = Len(emitted)
      BY <1>0, <3>1 DEF Kept, SinkRecord
    <3> QED
      BY <1>1, <2>1, <3>2 DEF Registers
  <2>2. CASE s # Head(commands).arg
    <3>1. sink'[s] = sink[s]
      BY <1>0, <1>1, <2>2 DEF HandleRegisterSink
    <3> QED
      BY <1>1, <3>1 DEF HandleRegisterSink, Spared
  <2> QED
    BY <2>1, <2>2
<1>2. CASE HandleFlush
  <2>1. sink'[s] = [sink[s] EXCEPT !.flushed = FALSE]
    BY <1>2 DEF HandleFlush
  <2>2. /\ Kept(s) /\ sink'[s].channel = sink[s].channel /\ sink'[s].since = sink[s].since
        /\ sink'[s].flushed = FALSE
    BY <1>0, <2>1 DEF Kept, SinkRecord
  <2> QED
    BY <1>2, <2>2 DEF Resets
<1>3. CASE SendToSink
  <2> DEFINE x == Head(task.targets)
  <2>1. CASE Open(x) /\ s = x
    <3>1. /\ sink' = [sink EXCEPT ![x].channel = Append(@, task.message)]
          /\ task' = [task EXCEPT !.targets = Tail(@), !.parkedOn = x] /\ at' = at
      BY <1>3, <2>1 DEF SendToSink
    <3>2. sink'[s] = [sink[s] EXCEPT !.channel = Append(@, task.message)]
      BY <1>0, <2>1, <3>1
    <3>3. /\ Kept(s) /\ sink'[s].flushed = sink[s].flushed /\ sink'[s].since = sink[s].since
          /\ sink'[s].channel = Append(sink[s].channel, task.message)
      BY <1>0, <3>2 DEF Kept, SinkRecord
    <3>4. task'.targets = Tail(task.targets) /\ task'.message = task.message
      BY <1>0, <3>1 DEF TaskRecord
    <3> QED
      BY <1>3, <2>1, <3>1, <3>3, <3>4 DEF Gets, Open
  <2>2. CASE ~ (Open(x) /\ s = x)
    <3>1. sink'[s] = sink[s]
      BY <1>0, <1>3, <2>2 DEF SendToSink
    <3>2. CASE Open(x)
      <4>1. task' = [task EXCEPT !.targets = Tail(@), !.parkedOn = x] /\ at' = at
        BY <1>3, <3>2 DEF SendToSink
      <4>2. task'.targets = Tail(task.targets) /\ task'.message = task.message
        BY <1>0, <4>1 DEF TaskRecord
      <4> QED
        BY <1>3, <2>2, <3>1, <3>2, <4>1, <4>2 DEF Misses
    <3>3. CASE ~ Open(x)
      BY <1>3, <3>1, <3>3 DEF SendToSink, Misses, Die, Dead, Errors
    <3> QED
      BY <3>2, <3>3
  <2> QED
    BY <2>1, <2>2
<1>4. ASSUME NEW x \in Sinks, SinkReceives(x) \/ SinkAccepts(x) \/ SinkFails(x)
      PROVE  Goal
  <2>1. Apart
    BY <1>4 DEF Apart, SinkReceives, SinkAccepts, SinkFails
  <2>2. CASE s # x
    <3>1. sink'[s] = sink[s]
      BY <1>0, <1>4, <2>2 DEF SinkReceives, SinkAccepts, SinkFails
    <3> QED
      BY <2>1, <3>1 DEF Apart, Spared
  <2>3. CASE s = x /\ SinkReceives(x)
    <3> DEFINE message == Head(sink[s].channel)
    <3>1. /\ sink'[s] = [sink[s] EXCEPT !.channel = Tail(@),
                                        !.alive   = message = Flush => ~ Dead,
                                        !.flushed = IF message = Flush THEN TRUE ELSE @,
                                        !.hand    = IF message = Flush THEN None ELSE message]
          /\ sink[s].alive /\ sink[s].hand = None /\ sink[s].channel # <<>>
      BY <1>0, <2>3 DEF SinkReceives
    <3>2. /\ sink'[s].channel = Tail(sink[s].channel)
          /\ sink'[s].alive = (message = Flush => ~ Dead)
          /\ sink'[s].flushed = IF message = Flush THEN TRUE ELSE sink[s].flushed
          /\ sink'[s].hand = IF message = Flush THEN None ELSE message
          /\ sink'[s].log = sink[s].log /\ sink'[s].since = sink[s].since
      BY <1>0, <3>1 DEF SinkRecord
    <3>3. Receives(s)
      BY <3>1, <3>2 DEF Receives
    <3> QED
      BY <2>1, <3>3
  <2>4. CASE s = x /\ SinkAccepts(x)
    <3>1. /\ sink'[s] = [sink[s] EXCEPT !.log = Append(@, sink[s].hand), !.hand = None]
          /\ sink[s].alive /\ sink[s].hand # None
      BY <1>0, <2>4 DEF SinkAccepts
    <3>2. /\ sink'[s].alive = sink[s].alive /\ sink'[s].channel = sink[s].channel
          /\ sink'[s].flushed = sink[s].flushed /\ sink'[s].since = sink[s].since
          /\ sink'[s].log = Append(sink[s].log, sink[s].hand) /\ sink'[s].hand = None
      BY <1>0, <3>1 DEF SinkRecord
    <3>3. Accepts(s)
      BY <3>1, <3>2 DEF Accepts
    <3> QED
      BY <2>1, <3>3
  <2>5. CASE s = x /\ SinkFails(x)
    <3>1. /\ sink'[s] = [sink[s] EXCEPT !.alive = FALSE, !.hand = None, !.channel = <<>>]
          /\ sink[s].alive /\ sink[s].hand # None
      BY <1>0, <2>5 DEF SinkFails
    <3>2. Fails(s)
      BY <1>0, <3>1 DEF SinkRecord, Fails
    <3> QED
      BY <2>1, <3>2
  <2> QED
    BY <1>4, <2>2, <2>3, <2>4, <2>5
<1>5. CASE \/ HandleInsertFact \/ HandleRegisterStream \/ HandleStreamFact \/ HandleHangup
           \/ FlushSent \/ PopFact \/ SendEvent \/ JoinFlush \/ Evaluate \/ EventSent
  <2>1. /\ sink' = sink
        /\ task' = task \/ FlushSent \/ JoinFlush \/ SendEvent \/ PopFact
    BY <1>5 DEF HandleInsertFact, HandleRegisterStream, HandleStreamFact, HandleHangup,
       FlushSent, PopFact, SendEvent, JoinFlush, Evaluate, EventSent
  <2> QED
    BY <2>1 DEF Spared
<1>6. CASE \/ CallFlush
           \/ \E f \in Inserts : CallInsert(f)
           \/ \E t \in Sinks : CallRegister(t)
           \/ \E t \in Streams : CallStream(t)
           \/ Return \/ Cancel \/ Leave \/ TakeEvent \/ StopListening
           \/ \E t \in Streams : StreamSends(t)
           \/ UNCHANGED vars
  <2>1. sink' = sink /\ task' = task
    BY <1>6 DEF CallFlush, CallInsert, CallRegister, CallStream, Call, Return, Cancel, Leave,
       TakeEvent, StopListening, StreamSends, vars
  <2> QED
    BY <2>1 DEF Spared
<1> QED
  BY <1>1, <1>2, <1>3, <1>4, <1>5, <1>6 DEF Next, ReactorStep

\* A flush makes a new acknowledgement for every sink.
LEMMA ResetsAll ==
  ASSUME SinksInv, HandleFlush, NEW s \in Sinks
  PROVE  Resets(s)
<1>1. sink'[s] = [sink[s] EXCEPT !.flushed = FALSE] /\ SinkRecord(sink[s])
  BY DEF HandleFlush, SinksInv, SinkInv
<1>2. /\ Kept(s) /\ sink'[s].channel = sink[s].channel /\ sink'[s].since = sink[s].since
      /\ sink'[s].flushed = FALSE
  BY <1>1 DEF Kept, SinkRecord
<1> QED
  BY <1>2 DEF Resets

-----------------------------------------------------------------------------
(* What a sink's channel, hand and log hold; a sink nobody registered is new. *)

FlowInv(s) ==
  /\ sink[s].alive \in BOOLEAN /\ sink[s].flushed \in BOOLEAN
  /\ sink[s].channel \in Seq(Wants[s] \cup {Flush})
  /\ sink[s].hand \in Wants[s] \cup {None}
  /\ sink[s].log \in Seq(Wants[s])
  /\ sink[s].since \in 0..Len(emitted)
  /\ s \notin Registered =>
       /\ sink[s].alive /\ sink[s].channel = <<>> /\ sink[s].hand = None /\ sink[s].log = <<>>

\* The type of Append, for a set of messages the provers need not take apart.
LEMMA AppendIn ==
  ASSUME NEW S, NEW q \in Seq(S), NEW x \in S
  PROVE  Append(q, x) \in Seq(S)
OBVIOUS

\* FlowInv from its parts.
LEMMA FlowOf ==
  ASSUME NEW s \in Sinks,
         sink'[s].alive \in BOOLEAN, sink'[s].flushed \in BOOLEAN,
         sink'[s].channel \in Seq(Wants[s] \cup {Flush}),
         sink'[s].hand \in Wants[s] \cup {None},
         sink'[s].log \in Seq(Wants[s]),
         sink'[s].since \in 0..Len(emitted'),
         \/ s \in Registered'
         \/ /\ sink'[s].alive /\ sink'[s].channel = <<>>
            /\ sink'[s].hand = None /\ sink'[s].log = <<>>
  PROVE  FlowInv(s)'
BY DEF FlowInv

\* A step keeps FlowInv: a sink's channel, hand and log hold facts of its
\* relation, and a sink nobody registered is as it was made.
LEMMA FlowStep ==
  ASSUME CallInv, QueueInv, RegisteredInv, SinksInv, OutInv, TaskInv, [Next]_vars,
         NEW s \in Sinks, FlowInv(s)
  PROVE  FlowInv(s)'
<1>1. Len(emitted) \in Nat /\ Len(emitted') \in Nat /\ Len(emitted) <= Len(emitted')
  <2>1. CASE emitted' = emitted
    BY <2>1, Appends DEF OutInv
  <2>2. CASE PopFact
    BY <2>2, Appends DEF OutInv, PopFact
  <2> QED
    BY <2>1, <2>2, Frames
<1>2. Registered \subseteq Registered'
  <2>1. CASE registered' = registered
    BY <2>1 DEF Registered
  <2>2. CASE HandleRegisterSink
    <3>1. registered' = Append(registered, Head(commands).arg)
      BY <2>2 DEF HandleRegisterSink
    <3> QED
      BY <3>1, ToSetAppend DEF Registered, RegisteredInv
  <2> QED
    BY <2>1, <2>2, Frames
<1>a. /\ sink[s].alive \in BOOLEAN /\ sink[s].flushed \in BOOLEAN
      /\ sink[s].channel \in Seq(Wants[s] \cup {Flush})
      /\ sink[s].hand \in Wants[s] \cup {None}
      /\ sink[s].log \in Seq(Wants[s])
      /\ \/ s \in Registered
         \/ /\ sink[s].alive /\ sink[s].channel = <<>>
            /\ sink[s].hand = None /\ sink[s].log = <<>>
  BY DEF FlowInv
<1>b. sink[s].since \in 0..Len(emitted') /\ Len(emitted) \in 0..Len(emitted')
  BY <1>1 DEF FlowInv
<1>3. CASE sink'[s] = sink[s]
  BY <1>2, <1>3, <1>a, <1>b, FlowOf
<1>4. CASE Registers(s)
  <2>1. /\ Kept(s) /\ sink'[s].channel = sink[s].channel /\ sink'[s].flushed = sink[s].flushed
        /\ sink'[s].since = Len(emitted)
    BY <1>4 DEF Registers
  <2> QED
    BY <1>2, <1>a, <1>b, <2>1, FlowOf DEF Kept
<1>5. CASE Resets(s)
  <2>1. /\ Kept(s) /\ sink'[s].channel = sink[s].channel /\ sink'[s].since = sink[s].since
        /\ sink'[s].flushed = FALSE
    BY <1>5 DEF Resets
  <2>2. /\ sink'[s].alive \in BOOLEAN /\ sink'[s].flushed \in BOOLEAN
        /\ sink'[s].since \in 0..Len(emitted')
    BY <1>a, <1>b, <2>1 DEF Kept
  <2> QED
    BY <1>2, <1>a, <2>1, <2>2, FlowOf DEF Kept
<1>6. CASE Gets(s)
  <2>1. s \in ToSet(task.targets) /\ at \in {"flush", "deliver"}
    <3>1. /\ s = Head(task.targets) /\ task.targets # <<>> /\ at \in {"flush", "deliver"}
          /\ task.targets \in Seq(Sinks)
      BY <1>6 DEF Gets, SendToSink, TaskInv
    <3> QED
      BY ZenonT(60), <3>1, TailParts
  <2>2. task.message \in Wants[s] \cup {Flush} /\ s \in Registered
    BY <2>1 DEF TaskInv
  <2>3. sink'[s].channel \in Seq(Wants[s] \cup {Flush})
    BY <1>6, <2>2 DEF Gets, FlowInv
  <2>4. Kept(s) /\ sink'[s].flushed = sink[s].flushed /\ sink'[s].since = sink[s].since
    BY <1>6 DEF Gets
  <2> QED
    BY <1>2, <1>a, <1>b, <2>2, <2>3, <2>4, FlowOf DEF Kept
<1>7. CASE Receives(s)
  <2>1. /\ sink'[s].channel \in Seq(Wants[s] \cup {Flush})
        /\ Head(sink[s].channel) \in Wants[s] \cup {Flush}
    BY <1>7, TailParts DEF Receives, FlowInv
  <2>2. s \in Registered
    BY <1>7 DEF Receives, FlowInv
  <2>3. sink'[s].hand \in Wants[s] \cup {None}
    BY <1>7, <2>1 DEF Receives
  <2>4. sink'[s].alive \in BOOLEAN /\ sink'[s].flushed \in BOOLEAN
    BY <1>7 DEF Receives, FlowInv
  <2>5. sink'[s].log = sink[s].log /\ sink'[s].since = sink[s].since
    BY <1>7 DEF Receives
  <2>6. sink'[s].log \in Seq(Wants[s]) /\ sink'[s].since \in 0..Len(emitted')
    BY <1>a, <1>b, <2>5
  <2>7. s \in Registered'
    BY <1>2, <2>2
  <2> QED
    BY <2>1, <2>3, <2>4, <2>6, <2>7, FlowOf
<1>8. CASE Accepts(s)
  <2>1. sink'[s].log \in Seq(Wants[s]) /\ s \in Registered
    <3>1. sink'[s].log = Append(sink[s].log, sink[s].hand) /\ sink[s].hand # None
      BY <1>8 DEF Accepts
    <3>2. sink[s].hand \in Wants[s] /\ sink[s].log \in Seq(Wants[s])
      BY <1>a, <3>1
    <3>3. s \in Registered
      BY <1>a, <3>1
    <3>4. Append(sink[s].log, sink[s].hand) \in Seq(Wants[s])
      BY <3>2, AppendIn
    <3> QED
      BY <3>1, <3>3, <3>4
  <2>2. /\ sink'[s].alive = TRUE /\ sink'[s].channel = sink[s].channel
        /\ sink'[s].flushed = sink[s].flushed /\ sink'[s].since = sink[s].since
        /\ sink'[s].hand = None
    BY <1>8 DEF Accepts
  <2> QED
    BY <1>2, <1>a, <1>b, <2>1, <2>2, FlowOf
<1>9. CASE Fails(s)
  <2>1. <<>> \in Seq(Wants[s] \cup {Flush})
    OBVIOUS
  <2>2. /\ sink'[s].alive = FALSE /\ sink'[s].channel = <<>> /\ sink'[s].hand = None
        /\ sink'[s].log = sink[s].log
        /\ sink'[s].flushed = sink[s].flushed /\ sink'[s].since = sink[s].since
    BY <1>9 DEF Fails
  <2>3. s \in Registered
    BY <1>9 DEF Fails, FlowInv
  <2> QED
    BY <1>2, <1>a, <1>b, <2>1, <2>2, <2>3, FlowOf
<1> QED
  BY <1>3, <1>4, <1>5, <1>6, <1>7, <1>8, <1>9, SinkSteps DEF Spared, Misses

-----------------------------------------------------------------------------
(* A sequence dealt out in four parts: taken, in hand, in the channel, rest. *)

Dealt(L, H, K, R) == L \o H \o K \o R

Then(q, p) == q \o p

\* The type of a sequence of one.
LEMMA Singleton ==
  ASSUME NEW S, NEW x \in S
  PROVE  <<x>> \in Seq(S)
OBVIOUS

\* The rest of a sequence after n grows with the sequence.
LEMMA SubAppend ==
  ASSUME NEW S, NEW q \in Seq(S), NEW x \in S, NEW n \in 0..Len(q)
  PROVE  /\ SubSeq(q, n + 1, Len(q)) \in Seq(S)
         /\ SubSeq(Append(q, x), n + 1, Len(Append(q, x))) = Append(SubSeq(q, n + 1, Len(q)), x)
<1> DEFINE p == Append(q, x)
           k == Len(q)
<1>1. /\ k \in Nat /\ n \in Nat /\ n <= k /\ n + 1 \in Int
      /\ p \in Seq(S) /\ Len(p) = k + 1 /\ p[k + 1] = x /\ p = q \o <<x>>
  BY AppendIsConcat, AppendProperties
<1> HIDE DEF p
<1>2. SubSeq(q, n + 1, k) \in Seq(S)
  <2>1. \A i \in (n + 1)..k : q[i] \in S
    BY <1>1
  <2> QED
    BY <1>1, <2>1, SubSeqProperties
<1>3. SubSeq(p, n + 1, k) = SubSeq(q, n + 1, k)
  <2>1. CASE n = k
    <3>1. SubSeq(p, n + 1, k) = <<>> /\ SubSeq(q, n + 1, k) = <<>>
      BY <1>1, <2>1, SubSeqEmpty
    <3> QED
      BY <3>1
  <2>2. CASE n < k
    <3>1. n + 1 \in 1..Len(q) /\ k \in 1..Len(q) /\ <<x>> \in Seq(S)
      BY <1>1, <2>2
    <3> QED
      BY <1>1, <3>1, SubSeqOfConcat1
  <2> QED
    BY <1>1, <2>1, <2>2
<1>4. SubSeq(p, n + 1, k + 1) = SubSeq(p, n + 1, k) \o <<x>>
  <2>1. n + 1 \in 1..Len(p) /\ k + 1 \in (n + 1)..Len(p) /\ (k + 1) - 1 = k
    BY <1>1
  <2> QED
    BY <1>1, <2>1, SubSeqRecursiveSecond
<1> QED
  BY <1>1, <1>2, <1>3, <1>4, AppendIsConcat DEF p

\* The parts put together are a sequence again.
LEMMA DealtType ==
  ASSUME NEW S, NEW L \in Seq(S), NEW H \in Seq(S), NEW K \in Seq(S), NEW R \in Seq(S)
  PROVE  Dealt(L, H, K, R) \in Seq(S) /\ H \o (K \o R) \in Seq(S)
<1>1. K \o R \in Seq(S) /\ L \o H \in Seq(S)
  BY ConcatProperties
<1>2. H \o (K \o R) \in Seq(S) /\ (L \o H) \o K \in Seq(S)
  BY <1>1, ConcatProperties
<1>3. ((L \o H) \o K) \o R \in Seq(S)
  BY <1>2, ConcatProperties
<1> QED
  BY <1>2, <1>3 DEF Dealt

\* The first message of the channel is taken into the hand.
LEMMA DealReceive ==
  ASSUME NEW S, NEW L \in Seq(S), NEW K \in Seq(S), NEW R \in Seq(S), K # <<>>
  PROVE  Dealt(L, <<>>, K, R) = Dealt(L, <<Head(K)>>, Tail(K), R)
<1>1. /\ Head(K) \in S /\ Tail(K) \in Seq(S) /\ K = <<Head(K)>> \o Tail(K)
  BY TailParts
<1>2. <<Head(K)>> \in Seq(S)
  BY <1>1
<1>3. L \o <<>> = L
  BY ConcatEmptySeq
<1>4. (L \o <<Head(K)>>) \o Tail(K) = L \o (<<Head(K)>> \o Tail(K))
  BY <1>1, <1>2, ConcatAssociative
<1> QED
  BY <1>1, <1>3, <1>4 DEF Dealt

\* What is in the hand is accepted.
LEMMA DealAccept ==
  ASSUME NEW S, NEW L \in Seq(S), NEW h \in S, NEW K, NEW R
  PROVE  Dealt(L, <<h>>, K, R) = Dealt(Append(L, h), <<>>, K, R)
<1>1. Append(L, h) = L \o <<h>> /\ Append(L, h) \in Seq(S)
  BY AppendIsConcat, AppendProperties
<1>2. Append(L, h) \o <<>> = Append(L, h)
  BY <1>1, ConcatEmptySeq
<1> QED
  BY <1>1, <1>2 DEF Dealt

\* Hand and channel are lost: what they held will never come.
LEMMA DealFail ==
  ASSUME NEW S, NEW L \in Seq(S), NEW H \in Seq(S), NEW K \in Seq(S), NEW R \in Seq(S)
  PROVE  Dealt(L, H, K, R) = Dealt(L, <<>>, <<>>, H \o (K \o R))
<1>1. L \o <<>> = L
  BY ConcatEmptySeq
<1>2. Dealt(L, H, K, R) = L \o (H \o (K \o R))
  <2>1. L \o H \in Seq(S) /\ K \o R \in Seq(S)
    BY ConcatProperties
  <2>2. ((L \o H) \o K) \o R = (L \o H) \o (K \o R)
    BY SMTT(40), <2>1, ConcatAssociative
  <2>3. (L \o H) \o (K \o R) = L \o (H \o (K \o R))
    BY SMTT(40), <2>1, ConcatAssociative
  <2> QED
    BY <2>2, <2>3 DEF Dealt
<1>3. ASSUME NEW q PROVE Dealt(L, <<>>, <<>>, q) = L \o q
  BY <1>1 DEF Dealt
<1> QED
  BY <1>2, <1>3

\* The one message that was to be sent is in the channel.
LEMMA DealGet ==
  ASSUME NEW S, NEW L \in Seq(S), NEW H \in Seq(S), NEW K \in Seq(S), NEW m \in S
  PROVE  Dealt(L, H, K, <<m>>) = Dealt(L, H, Append(K, m), <<>>)
<1>1. L \o H \in Seq(S) /\ Append(K, m) \in Seq(S) /\ Append(K, m) = K \o <<m>> /\ <<m>> \in Seq(S)
  BY ConcatProperties, AppendIsConcat, AppendProperties
<1>2. ((L \o H) \o K) \o <<m>> = (L \o H) \o (K \o <<m>>)
  BY SMTT(40), <1>1, ConcatAssociative
<1>3. (L \o H) \o Append(K, m) \in Seq(S)
  BY <1>1, ConcatProperties
<1>4. ((L \o H) \o Append(K, m)) \o <<>> = (L \o H) \o Append(K, m)
  BY <1>3, ConcatEmptySeq
<1> QED
  BY <1>1, <1>2, <1>4 DEF Dealt

\* What is emitted next goes to the end of the rest.
LEMMA DealPop ==
  ASSUME NEW S, NEW L \in Seq(S), NEW H \in Seq(S), NEW K \in Seq(S), NEW R \in Seq(S),
         NEW M \in Seq(S)
  PROVE  Then(Dealt(L, H, K, R), M) = Dealt(L, H, K, Then(R, M))
<1>1. L \o H \in Seq(S)
  BY ConcatProperties
<1>2. (L \o H) \o K \in Seq(S)
  BY <1>1, ConcatProperties
<1>3. (((L \o H) \o K) \o R) \o M = ((L \o H) \o K) \o (R \o M)
  BY SMTT(40), <1>2, ConcatAssociative
<1> QED
  BY <1>3 DEF Dealt, Then

-----------------------------------------------------------------------------
(* A sink has, or is sent, what was emitted for it; a dead one or a dead     *)
(* reactor leaves a rest that never comes.                                   *)

\* What is left of a sink's channel once the flushes are taken out of it.
InQueue(s) == Keep(sink[s].channel, Wants[s])

DeliveryInv(s) ==
  s \in Registered =>
    \E rest \in Seq(Wants[s]) :
      /\ Dealt(sink[s].log, InHand(s), InQueue(s), rest) = Expected(s)
      /\ sink[s].alive /\ ~ Dead => rest = ToSend(s)

\* The parts of a sink's facts are sequences of facts it wants.
LEMMA PartsType ==
  ASSUME NEW s \in Sinks, FlowInv(s)
  PROVE  /\ sink[s].log \in Seq(Wants[s])
         /\ InHand(s) \in Seq(Wants[s])
         /\ InQueue(s) \in Seq(Wants[s])
<1>1. InHand(s) \in Seq(Wants[s])
  <2>1. CASE sink[s].hand = None
    BY <2>1 DEF InHand
  <2>2. CASE sink[s].hand # None
    <3>1. sink[s].hand \in Wants[s]
      BY <2>2 DEF FlowInv
    <3>2. <<sink[s].hand>> \in Seq(Wants[s])
      BY <3>1, Singleton
    <3> QED
      BY <2>2, <3>2 DEF InHand
  <2> QED
    BY <2>1, <2>2
<1>2. InQueue(s) \in Seq(Wants[s])
  <2>1. sink[s].channel \in Seq(Wants[s] \cup {Flush})
    BY DEF FlowInv
  <2>2. Keep(sink[s].channel, Wants[s]) \in Seq((Wants[s] \cup {Flush}) \cap Wants[s])
    BY <2>1, KeepType
  <2>3. (Wants[s] \cup {Flush}) \cap Wants[s] = Wants[s]
    OBVIOUS
  <2> QED
    BY <2>2, <2>3 DEF InQueue
<1> QED
  BY <1>1, <1>2 DEF FlowInv

\* What is expected grows by what is popped.
LEMMA ExpectedStep ==
  ASSUME OutInv, NEW s \in Sinks, FlowInv(s), [Next]_vars,
         sink'[s].since = sink[s].since
  PROVE  /\ PopFact /\ Head(out) \in Wants[s] => Expected(s)' = Then(Expected(s), <<Head(out)>>)
         /\ PopFact /\ Head(out) \notin Wants[s] => Expected(s)' = Expected(s)
         /\ ~ PopFact => Expected(s)' = Expected(s)
<1>1. CASE ~ PopFact
  <2>1. emitted' = emitted
    BY <1>1, Frames
  <2> QED
    BY <1>1, <2>1 DEF Expected, EmittedSince
<1>2. CASE PopFact
  <2> DEFINE n == sink[s].since
             f == Head(out)
  <2>1. emitted' = Append(emitted, f)
    BY <1>2 DEF PopFact
  <2>2. PICK S : emitted \in Seq(S)
    BY DEF OutInv, IsSeq
  <2>3. emitted \in Seq(S \cup {f}) /\ n \in 0..Len(emitted)
    BY <2>2 DEF FlowInv
  <2> HIDE DEF f, n
  <2>e. f \in S \cup {f}
    OBVIOUS
  <2>4. /\ SubSeq(emitted, n + 1, Len(emitted)) \in Seq(S \cup {f})
        /\ SubSeq(Append(emitted, f), n + 1, Len(Append(emitted, f)))
             = Append(SubSeq(emitted, n + 1, Len(emitted)), f)
    BY <2>3, <2>e, SubAppend, ZenonT(60)
  <2>5. Expected(s)' = Keep(Append(EmittedSince(s), f), Wants[s])
    BY <2>1, <2>4 DEF Expected, EmittedSince, n
  <2>6. EmittedSince(s) \in Seq(S \cup {f})
    BY <2>4 DEF EmittedSince, n
  <2>7. Keep(Append(EmittedSince(s), f), Wants[s])
          = IF f \in Wants[s] THEN Append(Expected(s), f) ELSE Expected(s)
    BY <2>6, <2>e, KeepAppend DEF Expected
  <2>8. ASSUME f \in Wants[s] PROVE Append(Expected(s), f) = Expected(s) \o <<f>>
    <3>1. Expected(s) \in Seq((S \cup {f}) \cap Wants[s]) /\ f \in (S \cup {f}) \cap Wants[s]
      BY <2>6, <2>8, KeepType DEF Expected
    <3> QED
      BY <3>1, AppendIsConcat
  <2> QED
    BY <1>2, <2>5, <2>7, <2>8 DEF f, Then
<1> QED
  BY <1>1, <1>2

\* Only its registration makes a sink known, and it is new then.
LEMMA Registering ==
  ASSUME QueueInv, RegisteredInv, SinksInv, [Next]_vars,
         NEW s \in Sinks, FlowInv(s), s \in Registered', s \notin Registered
  PROVE  /\ HandleRegisterSink
         /\ sink'[s].alive /\ sink'[s].channel = <<>> /\ sink'[s].hand = None
         /\ sink'[s].log = <<>> /\ sink'[s].since = Len(emitted) /\ emitted' = emitted
<1>1. HandleRegisterSink
  BY Frames DEF Registered
<1>2. registered' = Append(registered, Head(commands).arg) /\ registered \in Seq(Sinks)
  BY <1>1 DEF HandleRegisterSink, RegisteredInv
<1>3. s = Head(commands).arg
  BY <1>2, ToSetAppend DEF Registered
<1>4. sink'[s] = [sink[s] EXCEPT !.since = Len(emitted)] /\ SinkRecord(sink[s])
  BY <1>1, <1>3 DEF HandleRegisterSink, SinksInv, SinkInv
<1>5. /\ sink'[s].alive = sink[s].alive /\ sink'[s].channel = sink[s].channel
      /\ sink'[s].hand = sink[s].hand /\ sink'[s].log = sink[s].log
      /\ sink'[s].since = Len(emitted)
  BY <1>4 DEF SinkRecord
<1>6. emitted' = emitted
  BY <1>1 DEF HandleRegisterSink, outVars
<1> QED
  BY <1>1, <1>5, <1>6 DEF FlowInv

\* What is about to be sent to a sink that a step spares.
LEMMA ToSendStep ==
  ASSUME TaskInv, [Next]_vars, NEW s \in Sinks, ~ PopFact, ~ Dead',
         \/ task' = task \/ FlushSent \/ JoinFlush \/ SendEvent
         \/ HandleFlush
  PROVE  ToSend(s)' = ToSend(s)
<1>1. CASE task' = task
  <2>1. CASE at = "deliver" /\ at' = "deliver"
    BY <1>1, <2>1 DEF ToSend
  <2>2. CASE at # "deliver" /\ at' # "deliver"
    BY <2>2 DEF ToSend
  <2>3. CASE at = "deliver" /\ at' # "deliver"
    <3>1. SendEvent
      BY <2>3, Moves
    <3>2. task.targets = <<>>
      BY <3>1 DEF SendEvent
    <3>3. ToSet(task.targets) = {}
      BY <3>2, ToSetEmpty
    <3> QED
      BY <2>3, <3>3 DEF ToSend
  <2>4. CASE at # "deliver" /\ at' = "deliver"
    <3>1. Evaluate
      BY <2>4, Moves
    <3>2. at = "drain"
      BY <3>1 DEF Evaluate
    <3>3. task.targets = <<>>
      BY <3>2 DEF TaskInv
    <3>4. ToSet(task.targets) = {}
      BY <3>3, ToSetEmpty
    <3> QED
      BY <1>1, <2>4, <3>4 DEF ToSend
  <2> QED
    BY <2>1, <2>2, <2>3, <2>4
<1>2. CASE SendEvent
  <2>1. task.targets = <<>> /\ at' # "deliver"
    BY <1>2 DEF SendEvent, Die
  <2>2. ToSet(task.targets) = {}
    BY <2>1, ToSetEmpty
  <2> QED
    BY <2>1, <2>2 DEF ToSend
<1>3. CASE FlushSent \/ JoinFlush \/ HandleFlush
  <2>1. at # "deliver" /\ at' # "deliver"
    BY <1>3 DEF FlushSent, JoinFlush, HandleFlush, Take, Reply, Handled, Die
  <2> QED
    BY <2>1 DEF ToSend
<1> QED
  BY <1>1, <1>2, <1>3

\* A step keeps DeliveryInv: no step of the reactor or of a sink's task loses,
\* doubles or reorders a fact (reactor.rs: vm.pop, sink.send().await, and the
\* loop of create_sink).
LEMMA DeliveryStep ==
  ASSUME QueueInv, RegisteredInv, SinksInv, OutInv, TaskInv, [Next]_vars,
         NEW s \in Sinks, FlowInv(s), DeliveryInv(s)
  PROVE  DeliveryInv(s)'
<1> SUFFICES ASSUME s \in Registered'
             PROVE  \E rest \in Seq(Wants[s]) :
                      /\ Dealt(sink'[s].log, InHand(s)', InQueue(s)', rest) = Expected(s)'
                      /\ sink'[s].alive /\ ~ Dead' => rest = ToSend(s)'
  BY DEF DeliveryInv
<1> DEFINE W == Wants[s]
<1>e. <<>> \in Seq(W)
  OBVIOUS
<1>d. Dead => Dead'
  BY Frames
\* A new sink expects nothing.
<1>1. CASE s \notin Registered
  <2>1. /\ HandleRegisterSink
        /\ sink'[s].channel = <<>> /\ sink'[s].hand = None /\ sink'[s].log = <<>>
        /\ sink'[s].since = Len(emitted) /\ emitted' = emitted
    BY <1>1, Registering
  <2>2. InHand(s)' = <<>> /\ InQueue(s)' = <<>>
    BY <2>1, KeepEmpty DEF InHand, InQueue
  <2>3. EmittedSince(s)' = <<>>
    <3>1. Len(emitted) \in Nat
      BY Appends DEF OutInv
    <3>2. SubSeq(emitted, Len(emitted) + 1, Len(emitted)) = <<>>
      BY <3>1, SubSeqEmpty
    <3> QED
      BY <2>1, <3>2 DEF EmittedSince
  <2>4. Expected(s)' = <<>>
    BY <2>3, KeepEmpty DEF Expected
  <2>5. Dealt(<<>>, <<>>, <<>>, <<>>) = <<>>
    BY DEF Dealt
  <2>6. at' # "deliver"
    BY <2>1 DEF HandleRegisterSink, Reply, Handled, Die
  <2>7. ToSend(s)' = <<>>
    BY <2>6 DEF ToSend
  <2> QED
    BY <1>e, <2>1, <2>2, <2>4, <2>5, <2>7
<1> SUFFICES ASSUME s \in Registered
             PROVE  \E rest \in Seq(W) :
                      /\ Dealt(sink'[s].log, InHand(s)', InQueue(s)', rest) = Expected(s)'
                      /\ sink'[s].alive /\ ~ Dead' => rest = ToSend(s)'
  BY <1>1
<1> DEFINE L == sink[s].log
           H == InHand(s)
           K == InQueue(s)
<1>t. L \in Seq(W) /\ H \in Seq(W) /\ K \in Seq(W)
  BY PartsType
<1>r. PICK R \in Seq(W) : /\ Dealt(L, H, K, R) = Expected(s)
                          /\ sink[s].alive /\ ~ Dead => R = ToSend(s)
  BY DEF DeliveryInv
<1> HIDE DEF L, H, K, W
\* The channel, the hand and the log are as they were.
<1>2. ASSUME sink'[s].log = sink[s].log, sink'[s].hand = sink[s].hand,
             sink'[s].channel = sink[s].channel
      PROVE  sink'[s].log = L /\ InHand(s)' = H /\ InQueue(s)' = K
  BY <1>2 DEF InHand, InQueue, L, H, K
<1>3. CASE PopFact
  <2> DEFINE f == Head(out)
  <2>1. sink' = sink /\ at = "deliver" /\ at' = "deliver" /\ task.targets = <<>>
    BY <1>3 DEF PopFact
  <2>2. /\ sink'[s].log = L /\ InHand(s)' = H /\ InQueue(s)' = K
        /\ sink'[s].alive = sink[s].alive /\ sink'[s].since = sink[s].since
    BY <1>2, <2>1
  <2>3. ~ Dead /\ ToSend(s) = <<>>
    BY <2>1, ToSetEmpty DEF Dead, Errors, ToSend
  <2>4. sink[s].alive => R = <<>>
    BY <1>r, <2>3
  <2>5. task'.message = f /\ ToSet(task'.targets) = Registered \cap {t \in Sinks : f \in Wants[t]}
    <3>1. task' = [NoTask EXCEPT !.message = f, !.targets = TargetsOf(f)]
      BY <1>3 DEF PopFact
    <3>2. task'.targets = TargetsOf(f) /\ task'.message = f
      BY <3>1 DEF NoTask
    <3>3. registered \in Seq(Sinks)
      BY DEF RegisteredInv
    <3>4. ToSet(TargetsOf(f)) = Registered \cap {t \in Sinks : f \in Wants[t]}
      BY <3>3, KeepRange DEF TargetsOf, Registered
    <3> QED
      BY <3>2, <3>4
  <2>6. s \in ToSet(task'.targets) <=> f \in W
    BY <2>5 DEF W
  <2> HIDE DEF f
  <2>7. ToSend(s)' = IF f \in W THEN <<f>> ELSE <<>>
    BY <2>1, <2>5, <2>6 DEF ToSend
  <2>8. CASE f \in W
    <3> DEFINE M == <<f>>
    <3>1. Expected(s)' = Then(Expected(s), M)
      BY <1>3, <2>2, <2>8, ExpectedStep DEF f, W
    <3>2. M \in Seq(W) /\ ToSend(s)' = M
      BY <2>7, <2>8, Singleton
    <3> HIDE DEF M
    <3>3. Then(R, M) \in Seq(W) /\ Then(<<>>, M) = M
      BY <3>2, ConcatProperties, ConcatEmptySeq DEF Then
    <3>4. Expected(s)' = Dealt(L, H, K, Then(R, M))
      BY <1>r, <1>t, <3>1, <3>2, DealPop
    <3>5. sink[s].alive => Then(R, M) = ToSend(s)'
      BY <2>4, <3>2, <3>3
    <3> QED
      BY <2>2, <3>3, <3>4, <3>5
  <2>9. CASE f \notin W
    <3>1. Expected(s)' = Expected(s)
      BY <1>3, <2>2, <2>9, ExpectedStep DEF f, W
    <3> QED
      BY <1>r, <2>2, <2>4, <2>7, <2>9, <3>1
  <2> QED
    BY <2>8, <2>9
\* Nothing new is expected, and the rest is the same.
<1>4. ASSUME ~ PopFact, sink'[s].since = sink[s].since,
             sink'[s].alive => sink[s].alive, ~ Dead' => ToSend(s)' = ToSend(s),
             Dealt(sink'[s].log, InHand(s)', InQueue(s)', R) = Dealt(L, H, K, R)
      PROVE  \E rest \in Seq(W) :
               /\ Dealt(sink'[s].log, InHand(s)', InQueue(s)', rest) = Expected(s)'
               /\ sink'[s].alive /\ ~ Dead' => rest = ToSend(s)'
  <2>1. Expected(s)' = Expected(s)
    BY <1>4, ExpectedStep
  <2>2. sink'[s].alive /\ ~ Dead' => R = ToSend(s)'
    BY <1>4, <1>d, <1>r
  <2> QED
    BY <1>4, <1>r, <2>1, <2>2
<1>5. CASE Spared(s) /\ ~ PopFact
  <2>1. ~ Dead' => ToSend(s)' = ToSend(s)
    BY <1>5, ToSendStep DEF Spared
  <2>2. sink'[s] = sink[s]
    BY <1>5 DEF Spared
  <2>3. sink'[s].log = L /\ InHand(s)' = H /\ InQueue(s)' = K
    BY <1>2, <2>2
  <2> QED
    BY <1>4, <1>5, <2>1, <2>2, <2>3
<1>6. CASE Misses(s)
  <2>1. SendToSink /\ sink'[s] = sink[s]
    BY <1>6 DEF Misses
  <2>2. ~ PopFact
    <3>1. task.targets # <<>>
      BY <2>1 DEF SendToSink
    <3> QED
      BY <3>1 DEF PopFact
  <2>3. ASSUME ~ Dead' PROVE ToSend(s)' = ToSend(s)
    <3>1. /\ s # Head(task.targets) /\ at' = at
          /\ task'.targets = Tail(task.targets) /\ task'.message = task.message
      BY <1>6, <2>3 DEF Misses
    <3>2. task.targets # <<>> /\ task.targets \in Seq(Sinks)
      BY <2>1 DEF SendToSink, TaskInv
    <3>3. ToSet(task.targets) = {Head(task.targets)} \cup ToSet(Tail(task.targets))
      BY <3>2, TailParts
    <3>4. s \in ToSet(task'.targets) <=> s \in ToSet(task.targets)
      BY <3>1, <3>3
    <3> QED
      BY <3>1, <3>4 DEF ToSend
  <2>4. sink'[s].log = L /\ InHand(s)' = H /\ InQueue(s)' = K
    BY <1>2, <2>1
  <2> QED
    BY <1>4, <2>1, <2>2, <2>3, <2>4
<1>7. CASE Resets(s)
  <2>1. /\ HandleFlush /\ sink'[s].channel = sink[s].channel /\ sink'[s].since = sink[s].since
        /\ sink'[s].alive = sink[s].alive /\ sink'[s].hand = sink[s].hand
        /\ sink'[s].log = sink[s].log
    BY <1>7 DEF Resets, Kept
  <2>2. ~ PopFact
    <3>1. at # "deliver"
      BY <2>1 DEF HandleFlush, Take
    <3> QED
      BY <3>1 DEF PopFact
  <2>3. ~ Dead' => ToSend(s)' = ToSend(s)
    BY <2>1, <2>2, ToSendStep
  <2>4. sink'[s].log = L /\ InHand(s)' = H /\ InQueue(s)' = K
    BY <1>2, <2>1
  <2> QED
    BY <1>4, <2>1, <2>2, <2>3, <2>4
<1>8. CASE Registers(s)
  <2>1. /\ at \in {"select", "drain"} /\ commands # <<>> /\ Head(commands).op = "sink"
        /\ s = Head(commands).arg
    BY <1>8 DEF Registers, HandleRegisterSink, Take
  <2>2. ~ Dead /\ 1 \in 1..Len(commands) /\ Head(commands) = commands[1]
    <3>1. ~ Dead
      BY <2>1 DEF Dead, Errors
    <3>2. commands \in Seq(Commands) /\ commands # <<>>
      BY <2>1 DEF QueueInv
    <3> QED
      BY <3>1, <3>2
  <2>3. s \notin Registered
    BY <2>1, <2>2 DEF RegisteredInv
  <2> QED
    BY <2>3
<1>9. CASE Gets(s)
  <2> DEFINE m == task.message
  <2>1. /\ SendToSink /\ s = Head(task.targets) /\ at' = at
        /\ task'.targets = Tail(task.targets)
        /\ sink'[s].channel = Append(sink[s].channel, m)
    BY <1>9 DEF Gets
  <2>2. /\ sink'[s].alive = sink[s].alive /\ sink'[s].hand = sink[s].hand
        /\ sink'[s].log = sink[s].log /\ sink'[s].since = sink[s].since
    BY <1>9 DEF Gets, Kept
  <2>3. sink'[s].log = L /\ InHand(s)' = H
    BY <2>2 DEF InHand, L, H
  <2>4. at \in {"flush", "deliver"} /\ task.targets # <<>> /\ task.targets \in Seq(Sinks)
    BY <2>1 DEF SendToSink, TaskInv
  <2>5. ~ PopFact
    BY <2>4 DEF PopFact
  <2>6. /\ ToSet(task.targets) = {s} \cup ToSet(Tail(task.targets))
        /\ s \notin ToSet(Tail(task.targets))
    <3>1. NoRepeats(task.targets)
      BY DEF TaskInv
    <3> QED
      BY <2>1, <2>4, <3>1, TailParts
  <2>7. ToSend(s)' = <<>>
    BY <2>1, <2>6 DEF ToSend
  <2>8. sink[s].channel \in Seq(Wants[s] \cup {Flush})
    BY DEF FlowInv
  <2>9. m \in Wants[s] \cup {Flush} =>
          InQueue(s)' = IF m \in Wants[s] THEN Append(K, m) ELSE K
    <3>1. InQueue(s)' = Keep(Append(sink[s].channel, m), Wants[s])
      BY <2>1 DEF InQueue
    <3>2. K = Keep(sink[s].channel, Wants[s])
      BY DEF InQueue, K
    <3> DEFINE C == Wants[s] \cup {Flush}
    <3>3. sink[s].channel \in Seq(C)
      BY <2>8
    <3> HIDE DEF m, C
    <3>4. ASSUME m \in C
          PROVE  Keep(Append(sink[s].channel, m), Wants[s])
                   = IF m \in Wants[s] THEN Append(Keep(sink[s].channel, Wants[s]), m)
                     ELSE Keep(sink[s].channel, Wants[s])
      BY <3>3, <3>4, KeepAppend
    <3> QED
      BY <3>1, <3>2, <3>4 DEF C
  <2>10. CASE at = "flush"
    <3>1. m = Flush /\ m \notin Wants[s]
      BY <2>10, Constants DEF TaskInv
    <3>2. InQueue(s)' = K
      BY <2>9, <3>1
    <3>3. ToSend(s) = <<>>
      BY <2>10 DEF ToSend
    <3> QED
      BY <1>4, <2>2, <2>3, <2>5, <2>7, <3>2, <3>3
  <2>11. CASE at = "deliver"
    <3>1. m \in W /\ InQueue(s)' = Append(K, m)
      BY <2>6, <2>9, <2>11 DEF TaskInv, W
    <3>2. sink[s].alive /\ ~ Dead
      BY <1>9, <2>11 DEF Gets, Dead, Errors
    <3>3. ToSend(s) = <<m>>
      BY <2>6, <2>11 DEF ToSend
    <3>4. R = <<m>>
      BY <1>r, <3>2, <3>3
    <3> HIDE DEF m
    <3>5. Dealt(L, H, K, <<m>>) = Dealt(L, H, Append(K, m), <<>>)
      BY <1>t, <3>1, DealGet
    <3>6. Expected(s)' = Expected(s)
      BY <2>2, <2>5, ExpectedStep
    <3>7. Dealt(sink'[s].log, InHand(s)', InQueue(s)', <<>>) = Expected(s)'
      BY <1>r, <2>3, <3>1, <3>4, <3>5, <3>6
    <3> QED
      BY <1>e, <2>7, <3>7
  <2> QED
    BY <2>4, <2>10, <2>11
\* The steps of the sink's own task.
<1>10. ASSUME Apart PROVE ~ PopFact /\ ToSend(s)' = ToSend(s)
  <2>1. task' = task /\ at' = at /\ out' = out
    BY <1>10 DEF Apart, outVars
  <2>2. ToSend(s)' = ToSend(s)
    BY <2>1 DEF ToSend
  <2>3. ASSUME PopFact PROVE FALSE
    <3>1. out # <<>> /\ out = Tail(out)
      BY SMTT(40), <2>1, <2>3 DEF PopFact
    <3>2. Len(Tail(out)) = Len(out) - 1 /\ Len(out) \in Nat
      BY <3>1, Tails DEF OutInv
    <3> QED
      BY <3>1, <3>2
  <2> QED
    BY <2>2, <2>3
<1>11. CASE Apart /\ Receives(s)
  <2> DEFINE c == sink[s].channel
  <2>1. /\ sink[s].alive /\ sink[s].hand = None /\ c # <<>>
        /\ sink'[s].channel = Tail(c)
        /\ sink'[s].log = sink[s].log /\ sink'[s].since = sink[s].since
        /\ \/ Head(c) = Flush /\ sink'[s].hand = None
           \/ Head(c) # Flush /\ sink'[s].hand = Head(c)
    BY <1>11 DEF Receives
  <2>2. c \in Seq(Wants[s] \cup {Flush}) /\ Head(c) \in Wants[s] \cup {Flush}
    <3>1. c \in Seq(Wants[s] \cup {Flush})
      BY DEF FlowInv
    <3> QED
      BY <2>1, <3>1, TailParts
  <2>3. HeadsOf(c, Wants[s]) /\ K = Keep(c, Wants[s]) /\ InQueue(s)' = Keep(Tail(c), Wants[s])
    BY <2>1, <2>2, KeepHead DEF InQueue, K
  <2>4. H = <<>> /\ sink'[s].log = L
    BY <2>1 DEF H, L, InHand
  <2> HIDE DEF c
  <2>5. Dealt(sink'[s].log, InHand(s)', InQueue(s)', R) = Dealt(L, H, K, R)
    <3>1. CASE Head(c) = Flush
      <4>1. InQueue(s)' = K
        BY <2>1, <2>3, <3>1, Constants DEF HeadsOf
      <4>2. InHand(s)' = H
        BY <2>1, <2>4, <3>1 DEF InHand
      <4> QED
        BY <2>4, <4>1, <4>2
    <3>2. CASE Head(c) # Flush
      <4>1. Head(c) \in Wants[s]
        BY <2>2, <3>2
      <4>2. K # <<>> /\ Head(K) = Head(c) /\ InQueue(s)' = Tail(K)
        BY <2>1, <2>3, <4>1 DEF HeadsOf
      <4>3. InHand(s)' = <<Head(K)>>
        BY <2>1, <3>2, <4>1, <4>2, Constants DEF InHand
      <4>4. Dealt(L, <<>>, K, R) = Dealt(L, <<Head(K)>>, Tail(K), R)
        BY <1>t, <4>2, DealReceive
      <4> QED
        BY <2>4, <4>2, <4>3, <4>4
    <3> QED
      BY <3>1, <3>2
  <2> QED
    BY <1>4, <1>10, <1>11, <2>1, <2>5
<1>12. CASE Apart /\ Accepts(s)
  <2> DEFINE h == sink[s].hand
  <2>1. /\ sink[s].alive /\ h # None
        /\ sink'[s].channel = sink[s].channel /\ sink'[s].since = sink[s].since
        /\ sink'[s].log = Append(sink[s].log, h) /\ sink'[s].hand = None
    BY <1>12 DEF Accepts
  <2>2. h \in W
    BY <2>1 DEF FlowInv, W
  <2>3. H = <<h>> /\ InHand(s)' = <<>> /\ InQueue(s)' = K /\ sink'[s].log = Append(L, h)
    BY <2>1 DEF InHand, InQueue, H, K, L
  <2> HIDE DEF h
  <2>4. Dealt(L, <<h>>, K, R) = Dealt(Append(L, h), <<>>, K, R)
    BY <1>t, <2>2, DealAccept
  <2> QED
    BY <1>4, <1>10, <1>12, <2>1, <2>3, <2>4
<1>13. CASE Apart /\ Fails(s)
  <2>1. /\ ~ sink'[s].alive
        /\ sink'[s].channel = <<>> /\ sink'[s].hand = None
        /\ sink'[s].log = sink[s].log /\ sink'[s].since = sink[s].since
    BY <1>13 DEF Fails
  <2>2. InHand(s)' = <<>> /\ InQueue(s)' = <<>> /\ sink'[s].log = L
    BY <2>1, KeepEmpty DEF InHand, InQueue, L
  <2>3. H \o (K \o R) \in Seq(W)
    BY <1>t, DealtType
  <2>4. Dealt(L, H, K, R) = Dealt(L, <<>>, <<>>, H \o (K \o R))
    BY <1>t, DealFail
  <2>5. Expected(s)' = Expected(s)
    BY <1>10, <1>13, <2>1, ExpectedStep
  <2> QED
    BY <1>r, <2>1, <2>2, <2>3, <2>4, <2>5
<1> QED
  BY <1>3, <1>5, <1>6, <1>7, <1>8, <1>9, <1>11, <1>12, <1>13, SinkSteps

\* DeliveryInv says what SinkGetsAll promises.
LEMMA AllGiven ==
  ASSUME RegisteredInv, \A s \in Sinks : FlowInv(s) /\ DeliveryInv(s)
  PROVE  SinkGetsAll
<1> SUFFICES ASSUME NEW s \in Registered
             PROVE  /\ IsPrefix(sink[s].log, Expected(s))
                    /\ (sink[s].alive /\ ~ Dead) =>
                         sink[s].log \o InHand(s) \o InChannel(s) \o ToSend(s) = Expected(s)
  BY DEF SinkGetsAll
<1>1. s \in Sinks
  BY DEF RegisteredInv, Registered, ToSet
<1>2. /\ sink[s].log \in Seq(Wants[s]) /\ InHand(s) \in Seq(Wants[s])
      /\ InQueue(s) \in Seq(Wants[s])
  BY <1>1, PartsType
<1>3. PICK R \in Seq(Wants[s]) :
        /\ Dealt(sink[s].log, InHand(s), InQueue(s), R) = Expected(s)
        /\ sink[s].alive /\ ~ Dead => R = ToSend(s)
  BY <1>1 DEF DeliveryInv
<1> DEFINE rest == InHand(s) \o (InQueue(s) \o R)
<1>4. rest \in Seq(Wants[s])
  BY <1>2, DealtType
<1>5. Expected(s) = Dealt(sink[s].log, <<>>, <<>>, rest)
  BY <1>2, <1>3, DealFail
<1>6. Dealt(sink[s].log, <<>>, <<>>, rest) = sink[s].log \o rest
  <2>1. sink[s].log \o <<>> = sink[s].log
    BY <1>2, ConcatEmptySeq
  <2> QED
    BY <2>1 DEF Dealt
<1> HIDE DEF rest
<1>7. IsPrefix(sink[s].log, Expected(s))
  BY <1>2, <1>4, <1>5, <1>6, PrefixOf
<1>8. InQueue(s) = InChannel(s)
  <2>1. sink[s].channel \in Seq(Wants[s] \cup {Flush})
    BY <1>1 DEF FlowInv
  <2>2. (Wants[s] \cup {Flush}) \cap Wants[s] = (Wants[s] \cup {Flush}) \cap Emittable
    BY <1>1, ReactorAssumption DEF Emittable
  <2> QED
    BY <2>1, <2>2, KeepSame DEF InQueue, InChannel
<1> QED
  BY <1>3, <1>7, <1>8 DEF Dealt

-----------------------------------------------------------------------------
(* A flush is the last message of a channel, and who answered it is empty.   *)

FlushInv(s) ==
  (s \in Registered /\ ~ Dead) =>
    /\ Flush \in ToSet(sink[s].channel) =>
         Flushing /\ s \notin ToSet(task.targets) /\ ~ sink[s].flushed
    /\ \A i \in 1..Len(sink[s].channel) :
         sink[s].channel[i] = Flush => i = Len(sink[s].channel)
    /\ Flushing =>
         /\ s \in ToSet(task.targets) => ~ sink[s].flushed
         /\ sink[s].flushed => /\ sink[s].alive /\ sink[s].hand = None
                              /\ sink[s].channel = <<>>

\* A step keeps FlushInv: a sink that acknowledged a flush has nothing left to
\* do, since the flush came after all its facts and nothing follows it
\* (reactor.rs, ClientCommand::Flush and the branch of create_sink).
LEMMA FlushStep ==
  ASSUME QueueInv, RegisteredInv, SinksInv, TaskInv, [Next]_vars,
         NEW s \in Sinks, FlowInv(s), FlushInv(s)
  PROVE  FlushInv(s)'
<1> DEFINE c == sink[s].channel
<1> SUFFICES ASSUME s \in Registered', ~ Dead'
             PROVE  /\ Flush \in ToSet(sink'[s].channel) =>
                         Flushing' /\ s \notin ToSet(task'.targets) /\ ~ sink'[s].flushed
                    /\ \A i \in 1..Len(sink'[s].channel) :
                         sink'[s].channel[i] = Flush => i = Len(sink'[s].channel)
                    /\ Flushing' =>
                         /\ s \in ToSet(task'.targets) => ~ sink'[s].flushed
                         /\ sink'[s].flushed => /\ sink'[s].alive /\ sink'[s].hand = None
                                               /\ sink'[s].channel = <<>>
  BY DEF FlushInv
<1>0. ~ Dead
  BY Frames
<1>c. c \in Seq(Wants[s] \cup {Flush}) /\ sink[s].flushed \in BOOLEAN
  BY DEF FlowInv
<1>1. CASE s \notin Registered
  <2>1. HandleRegisterSink /\ sink'[s].channel = <<>>
    BY <1>1, Registering
  <2>2. ~ Flushing'
    BY <2>1 DEF HandleRegisterSink, Reply, Handled, Die, Flushing
  <2>3. ToSet(<<>>) = {} /\ Len(<<>>) = 0
    BY ToSetEmpty
  <2> QED
    BY <2>1, <2>2, <2>3
<1>2. CASE s \in Registered
  <2>i. /\ Flush \in ToSet(c) =>
             Flushing /\ s \notin ToSet(task.targets) /\ ~ sink[s].flushed
        /\ \A i \in 1..Len(c) : c[i] = Flush => i = Len(c)
        /\ Flushing =>
             /\ s \in ToSet(task.targets) => ~ sink[s].flushed
             /\ sink[s].flushed => sink[s].alive /\ sink[s].hand = None /\ c = <<>>
    BY <1>0, <1>2 DEF FlushInv
  <2>1. CASE HandleFlush
    <3>1. sink'[s].channel = c /\ ~ sink'[s].flushed
      BY <2>1, ResetsAll DEF Resets
    <3>2. Flush \notin ToSet(c)
      BY <2>i, <2>1 DEF HandleFlush, Take, Flushing
    <3> QED
      BY <2>i, <3>1, <3>2
  <2>2. CASE Spared(s) /\ ~ HandleFlush
    <3>1. sink'[s] = sink[s]
      BY <2>2 DEF Spared
    <3>2. ASSUME Flushing' PROVE Flushing /\ task'.targets = task.targets
      <4>1. Flushing
        BY <2>2, <3>2, Moves
      <4>2. ~ SendEvent /\ ~ PopFact
        BY <4>1 DEF SendEvent, PopFact, Flushing
      <4>3. ~ JoinFlush
        BY <3>2, ReplyKeeps DEF JoinFlush, Flushing, Reply, Handled, Die
      <4>4. FlushSent => task'.targets = task.targets
        <5>1. TaskRecord(task)
          BY DEF SinksInv
        <5> QED
          BY <5>1 DEF FlushSent, TaskRecord
      <4> QED
        BY <2>2, <4>1, <4>2, <4>3, <4>4 DEF Spared
    <3>3. ASSUME Flush \in ToSet(c) PROVE Flushing'
      <4>1. Flushing /\ ~ sink[s].flushed
        BY <2>i, <3>3
      <4>2. ~ JoinFlush
        <5>1. ASSUME JoinFlush PROVE Acknowledged
          BY <5>1 DEF JoinFlush, Die, Dead, Errors
        <5>2. ASSUME Acknowledged PROVE sink[s].flushed
          <6>1. s \in ToSet(task.handles)
            BY <1>2, <4>1 DEF TaskInv
          <6> QED
            BY <5>2, <6>1 DEF Acknowledged, ToSet
        <5> QED
          BY <4>1, <5>1, <5>2
      <4> QED
        BY <4>1, <4>2, Moves
    <3> QED
      BY <2>i, <3>1, <3>2, <3>3
  <2>3. CASE Misses(s)
    <3>1. /\ SendToSink /\ sink'[s] = sink[s] /\ s # Head(task.targets) /\ at' = at
          /\ task'.targets = Tail(task.targets)
      BY <2>3 DEF Misses
    <3>2. task.targets # <<>> /\ task.targets \in Seq(Sinks)
      BY <3>1 DEF SendToSink, TaskInv
    <3>3. ToSet(task.targets) = {Head(task.targets)} \cup ToSet(Tail(task.targets))
      BY <3>2, TailParts
    <3>4. s \in ToSet(task'.targets) <=> s \in ToSet(task.targets)
      BY <3>1, <3>3
    <3>5. Flushing' <=> Flushing
      BY <3>1 DEF Flushing
    <3> QED
      BY <2>i, <3>1, <3>4, <3>5
  <2>4. CASE Registers(s)
    <3>1. /\ at \in {"select", "drain"} /\ commands # <<>> /\ Head(commands).op = "sink"
          /\ s = Head(commands).arg
      BY <2>4 DEF Registers, HandleRegisterSink, Take
    <3>2. commands \in Seq(Commands) /\ commands # <<>>
      BY <3>1 DEF QueueInv
    <3>3. 1 \in 1..Len(commands) /\ Head(commands) = commands[1]
      BY <3>2
    <3>4. s \notin Registered
      BY <1>0, <3>1, <3>3 DEF RegisteredInv
    <3> QED
      BY <1>2, <3>4
  <2>5. CASE Gets(s)
    <3> DEFINE m == task.message
    <3>1. /\ SendToSink /\ s = Head(task.targets) /\ at' = at
          /\ task'.targets = Tail(task.targets) /\ sink[s].alive
          /\ sink'[s].channel = Append(c, m) /\ sink'[s].flushed = sink[s].flushed
      BY <2>5 DEF Gets
    <3>2. /\ task.targets # <<>> /\ task.targets \in Seq(Sinks) /\ NoRepeats(task.targets)
          /\ at \in {"flush", "deliver"}
      BY <3>1 DEF SendToSink, TaskInv
    <3>3. s \in ToSet(task.targets) /\ s \notin ToSet(Tail(task.targets))
      BY ZenonT(60), <3>1, <3>2, TailParts
    <3>4. Flush \notin ToSet(c)
      BY <2>i, <3>3
    <3>5. /\ Len(c) \in Nat /\ Len(Append(c, m)) = Len(c) + 1
          /\ \A i \in 1..Len(c) : Append(c, m)[i] = c[i] /\ c[i] # Flush
      <4>1. \A i \in 1..Len(c) : c[i] # Flush
        BY <3>4 DEF ToSet
      <4> HIDE DEF m
      <4> QED
        BY <1>c, <4>1
    <3>6. \A i \in 1..Len(Append(c, m)) :
            Append(c, m)[i] = Flush => i = Len(Append(c, m))
      BY <3>5
    <3>7. CASE at = "flush"
      <4>1. Flushing /\ Flushing'
        BY <3>1, <3>7 DEF Flushing
      <4>2. ~ sink[s].flushed
        BY SMTT(40), <2>i, <3>3, <4>1
      <4> QED
        BY <3>1, <3>3, <3>6, <4>1, <4>2
    <3>8. CASE at = "deliver"
      <4>1. m # Flush
        BY <3>3, <3>8, Constants DEF TaskInv
      <4>2. Flush \notin ToSet(Append(c, m))
        BY <1>c, <3>4, <4>1, ToSetAppend
      <4>3. ~ Flushing'
        BY <3>1, <3>8 DEF Flushing
      <4> QED
        BY <3>1, <3>6, <4>2, <4>3
    <3> QED
      BY <3>2, <3>7, <3>8
  <2>6. ASSUME Apart PROVE (Flushing' <=> Flushing) /\ task' = task
    BY <2>6 DEF Apart, Flushing
  <2>7. CASE Apart /\ Receives(s)
    <3>1. c # <<>> /\ sink'[s].channel = Tail(c)
      BY <2>7 DEF Receives
    <3>2. /\ ToSet(c) = {Head(c)} \cup ToSet(Tail(c))
          /\ Head(c) = c[1] /\ Len(c) \in Nat /\ Len(c) >= 1 /\ Len(Tail(c)) = Len(c) - 1
          /\ \A i \in 1..Len(Tail(c)) : Tail(c)[i] = c[i + 1]
          /\ Len(Tail(c)) = 0 => Tail(c) = <<>>
      <4>1. ToSet(c) = {Head(c)} \cup ToSet(Tail(c))
        BY <1>c, <3>1, TailParts
      <4> DEFINE C == Wants[s] \cup {Flush}
      <4>2. c \in Seq(C)
        BY <1>c
      <4> HIDE DEF c, C
      <4> QED
        BY <3>1, <4>1, <4>2
    <3>3. ~ (Flushing /\ sink[s].flushed)
      BY <2>i, <3>1
    <3>4. \A i \in 1..Len(Tail(c)) : Tail(c)[i] = Flush => i = Len(Tail(c))
      <4> TAKE i \in 1..Len(Tail(c))
      <4> HAVE Tail(c)[i] = Flush
      <4>1. i + 1 \in 1..Len(c) /\ c[i + 1] = Flush
        BY <3>2
      <4>2. i + 1 = Len(c)
        BY <2>i, <4>1
      <4> QED
        BY <3>2, <4>2
    <3>5. CASE Head(c) = Flush
      <4>1. sink'[s].alive = ~ Dead /\ sink'[s].hand = None
        BY <2>7, <3>5, Constants DEF Receives
      <4>2. 1 = Len(c)
        <5>1. 1 \in 1..Len(c) /\ c[1] = Flush
          BY <3>2, <3>5
        <5> QED
          BY <2>i, <5>1
      <4>3. Tail(c) = <<>>
        BY <3>2, <4>2
      <4>4. Flush \in ToSet(c)
        BY <3>2, <3>5
      <4>5. s \notin ToSet(task'.targets)
        BY <2>i, <2>6, <2>7, <4>4
      <4>6. Flush \notin ToSet(Tail(c))
        BY <4>3, ToSetEmpty
      <4> QED
        BY <1>0, <3>1, <3>4, <4>1, <4>3, <4>5, <4>6
    <3>6. CASE Head(c) # Flush
      <4>1. sink'[s].flushed = sink[s].flushed
        BY <2>7, <3>6 DEF Receives
      <4>2. Flush \in ToSet(Tail(c)) => Flush \in ToSet(c)
        BY <3>2
      <4> QED
        BY <2>i, <2>6, <2>7, <3>1, <3>3, <3>4, <4>1, <4>2
    <3> QED
      BY <3>5, <3>6
  <2>8. CASE Apart /\ (Accepts(s) \/ Fails(s))
    <3>1. /\ sink[s].hand # None /\ sink'[s].flushed = sink[s].flushed
          /\ sink'[s].channel \in {c, <<>>}
      BY <2>8 DEF Accepts, Fails
    <3>2. ~ (Flushing /\ sink[s].flushed)
      BY <2>i, <3>1
    <3>3. ToSet(<<>>) = {} /\ Len(<<>>) = 0
      BY ToSetEmpty
    <3> QED
      BY <2>i, <2>6, <2>8, <3>1, <3>2, <3>3
  <2>9. CASE Resets(s)
    BY <2>1, <2>9 DEF Resets
  <2> QED
    BY <2>1, <2>2, <2>3, <2>4, <2>5, <2>7, <2>8, <2>9, SinkSteps
<1> QED
  BY <1>1, <1>2

-----------------------------------------------------------------------------
(* What a flush has waited for. *)

\* An element of a sequence is among the first n or among the others.
LEMMA SplitAt ==
  ASSUME NEW S, NEW q \in Seq(S), NEW n \in 0..Len(q)
  PROVE  ToSet(q) \subseteq ToSet(SubSeq(q, 1, n)) \cup ToSet(SubSeq(q, n + 1, Len(q)))
<1> SUFFICES ASSUME NEW i \in 1..Len(q)
             PROVE  q[i] \in ToSet(SubSeq(q, 1, n)) \cup ToSet(SubSeq(q, n + 1, Len(q)))
  BY DEF ToSet
<1>0. Len(q) \in Nat /\ n \in Nat /\ n <= Len(q)
  OBVIOUS
<1>1. CASE i <= n
  <2>1. /\ i \in 1..Len(SubSeq(q, 1, n)) /\ SubSeq(q, 1, n)[i] = q[i]
        /\ DOMAIN SubSeq(q, 1, n) = 1..Len(SubSeq(q, 1, n))
    BY <1>0, <1>1
  <2> QED
    BY <2>1 DEF ToSet
<1>2. CASE n < i
  <2> DEFINE r == SubSeq(q, n + 1, Len(q))
  <2>1. /\ i - n \in 1..Len(r) /\ r[i - n] = q[i] /\ DOMAIN r = 1..Len(r)
    BY <1>0, <1>2
  <2> QED
    BY <2>1 DEF ToSet
<1> QED
  BY <1>0, <1>1, <1>2

\* What was emitted before a sink was registered stays the same.
LEMMA BeforeKept ==
  ASSUME OutInv, [Next]_vars, NEW s \in Sinks, FlowInv(s), sink'[s].since = sink[s].since
  PROVE  EmittedBefore(s)' = EmittedBefore(s)
<1>1. CASE emitted' = emitted
  BY <1>1 DEF EmittedBefore
<1>2. CASE PopFact
  <2>1. PICK S : emitted \in Seq(S)
    BY DEF OutInv, IsSeq
  <2>2. emitted' = Append(emitted, Head(out)) /\ sink[s].since \in 0..Len(emitted)
    BY <1>2 DEF PopFact, FlowInv
  <2>3. SubSeq(emitted', 1, sink[s].since) = SubSeq(emitted, 1, sink[s].since)
    BY <2>1, <2>2
  <2> QED
    BY <2>3 DEF EmittedBefore
<1> QED
  BY <1>1, <1>2, Frames

\* The step that answers a flush: everything has been accepted.
LEMMA FlushAnswered ==
  ASSUME RegisteredInv, OutInv, TaskInv, JoinFlush, Acknowledged,
         NEW s \in Registered, FlowInv(s), DeliveryInv(s), FlushInv(s)
  PROVE  (call.derived \cap Wants[s]) \ EmittedBefore(s) \subseteq ToSet(sink[s].log)
<1>0. s \in Sinks
  BY DEF RegisteredInv, Registered, ToSet
<1>1. at = "join" /\ ~ Dead /\ Flushing
  BY DEF JoinFlush, Dead, Errors, Flushing
<1>2. out = <<>> /\ call.derived \subseteq ToSet(emitted)
  BY <1>1, ToSetEmpty DEF OutInv
<1>3. sink[s].flushed
  <2>1. s \in ToSet(task.handles)
    BY <1>1 DEF TaskInv
  <2> QED
    BY <2>1 DEF Acknowledged, ToSet
<1>4. sink[s].alive /\ sink[s].hand = None /\ sink[s].channel = <<>>
  BY <1>1, <1>3 DEF FlushInv
<1>5. InHand(s) = <<>> /\ InQueue(s) = <<>> /\ ToSend(s) = <<>>
  BY <1>1, <1>4, KeepEmpty DEF InHand, InQueue, ToSend
<1>6. Dealt(sink[s].log, <<>>, <<>>, <<>>) = Expected(s)
  BY <1>1, <1>4, <1>5 DEF DeliveryInv
<1>7. sink[s].log = Expected(s)
  <2>1. sink[s].log \in Seq(Wants[s])
    BY DEF FlowInv
  <2>2. sink[s].log \o <<>> = sink[s].log
    BY <2>1, ConcatEmptySeq
  <2> QED
    BY <1>6, <2>2 DEF Dealt
<1>8. PICK S : emitted \in Seq(S)
  BY DEF OutInv, IsSeq
<1> DEFINE n == sink[s].since
<1>9. n \in 0..Len(emitted)
  BY DEF FlowInv
<1>10. EmittedSince(s) \in Seq(S)
  <2>1. SubSeq(emitted, n + 1, Len(emitted)) \in Seq(S)
    <3>1. /\ n + 1 \in Int /\ Len(emitted) \in Int
          /\ \A i \in (n + 1)..Len(emitted) : emitted[i] \in S
      BY <1>8, <1>9
    <3> QED
      BY <3>1, SubSeqProperties
  <2> QED
    BY <2>1 DEF EmittedSince
<1>11. ToSet(Expected(s)) = ToSet(EmittedSince(s)) \cap Wants[s]
  BY <1>10, KeepRange DEF Expected
<1>12. ToSet(emitted) \subseteq EmittedBefore(s) \cup ToSet(EmittedSince(s))
  BY <1>8, <1>9, SplitAt DEF EmittedBefore, EmittedSince
<1> QED
  BY <1>2, <1>7, <1>11, <1>12

\* A step keeps FlushBarrier: a flush is answered after every handle was joined,
\* with the output empty.
LEMMA BarrierStep ==
  ASSUME CallInv, QueueInv, RegisteredInv, SinksInv, OutInv, TaskInv, [Next]_vars,
         \A s \in Sinks : FlowInv(s) /\ DeliveryInv(s) /\ FlushInv(s), FlushBarrier
  PROVE  FlushBarrier'
<1> SUFFICES ASSUME client' = "calling", call'.op = "flush", call'.answer = "ok",
                    NEW s \in Registered'
             PROVE  (call'.derived \cap Wants[s]) \ EmittedBefore(s)'
                      \subseteq ToSet(sink'[s].log)
  BY DEF FlushBarrier
<1>1. ~ Calls
  <2>1. ASSUME NEW op, NEW arg, Call(op, arg) PROVE FALSE
    <3>1. call' = [op |-> op, arg |-> arg, id |-> call.id + 1, answer |-> "none",
                   acked |-> acked, derived |-> derived]
      BY <2>1 DEF Call
    <3>2. call'.answer = "none"
      BY <3>1
    <3> QED
      BY <3>2
  <2> QED
    BY <2>1 DEF Calls
<1>2. call'.derived = call.derived /\ call'.op = call.op
  BY <1>1, CallFrame
<1>3. client = "calling" /\ ~ Return
  BY <1>1, CallSteps DEF Return, Answers, HandleFlush, clientVars, JoinFlush, Goes
<1>4. ~ HandleRegisterSink
  <2>1. ASSUME HandleRegisterSink PROVE FALSE
    <3>1. Answers("sink") /\ commands # <<>> /\ Head(commands).op = "sink"
          /\ Reply(Head(commands).id)
      BY <2>1, AnswersAre DEF Answers, Take
    <3>2. call.answer # "ok"
      BY <3>1 DEF QueueInv
    <3>3. Head(commands).id = call.id
      BY <3>1, <3>2, ReplyKeeps
    <3>4. 1 \in 1..Len(commands) /\ Head(commands) = commands[1]
      BY <3>1 DEF QueueInv
    <3>5. Head(commands).op = call.op
      BY <3>3, <3>4 DEF QueueInv
    <3> QED
      BY <1>2, <3>1, <3>5
  <2> QED
    BY <2>1
<1>5. registered' = registered
  BY <1>4, Frames
<1>6. s \in Registered /\ s \in Sinks
  BY <1>5 DEF Registered, RegisteredInv, ToSet
<1>7. sink'[s].since = sink[s].since /\ ToSet(sink[s].log) \subseteq ToSet(sink'[s].log)
  <2>1. CASE Accepts(s)
    <3>1. sink'[s].log = Append(sink[s].log, sink[s].hand) /\ sink'[s].since = sink[s].since
      BY <2>1 DEF Accepts
    <3>2. sink[s].log \in Seq(Wants[s])
      BY <1>6 DEF FlowInv
    <3> QED
      BY <3>1, <3>2, ToSetAppend
  <2>2. CASE ~ Accepts(s)
    <3>1. sink'[s].since = sink[s].since /\ sink'[s].log = sink[s].log
      BY <1>4, <1>6, <2>2, SinkSteps DEF Spared, Misses, Registers, Resets, Gets, Kept, Receives,
         Fails
    <3> QED
      BY <3>1
  <2> QED
    BY <2>1, <2>2
<1>8. EmittedBefore(s)' = EmittedBefore(s)
  BY <1>6, <1>7, BeforeKept
<1>9. CASE call.answer = "ok"
  <2>1. (call.derived \cap Wants[s]) \ EmittedBefore(s) \subseteq ToSet(sink[s].log)
    BY <1>2, <1>3, <1>6, <1>9 DEF FlushBarrier
  <2> QED
    BY <1>2, <1>7, <1>8, <2>1
<1>10. CASE call.answer # "ok"
  <2>1. ~ Goes
    BY <1>10, DieKeeps DEF Goes, Ends
  <2>2. ~ HandleFlush
    BY <1>10 DEF HandleFlush, clientVars
  <2>3. ASSUME NEW op \in {"insert", "sink", "stream"}, Answers(op) PROVE FALSE
    <3>1. commands # <<>> /\ Head(commands).op = op /\ Reply(Head(commands).id)
      BY <2>3 DEF Answers, Take
    <3>2. Head(commands).id = call.id
      BY <1>10, <3>1, ReplyKeeps
    <3>3. 1 \in 1..Len(commands) /\ Head(commands) = commands[1]
      BY <3>1 DEF QueueInv
    <3>4. op = "flush"
      BY <1>2, <3>1, <3>2, <3>3 DEF QueueInv
    <3> QED
      BY <3>4
  <2>4. JoinFlush
    BY <1>1, <1>3, <2>1, <2>2, <2>3, CallSteps
  <2>5. Acknowledged
    BY <1>10, <2>4, DieKeeps DEF JoinFlush
  <2>6. (call.derived \cap Wants[s]) \ EmittedBefore(s) \subseteq ToSet(sink[s].log)
    BY <1>6, <2>4, <2>5, FlushAnswered
  <2> QED
    BY <1>2, <1>7, <1>8, <2>6
<1> QED
  BY <1>9, <1>10

-----------------------------------------------------------------------------
(* What ends the reactor. *)

PeersInv ==
  /\ at \in {"send failed", "ack failed"} => \E s \in Registered : ~ sink[s].alive
  /\ at = "event failed" => events = None

\* What ends the reactor, and that what ended stays so.
LEMMA Endings ==
  ASSUME [Next]_vars
  PROVE  /\ at \in Errors => at' = at
         /\ events = None => events' = None
         /\ at \notin Errors /\ at' = "send failed" =>
              SendToSink /\ ~ Open(Head(task.targets)) /\ sink' = sink
         /\ at \notin Errors /\ at' = "ack failed" =>
              JoinFlush /\ (\E i \in DOMAIN task.handles : Lost(task.handles[i])) /\ sink' = sink
         /\ at \notin Errors /\ at' = "event failed" => events' = None
<1> USE DEF Errors
<1>1. CASE HandleInsertFact \/ HandleRegisterSink \/ HandleRegisterStream
  BY <1>1 DEF HandleInsertFact, HandleRegisterSink, HandleRegisterStream, Take, Reply, Handled, Die
<1>2. CASE HandleFlush \/ HandleStreamFact \/ HandleHangup \/ Evaluate \/ PopFact \/ EventSent
           \/ FlushSent
  BY <1>2 DEF HandleFlush, HandleStreamFact, HandleHangup, Evaluate, PopFact, EventSent,
     FlushSent, Take, Handled
<1>3. CASE SendToSink
  BY <1>3 DEF SendToSink, Die
<1>4. CASE JoinFlush
  <2>1. at = "join" /\ events' = events /\ sink' = sink
    BY <1>4 DEF JoinFlush
  <2>2. at' = "ack failed" => \E i \in DOMAIN task.handles : Lost(task.handles[i])
    BY <1>4 DEF JoinFlush, Reply, Handled, Die
  <2>3. at' \notin {"send failed", "event failed"}
    BY <1>4 DEF JoinFlush, Reply, Handled, Die
  <2> QED
    BY <1>4, <2>1, <2>2, <2>3
<1>5. CASE SendEvent
  BY <1>5 DEF SendEvent, Die
<1>6. CASE TakeEvent \/ StopListening
  BY <1>6 DEF TakeEvent, StopListening
<1>7. CASE \/ CallFlush
           \/ \E f \in Inserts : CallInsert(f)
           \/ \E s \in Sinks : CallRegister(s)
           \/ \E t \in Streams : CallStream(t)
           \/ Return \/ Cancel \/ Leave
           \/ \E s \in Sinks : (SinkReceives(s) \/ SinkAccepts(s) \/ SinkFails(s))
           \/ \E t \in Streams : StreamSends(t)
           \/ UNCHANGED vars
  <2>1. at' = at /\ events' = events
    BY <1>7 DEF CallFlush, CallInsert, CallRegister, CallStream, Call, Return, Cancel, Leave,
       StreamSends, SinkReceives, SinkAccepts, SinkFails, vars
  <2> QED
    BY ZenonT(60), <2>1
<1> QED
  BY <1>1, <1>2, <1>3, <1>4, <1>5, <1>6, <1>7 DEF Next, ReactorStep

\* A step keeps PeersInv: a send that fails has lost its receiver.
LEMMA PeersStep ==
  ASSUME RegisteredInv, SinksInv, TaskInv, PeersInv, [Next]_vars
  PROVE  PeersInv'
\* The dead stay dead, and registered.
<1>0. ASSUME NEW s \in Registered PROVE s \in Registered'
  <2>1. registered' = registered \/ registered' = Append(registered, Head(commands).arg)
    BY Frames DEF HandleRegisterSink
  <2> QED
    BY <2>1, ToSetAppend DEF Registered, RegisteredInv
<1>1. ASSUME NEW s \in Registered, ~ sink[s].alive
      PROVE  s \in Registered' /\ ~ sink'[s].alive
  <2>1. s \in Sinks
    BY DEF RegisteredInv, Registered, ToSet
  <2>2. ~ sink'[s].alive
    BY <1>1, <2>1, SinkSteps DEF Spared, Misses, Registers, Resets, Gets, Kept, Receives, Accepts,
       Fails
  <2> QED
    BY <1>0, <2>2
\* The reactor has ended before.
<1>2. CASE at \in Errors
  <2>1. at' = at
    BY <1>2, Endings
  <2>2. at = "event failed" => events' = None
    BY Endings DEF PeersInv
  <2>3. ASSUME at \in {"send failed", "ack failed"}
        PROVE  \E s \in Registered' : ~ sink'[s].alive
    BY <1>1, <2>3 DEF PeersInv
  <2> QED
    BY <2>1, <2>2, <2>3 DEF PeersInv
\* It ends on this step.
<1>3. CASE at \notin Errors /\ at' = "send failed"
  <2> DEFINE s == Head(task.targets)
  <2>1. SendToSink /\ ~ sink'[s].alive
    BY <1>3, Endings DEF Open
  <2>2. s \in ToSet(task.targets)
    <3>1. task.targets # <<>> /\ task.targets \in Seq(Sinks)
      BY <2>1 DEF SendToSink, TaskInv
    <3> QED
      BY <3>1, TailParts
  <2>3. s \in Registered'
    BY <1>0, <2>2 DEF TaskInv
  <2> QED
    BY <1>3, <2>1, <2>3 DEF PeersInv
<1>4. CASE at \notin Errors /\ at' = "ack failed"
  <2>1. JoinFlush /\ sink' = sink
    BY <1>4, Endings
  <2>2. PICK i \in DOMAIN task.handles : Lost(task.handles[i])
    BY <1>4, Endings
  <2>3. at = "join"
    BY <2>1 DEF JoinFlush
  <2>4. task.handles[i] \in Registered
    BY <2>3 DEF TaskInv, Flushing, ToSet
  <2>5. task.handles[i] \in Registered' /\ ~ sink'[task.handles[i]].alive
    BY <1>0, <2>1, <2>2, <2>4 DEF Lost
  <2> QED
    BY <1>4, <2>5 DEF PeersInv
<1>5. CASE at \notin Errors /\ at' \notin {"send failed", "ack failed"}
  BY <1>5, Endings DEF PeersInv
<1> QED
  BY <1>2, <1>3, <1>4, <1>5

-----------------------------------------------------------------------------
(* On one thread the client waits until what it inserted is evaluated.       *)

ThreadInv ==
  /\ acked \subseteq base
  /\ call.acked \subseteq acked
  /\ (client = "calling" /\ call.op = "insert" /\ call.answer = "ok") =>
       call.arg \in base \/ (at = "drain" /\ call.arg \in pending)
  /\ (registered # <<>> /\ ~ Dead) =>
       Model(base) = derived \/ (at = "drain" /\ commands = <<>>)
  /\ (/\ client = "calling" /\ call.op = "flush" /\ registered # <<>>
      /\ call.answer = "ok" \/ ~ Dead) =>
       Model(call.acked) \subseteq call.derived

\* From the drain loop with no command left the only way out is an epoch.
LEMMA DrainStep ==
  ASSUME SingleThread, at = "drain", commands = <<>>, [Next]_vars
  PROVE  \/ Evaluate
         \/ /\ at' = "drain" /\ commands' = <<>> /\ base' = base /\ derived' = derived
            /\ pending \subseteq pending'
<1>1. CASE \/ CallFlush
           \/ \E f \in Inserts : CallInsert(f)
           \/ \E s \in Sinks : CallRegister(s)
           \/ \E t \in Streams : CallStream(t)
           \/ Return \/ Cancel \/ Leave
  BY <1>1 DEF CallFlush, CallInsert, CallRegister, CallStream, Call, Return, Cancel, Leave,
     ClientRuns
<1>2. CASE \/ HandleInsertFact \/ HandleRegisterSink \/ HandleRegisterStream \/ HandleFlush
           \/ SendToSink \/ FlushSent \/ JoinFlush \/ PopFact \/ SendEvent \/ EventSent
  BY <1>2 DEF HandleInsertFact, HandleRegisterSink, HandleRegisterStream, HandleFlush, Take,
     SendToSink, FlushSent, JoinFlush, PopFact, SendEvent, EventSent
<1>3. CASE HandleStreamFact
  BY <1>3 DEF HandleStreamFact, Eng!Submit, Handled, clientVars
<1>4. CASE HandleHangup
  BY SMTT(40), <1>4 DEF HandleHangup, Handled, engineVars
<1>5. CASE \/ \E s \in Sinks : (SinkReceives(s) \/ SinkAccepts(s) \/ SinkFails(s))
           \/ \E t \in Streams : StreamSends(t)
           \/ TakeEvent \/ StopListening \/ UNCHANGED vars
  BY <1>5 DEF SinkReceives, SinkAccepts, SinkFails, StreamSends, TakeEvent, StopListening, vars,
     engineVars
<1> QED
  BY <1>1, <1>2, <1>3, <1>4, <1>5 DEF Next, ReactorStep

\* A step keeps ThreadInv: on one thread the client is not scheduled between its
\* insert being answered and the evaluation of it, so that a flush that follows
\* finds what it needs derived.
LEMMA ThreadStep ==
  ASSUME SingleThread, Monotone, ThreadInv, [Next]_vars, QueueInv',
         CallInv, QueueInv, InputsInv, SinksInv
  PROVE  ThreadInv'
<1>d. Dead => Dead'
  BY Frames
\* Nothing is forgotten.
<1>b. /\ base \subseteq base'
      /\ Evaluate => base' = base \cup pending /\ derived' = Model(base')
      /\ Evaluate \/ (base' = base /\ derived' = derived)
  <2>1. Evaluate => base' = base \cup pending /\ derived' = Model(base')
    BY DEF Evaluate, Eng!Evaluate
  <2> QED
    BY <2>1, Frames
\* A call under way was under way before, or begins.
<1>c. ASSUME client' = "calling", ~ Calls
      PROVE  client = "calling" /\ ~ Return
  BY <1>c, CallSteps DEF Return, Answers, HandleFlush, clientVars, JoinFlush, Goes
<1>k. Calls \/ /\ call'.op = call.op /\ call'.arg = call.arg /\ call'.id = call.id
               /\ call'.acked = call.acked /\ call'.derived = call.derived
  BY CallFrame
\* A call that begins.
<1>n. ASSUME Calls
      PROVE  /\ at # "drain" /\ ~ Dead /\ call'.answer = "none"
             /\ call'.acked = acked /\ call'.derived = derived
             /\ UNCHANGED <<acked, base, derived, registered>>
  <2>1. PICK op, arg : Call(op, arg)
    BY <1>n DEF Calls
  <2>2. call' = [op |-> op, arg |-> arg, id |-> call.id + 1, answer |-> "none",
                 acked |-> acked, derived |-> derived]
    BY <2>1 DEF Call
  <2> QED
    BY <2>1, <2>2 DEF Call, ClientRuns, engineVars
\* A call that is answered was answered before, or the step answers it.
<1>o. ASSUME call'.answer = "ok", call.answer # "ok", ~ Calls, ~ Return
      PROVE  /\ ~ Dead
             /\ \/ /\ HandleInsertFact /\ at' = "drain" /\ call.arg = Head(commands).arg
                \/ call.op # "insert"
             /\ ~ (HandleRegisterSink /\ call.op = "flush")
  <2>1. ~ Goes /\ ~ HandleFlush
    BY <1>o, DieKeeps DEF Goes, Ends, HandleFlush, clientVars
  <2>2. CASE JoinFlush
    <3>1. at = "join" /\ (Reply(task.command) \/ Die("ack failed"))
      BY <2>2 DEF JoinFlush
    <3>2. task.command = call.id
      <4>1. CASE Reply(task.command)
        BY <1>o, <4>1, ReplyKeeps
      <4>2. CASE Die("ack failed")
        BY <1>o, <4>2, DieKeeps
      <4> QED
        BY <3>1, <4>1, <4>2
    <3>3. call.op = "flush"
      BY <3>1, <3>2 DEF QueueInv, Flushing
    <3>4. ~ HandleRegisterSink
      BY <3>1 DEF HandleRegisterSink, Take
    <3> QED
      BY <3>1, <3>3, <3>4 DEF Dead, Errors
  <2>3. ASSUME NEW op \in {"insert", "sink", "stream"}, Answers(op)
        PROVE  /\ ~ Dead
               /\ \/ /\ HandleInsertFact /\ at' = "drain" /\ call.arg = Head(commands).arg
                  \/ call.op # "insert"
               /\ call.op # "flush"
    <3>1. /\ at \in {"select", "drain"} /\ commands # <<>> /\ Head(commands).op = op
          /\ Reply(Head(commands).id) /\ (op = "insert" => HandleInsertFact)
      BY <2>3 DEF Answers, Take
    <3>2. Head(commands).id = call.id /\ at' = "drain"
      BY <1>o, <3>1, ReplyKeeps
    <3>3. 1 \in 1..Len(commands) /\ Head(commands) = commands[1]
      BY <3>1 DEF QueueInv
    <3>4. call.op = op /\ call.arg = Head(commands).arg
      BY <3>1, <3>2, <3>3 DEF QueueInv
    <3>5. ~ Dead
      BY <3>1 DEF Dead, Errors
    <3> QED
      BY <2>3, <3>1, <3>2, <3>4, <3>5
  <2> QED
    BY <1>o, <2>1, <2>2, <2>3, CallSteps
<1>1. acked \subseteq acked' /\ acked' \subseteq base'
  <2>1. CASE Return
    <3>1. /\ at # "drain" /\ client = "calling"
          /\ acked' = IF call.op = "insert" /\ call.answer = "ok" THEN acked \cup {call.arg}
                      ELSE acked
      BY <2>1 DEF Return, ClientRuns
    <3>2. (call.op = "insert" /\ call.answer = "ok") => call.arg \in base
      BY <3>1 DEF ThreadInv
    <3> QED
      BY <1>b, <3>1, <3>2 DEF ThreadInv
  <2>2. CASE ~ Return
    <3>1. acked' = acked
      BY <1>n, <2>2, CallSteps DEF Answers, HandleFlush, clientVars, JoinFlush, Goes
    <3> QED
      BY <1>b, <3>1 DEF ThreadInv
  <2> QED
    BY <2>1, <2>2
<1>2. call'.acked \subseteq acked'
  BY <1>1, <1>k, <1>n DEF ThreadInv
<1>3. ASSUME client' = "calling", call'.op = "insert", call'.answer = "ok"
      PROVE  call'.arg \in base' \/ (at' = "drain" /\ call'.arg \in pending')
  <2>1. ~ Calls /\ client = "calling" /\ ~ Return /\ call.op = "insert" /\ call'.arg = call.arg
    BY <1>3, <1>c, <1>k, <1>n
  <2>2. CASE call.answer = "ok"
    <3>1. CASE call.arg \in base
      BY <1>b, <2>1, <3>1
    <3>2. CASE at = "drain" /\ call.arg \in pending
      <4>1. commands = <<>>
        BY <2>2 DEF QueueInv
      <4> QED
        BY <1>b, <2>1, <3>2, <4>1, DrainStep
    <3> QED
      BY <2>1, <2>2, <3>1, <3>2 DEF ThreadInv
  <2>3. CASE call.answer # "ok"
    <3>1. HandleInsertFact /\ at' = "drain" /\ call.arg = Head(commands).arg
      BY <1>3, <1>o, <2>1, <2>3
    <3>2. pending' = pending \cup {Head(commands).arg}
      BY <3>1 DEF HandleInsertFact, Eng!Submit
    <3> QED
      BY <2>1, <3>1, <3>2
  <2> QED
    BY <2>2, <2>3
<1>4. ASSUME registered' # <<>>, ~ Dead'
      PROVE  Model(base') = derived' \/ (at' = "drain" /\ commands' = <<>>)
  <2>1. CASE HandleRegisterSink
    <3>1. Reply(Head(commands).id)
      BY <2>1 DEF HandleRegisterSink
    <3>2. at' = "drain" /\ call'.answer = "ok"
      BY <1>4, <3>1, ReplyKeeps DEF Dead, Errors
    <3> QED
      BY <3>2 DEF QueueInv
  <2>2. CASE ~ HandleRegisterSink
    <3>1. registered # <<>> /\ ~ Dead
      BY <1>4, <1>d, <2>2, Frames
    <3>2. CASE Model(base) = derived
      BY <1>b, <3>2
    <3>3. CASE at = "drain" /\ commands = <<>>
      BY <1>b, <3>3, DrainStep
    <3> QED
      BY <3>1, <3>2, <3>3 DEF ThreadInv
  <2> QED
    BY <2>1, <2>2
<1>5. ASSUME client' = "calling", call'.op = "flush", registered' # <<>>,
             call'.answer = "ok" \/ ~ Dead'
      PROVE  Model(call'.acked) \subseteq call'.derived
  <2>1. CASE Calls
    <3>1. Model(base) = derived
      BY <1>5, <1>n, <2>1 DEF ThreadInv
    <3>2. Model(acked) \subseteq Model(base)
      BY DEF ThreadInv, Monotone, InputsInv
    <3> QED
      BY <1>n, <2>1, <3>1, <3>2
  <2>2. CASE ~ Calls
    <3>1. /\ client = "calling" /\ ~ Return /\ call.op = "flush"
          /\ call'.acked = call.acked /\ call'.derived = call.derived
      BY <1>5, <1>c, <1>k, <2>2
    <3>2. call.answer = "ok" \/ ~ Dead
      BY <1>5, <1>d, <1>o, <2>2, <3>1
    <3>3. ~ HandleRegisterSink
      <4>1. ASSUME HandleRegisterSink PROVE FALSE
        <5>1. Reply(Head(commands).id) /\ commands # <<>>
          BY <4>1 DEF HandleRegisterSink, Take
        <5>2. call.answer # "ok"
          BY <5>1 DEF QueueInv
        <5>3. call'.answer # "ok"
          BY <1>o, <2>2, <3>1, <4>1, <5>2
        <5>4. Dead'
          BY <5>1, <5>3, ReplyKeeps DEF Dead, Errors
        <5> QED
          BY <1>5, <5>3, <5>4
      <4> QED
        BY <4>1
    <3>4. registered # <<>>
      BY <1>5, <3>3, Frames
    <3> QED
      BY <3>1, <3>2, <3>4 DEF ThreadInv
  <2> QED
    BY <2>1, <2>2
<1> QED
  BY <1>1, <1>2, <1>3, <1>4, <1>5 DEF ThreadInv

-----------------------------------------------------------------------------
(* The inductive invariant.                                                  *)

ReactorInv ==
  /\ ChannelsInv
  /\ CallInv /\ QueueInv /\ PatientInv
  /\ InputsInv /\ OutInv
  /\ RegisteredInv /\ TaskInv /\ PeersInv
  /\ \A s \in Sinks : FlowInv(s) /\ DeliveryInv(s) /\ FlushInv(s)
  /\ FlushBarrier

\* The reactor starts in ReactorInv.
LEMMA InitReactor == Init => ReactorInv
<1> SUFFICES ASSUME Init PROVE ReactorInv
  OBVIOUS
<1>0. /\ client = "idle" /\ call = NoCall /\ acked = {} /\ commands = <<>> /\ at = "select"
      /\ out = <<>> /\ emitted = <<>> /\ registered = <<>> /\ task = NoTask /\ events = 0
      /\ pending = {} /\ base = {} /\ derived = {}
      /\ sink = [s \in Sinks |-> NewSink]
      /\ streamed = [t \in Streams |-> None] /\ arrivals = <<>>
  BY DEF Init, Eng!Init
<1>1. ChannelsInv
  BY InitChannels
<1>e. /\ ToSet(<<>>) = {} /\ Len(<<>>) = 0 /\ NoRepeats(<<>>) /\ Registered = {}
      /\ \A S : <<>> \in Seq(S)
  BY <1>0, ToSetEmpty DEF NoRepeats, Registered
<1>d. ~ Dead /\ ~ Flushing
  BY <1>0 DEF Dead, Errors, Flushing
<1>2. CallInv
  BY <1>0, Constants DEF CallInv, NoCall, Places
<1>3. QueueInv /\ PatientInv
  <2>1. call.answer = "none"
    BY <1>0 DEF NoCall
  <2>2. at # "reply failed" /\ (\A i \in 1..Len(commands) : FALSE)
    BY <1>0, <1>e
  <2> QED
    BY <1>0, <1>d, <1>e, <2>1, <2>2 DEF QueueInv, PatientInv
<1>4. InputsInv
  BY <1>0, <1>e DEF InputsInv
<1>5. OutInv
  BY <1>0, <1>e, Empty DEF OutInv, NoCall
<1>6. RegisteredInv
  BY <1>0, <1>e DEF RegisteredInv
<1>7. TaskInv
  <2>1. task.targets = <<>>
    BY <1>0 DEF NoTask
  <2> QED
    BY <1>0, <1>d, <1>e, <2>1 DEF TaskInv
<1>8. PeersInv
  BY <1>0 DEF PeersInv
<1>9. ASSUME NEW s \in Sinks PROVE FlowInv(s) /\ DeliveryInv(s) /\ FlushInv(s)
  <2>1. sink[s] = NewSink
    BY <1>0, <1>9
  <2>f. /\ sink[s].alive = TRUE /\ sink[s].flushed = FALSE /\ sink[s].channel = <<>>
        /\ sink[s].hand = None /\ sink[s].log = <<>> /\ sink[s].since = 0
    BY <2>1 DEF NewSink
  <2>s. 0 \in 0..Len(emitted)
    BY <1>0, <1>e
  <2>2. FlowInv(s)
    BY <1>e, <2>f, <2>s DEF FlowInv
  <2> QED
    BY <1>e, <2>2 DEF DeliveryInv, FlushInv
<1>10. FlushBarrier
  BY <1>0 DEF FlushBarrier
<1> QED
  BY <1>1, <1>2, <1>3, <1>4, <1>5, <1>6, <1>7, <1>8, <1>9, <1>10 DEF ReactorInv

\* Every step keeps ReactorInv.
LEMMA ReactorKeeps == ReactorInv /\ [Next]_vars => ReactorInv'
<1> SUFFICES ASSUME ReactorInv, [Next]_vars PROVE ReactorInv'
  OBVIOUS
<1>0. /\ ChannelsInv /\ SinksInv
      /\ CallInv /\ QueueInv /\ PatientInv /\ InputsInv /\ OutInv
      /\ RegisteredInv /\ TaskInv /\ PeersInv /\ FlushBarrier
      /\ \A s \in Sinks : FlowInv(s) /\ DeliveryInv(s) /\ FlushInv(s)
  BY DEF ReactorInv, ChannelsInv
<1>1. ChannelsInv'
  BY <1>0, CommandsStep, ArrivalsStep, EventsStep, SinksStep DEF ChannelsInv
<1>2. CallInv' /\ QueueInv' /\ PatientInv'
  BY <1>0, CallStep, QueueStep, PatientStep
<1>3. InputsInv' /\ OutInv'
  BY <1>0, InputsStep, OutStep
<1>4. RegisteredInv' /\ TaskInv' /\ PeersInv'
  BY <1>0, RegisteredStep, TaskStep, PeersStep
<1>5. ASSUME NEW s \in Sinks PROVE FlowInv(s)' /\ DeliveryInv(s)' /\ FlushInv(s)'
  BY <1>0, FlowStep, DeliveryStep, FlushStep
<1>6. FlushBarrier'
  BY <1>0, BarrierStep
<1> QED
  BY <1>1, <1>2, <1>3, <1>4, <1>5, <1>6 DEF ReactorInv

\* TypeOK is part of ReactorInv.
LEMMA ReactorTypes == ReactorInv => TypeOK
<1> SUFFICES ASSUME ReactorInv PROVE TypeOK
  OBVIOUS
<1>1. /\ client \in {"idle", "calling", "gone", "closed"}
      /\ call.id \in 0..MaxCalls
      /\ call.answer \in {"none", "ok", "err"}
      /\ acked \subseteq Inserts
      /\ at \in {"select", "drain", "flush", "join", "deliver", "event"} \cup Errors
  BY DEF ReactorInv, CallInv, Places
<1>2. pending \subseteq AllInputs /\ base \subseteq AllInputs
  BY DEF ReactorInv, InputsInv
<1>3. Registered \subseteq Sinks /\ Cardinality(Registered) = Len(registered)
  <2>1. registered \in Seq(Sinks) /\ NoRepeats(registered)
    BY DEF ReactorInv, RegisteredInv
  <2>2. Registered \subseteq Sinks
    BY <2>1 DEF Registered, ToSet
  <2>3. Cardinality(ToSet(registered)) = Len(registered)
    BY <2>1, ToSetFinite
  <2> QED
    BY <2>2, <2>3 DEF Registered
<1>4. events \in Nat \cup {None}
  BY DEF ReactorInv, ChannelsInv, EventsInv
<1>5. ASSUME NEW s \in Sinks
      PROVE  /\ ToSet(sink[s].channel) \subseteq Wants[s] \cup {Flush}
             /\ sink[s].hand \in Wants[s] \cup {None}
             /\ ToSet(sink[s].log) \subseteq Wants[s]
             /\ sink[s].since \in 0..Len(emitted)
  <2>1. FlowInv(s)
    BY <1>5 DEF ReactorInv
  <2>2. sink[s].channel \in Seq(Wants[s] \cup {Flush}) /\ sink[s].log \in Seq(Wants[s])
    BY <2>1 DEF FlowInv
  <2>3. ASSUME NEW S, NEW q \in Seq(S) PROVE ToSet(q) \subseteq S
    BY DEF ToSet
  <2>4. sink[s].hand \in Wants[s] \cup {None} /\ sink[s].since \in 0..Len(emitted)
    BY <2>1 DEF FlowInv
  <2> QED
    BY <2>2, <2>3, <2>4, Zenon
<1> QED
  BY <1>1, <1>2, <1>3, <1>4, <1>5 DEF TypeOK

\* In every reachable state the client, the reactor and the sinks are of their
\* types, whatever the program, the buffers and the number of sinks, streams and
\* calls: no sink is registered twice, and a channel only carries its relation.
THEOREM ReactorTyped == Spec => []TypeOK
BY InitReactor, ReactorKeeps, ReactorTypes, PTL DEF Spec

\* Every sink is given the facts of its relation that were emitted since it was
\* registered, in order and each as often as it was emitted, for all programs,
\* buffers and schedules (reactor.rs: the loop over vm.pop and create_sink).
THEOREM SinksGetAll == Spec => []SinkGetsAll
<1>1. ReactorInv => SinkGetsAll
  BY AllGiven DEF ReactorInv
<1> QED
  BY InitReactor, ReactorKeeps, <1>1, PTL DEF Spec

\* When a flush returns Ok, each sink has accepted what was derived when it was
\* called (reactor.rs, ClientCommand::Flush).
THEOREM FlushIsBarrier == Spec => []FlushBarrier
<1>1. ReactorInv => FlushBarrier
  BY DEF ReactorInv
<1> QED
  BY InitReactor, ReactorKeeps, <1>1, PTL DEF Spec

\* The reactor ends only because a sink failed, a listener left or a call was
\* dropped (reactor.rs, the errors of async_run).
THEOREM EndsOfPeers == Spec => []DiesOfPeers
<1>1. ReactorInv => DiesOfPeers
  BY DEF ReactorInv, DiesOfPeers, PeersInv, PatientInv
<1> QED
  BY InitReactor, ReactorKeeps, <1>1, PTL DEF Spec

\* If client and reactor share a thread, and more facts never mean fewer
\* conclusions (a program without negation), a flush that returns Ok has
\* delivered what follows from every insert that returned before it was called,
\* as examples/cid.rs expects.  On two threads it need not: see the run
\* reactor_flush.
THEOREM FlushCovers ==
  ASSUME SingleThread, Monotone
  PROVE  Spec => []FlushCoversInserts
<1>1. Init => ThreadInv
  <2>1. Init => /\ acked = {} /\ call = NoCall /\ client = "idle" /\ registered = <<>>
    BY DEF Init
  <2> QED
    BY <2>1 DEF ThreadInv, NoCall
<1>2. ReactorInv /\ ThreadInv /\ [Next]_vars => ThreadInv'
  <2> SUFFICES ASSUME ReactorInv, ThreadInv, [Next]_vars PROVE ThreadInv'
    OBVIOUS
  <2>1. ReactorInv'
    BY ReactorKeeps
  <2> QED
    BY <2>1, ThreadStep DEF ReactorInv, ChannelsInv
<1>3. ReactorInv /\ ThreadInv => FlushCoversInserts
  <2> SUFFICES ASSUME ReactorInv, ThreadInv,
                      client = "calling", call.op = "flush", call.answer = "ok",
                      NEW s \in Registered
               PROVE  (Model(call.acked) \cap Wants[s]) \ EmittedBefore(s)
                        \subseteq ToSet(sink[s].log)
    BY DEF FlushCoversInserts
  <2>1. registered # <<>>
    BY ToSetEmpty DEF Registered
  <2>2. Model(call.acked) \subseteq call.derived
    BY <2>1 DEF ThreadInv
  <2>3. (call.derived \cap Wants[s]) \ EmittedBefore(s) \subseteq ToSet(sink[s].log)
    BY DEF ReactorInv, FlushBarrier
  <2> QED
    BY <2>2, <2>3
<1> QED
  BY InitReactor, ReactorKeeps, <1>1, <1>2, <1>3, PTL DEF Spec
=============================================================================
