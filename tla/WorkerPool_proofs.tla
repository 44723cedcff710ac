-------------------------- MODULE WorkerPool_proofs --------------------------
(***************************************************************************)
(* CountsAreTasks and Balanced for any number of workers, spawners and      *)
(* tasks.                                                                   *)
(*                                                                         *)
(* CountsAreTasks by itself is not inductive: a worker's count stays that   *)
(* of its tasks when a job starts only if the job does not run there        *)
(* already, so a task must be in one place at a time (OnePlace).  Balanced  *)
(* needs to know what the spawners have seen: SpreadInv.                    *)
(***************************************************************************)
EXTENDS WorkerPool, FiniteSetTheorems, TLAPS

Spawning ==
  [at : {"scan", "post"}, task : Tasks, next : Nat \ {0}, best : Workers, least : Int]

PoolType ==
  /\ count \in [Workers -> Int]
  /\ spawner \in [Spawners -> {Idle} \cup Spawning]
  /\ unborn \subseteq Tasks
  /\ queue \in [Workers -> Seq(Tasks)]
  /\ running \in [Workers -> SUBSET Tasks]

Holds(s) == spawner[s].at # "idle"

\* A task is unborn, with one spawner, once in one queue, or running.
OnePlace ==
  /\ \A w \in Workers : running[w] \cap unborn = {}
  /\ \A w \in Workers : \A i \in 1..Len(queue[w]) :
       queue[w][i] \notin unborn \cup running[w]
  /\ \A w \in Workers : \A i, j \in 1..Len(queue[w]) :
       queue[w][i] = queue[w][j] => i = j
  /\ \A s \in Spawners : Holds(s) =>
       /\ spawner[s].task \notin unborn
       /\ \A w \in Workers :
            /\ spawner[s].task \notin running[w]
            /\ \A i \in 1..Len(queue[w]) : queue[w][i] # spawner[s].task
  /\ \A r, s \in Spawners :
       Holds(r) /\ Holds(s) /\ spawner[r].task = spawner[s].task => r = s

\* CountsAreTasks counts what is finite.
FiniteParts ==
  \A w \in Workers : IsFiniteSet(running[w]) /\ IsFiniteSet(Enrolled(w))

PoolInv == PoolType /\ OnePlace /\ FiniteParts /\ CountsAreTasks

USE NAssumption DEF Workers

-----------------------------------------------------------------------------
(* Types.                                                                   *)

\* The next position of the scan for the least loaded worker.
LEMMA Scanned ==
  ASSUME NEW r \in Spawning, NEW n \in Nat \ {0}, NEW w \in Workers, NEW c \in Int
  PROVE  /\ [r EXCEPT !.next = n] \in Spawning
         /\ [r EXCEPT !.next = n, !.best = w, !.least = c] \in Spawning
<1>1. \A x \in Spawning :
        /\ [x EXCEPT !.next = n] \in Spawning
        /\ [x EXCEPT !.best = w] \in Spawning
        /\ [x EXCEPT !.least = c] \in Spawning
  BY DEF Spawning
<1> QED
  BY <1>1

\* Every step keeps the types.
LEMMA TypeStep ==
  ASSUME PoolType, [Next]_vars
  PROVE  PoolType'
<1> USE DEF PoolType
<1>1. ASSUME NEW s \in Spawners, NEW t \in Pinned, Begin(s, t)
      PROVE  PoolType'
  BY <1>1 DEF Begin, Spawning, Tasks
<1>2. ASSUME NEW s \in Spawners, Scan(s)
      PROVE  PoolType'
  <2>1. spawner[s] \in Spawning
    BY <1>2 DEF Scan, Idle
  <2>2. spawner[s].next \in Workers
    BY <1>2, <2>1 DEF Scan, Found, Spawning
  <2> DEFINE w == spawner[s].next
             passed == [spawner[s] EXCEPT !.next = w + 1]
             chosen == [spawner[s] EXCEPT !.next = w + 1, !.best = w, !.least = count[w]]
  <2>3. spawner'[s] \in {passed, chosen}
    BY <1>2 DEF Scan
  <2>4. count[w] \in Int
    BY <2>2
  <2>5. passed \in Spawning /\ chosen \in Spawning
    <3>1. w + 1 \in Nat \ {0}
      BY <2>2
    <3> QED
      BY <2>1, <2>2, <2>4, <3>1, Scanned
  <2> HIDE DEF passed, chosen
  <2> QED
    BY <1>2, <2>3, <2>5 DEF Scan
<1>3. ASSUME NEW s \in Spawners, Enroll(s)
      PROVE  PoolType'
  <2>1. spawner[s] \in Spawning
    BY <1>3 DEF Enroll, Idle
  <2>2. spawner'[s] \in Spawning
    BY <1>3, <2>1 DEF Enroll, Spawning
  <2> QED
    BY SMTT(40), <1>3, <2>1, <2>2 DEF Enroll, Spawning
<1>4. ASSUME NEW s \in Spawners, Post(s)
      PROVE  PoolType'
  <2>1. spawner[s] \in Spawning
    BY <1>4 DEF Post, Idle
  <2> QED
    BY <1>4, <2>1 DEF Post, Spawning
<1>5. ASSUME NEW w \in Workers, Start(w)
      PROVE  PoolType'
  BY <1>5 DEF Start
<1>6. ASSUME NEW w \in Workers, NEW t \in Nested, SpawnLocal(w, t)
      PROVE  PoolType'
  BY <1>6 DEF SpawnLocal, Tasks
<1>7. ASSUME NEW w \in Workers, NEW t \in Tasks, Finish(w, t)
      PROVE  PoolType'
  BY <1>7 DEF Finish
<1>8. CASE UNCHANGED vars
  BY <1>8 DEF vars
<1> QED
  BY <1>1, <1>2, <1>3, <1>4, <1>5, <1>6, <1>7, <1>8 DEF Next

-----------------------------------------------------------------------------
(* A task is in one place.                                                  *)

\* The places of a sequence after an append.
LEMMA Appended ==
  ASSUME NEW S, NEW q \in Seq(S), NEW e \in S,
         NEW i \in 1..Len(Append(q, e))
  PROVE  \/ i \in 1..Len(q) /\ Append(q, e)[i] = q[i]
         \/ i = Len(q) + 1 /\ Append(q, e)[i] = e
OBVIOUS

\* The places of a sequence after its head is taken.
LEMMA Shifted ==
  ASSUME NEW S, NEW q \in Seq(S), q # <<>>
  PROVE  /\ 1 \in 1..Len(q) /\ Head(q) = q[1]
         /\ \A i \in 1..Len(Tail(q)) :
              i + 1 \in 1..Len(q) /\ Tail(q)[i] = q[i + 1] /\ i + 1 # 1
OBVIOUS

\* Every step keeps each task in one place.
LEMMA OnePlaceStep ==
  ASSUME PoolType, OnePlace, [Next]_vars
  PROVE  OnePlace'
<1> USE DEF PoolType, OnePlace, Holds
<1>1. ASSUME NEW s \in Spawners, NEW t \in Pinned, Begin(s, t)
      PROVE  OnePlace'
  BY <1>1 DEF Begin
<1>2. ASSUME NEW s \in Spawners, Scan(s)
      PROVE  OnePlace'
  <2>1. spawner[s] \in Spawning
    BY <1>2 DEF Scan, Idle
  <2>2. spawner'[s].task = spawner[s].task
    BY <1>2, <2>1 DEF Scan, Spawning
  <2>3. \A r \in Spawners \ {s} : spawner'[r] = spawner[r]
    BY <1>2 DEF Scan
  <2> QED
    BY <1>2, <2>1, <2>2, <2>3 DEF Scan
<1>3. ASSUME NEW s \in Spawners, Enroll(s)
      PROVE  OnePlace'
  <2>1. spawner[s] \in Spawning
    BY <1>3 DEF Enroll, Idle
  <2>2. spawner'[s].task = spawner[s].task
    BY <1>3, <2>1 DEF Enroll, Spawning
  <2>3. \A r \in Spawners \ {s} : spawner'[r] = spawner[r]
    BY <1>3 DEF Enroll
  <2> QED
    BY <1>3, <2>1, <2>2, <2>3 DEF Enroll
<1>4. ASSUME NEW s \in Spawners, Post(s)
      PROVE  OnePlace'
  <2>1. spawner[s] \in Spawning
    BY <1>4 DEF Post, Idle
  <2>2. \A r \in Spawners \ {s} : spawner'[r] = spawner[r]
    BY <1>4 DEF Post
  <2>3. ~ Holds(s)'
    BY <1>4 DEF Post, Idle
  <2> DEFINE t == spawner[s].task
  <2>4. /\ t \in Tasks /\ Holds(s) /\ unborn' = unborn /\ running' = running
        /\ queue' = [queue EXCEPT ![spawner[s].best] = Append(@, t)]
    BY <1>4, <2>1 DEF Post, Spawning
  <2>5. \A w \in Workers : \A i \in 1..Len(queue'[w]) :
          \/ i \in 1..Len(queue[w]) /\ queue'[w][i] = queue[w][i]
          \/ i = Len(queue[w]) + 1 /\ queue'[w][i] = t
    <3> TAKE w \in Workers
    <3>1. CASE queue'[w] = queue[w]
      BY <3>1
    <3>2. CASE queue'[w] = Append(queue[w], t)
      BY SMTT(40), <2>4, <3>2, Appended
    <3> QED
      BY <2>4, <3>1, <3>2
  <2>6. /\ t \notin unborn
        /\ \A w \in Workers :
             t \notin running[w] /\ \A i \in 1..Len(queue[w]) : queue[w][i] # t
    BY <2>4
  <2>7. \A r \in Spawners : Holds(r)' =>
          r # s /\ Holds(r) /\ spawner'[r].task = spawner[r].task /\ spawner[r].task # t
    BY <2>2, <2>3, <2>4
  <2> HIDE DEF t, PoolType
  <2>8. \A w \in Workers : \A i \in 1..Len(queue'[w]) :
          queue'[w][i] \notin unborn' \cup running'[w]
    BY <2>4, <2>5, <2>6
  <2>9. \A w \in Workers : \A i, j \in 1..Len(queue'[w]) :
          queue'[w][i] = queue'[w][j] => i = j
    <3> TAKE w \in Workers
    <3> TAKE i, j \in 1..Len(queue'[w])
    <3>1. CASE i \in 1..Len(queue[w]) /\ queue'[w][i] = queue[w][i]
      BY <2>5, <2>6, <3>1
    <3>2. CASE i = Len(queue[w]) + 1 /\ queue'[w][i] = t
      BY <2>5, <2>6, <3>2
    <3> QED
      BY <2>5, <3>1, <3>2
  <2>10. \A r \in Spawners : Holds(r)' =>
           /\ spawner'[r].task \notin unborn'
           /\ \A w \in Workers :
                /\ spawner'[r].task \notin running'[w]
                /\ \A i \in 1..Len(queue'[w]) : queue'[w][i] # spawner'[r].task
    BY <2>4, <2>5, <2>7
  <2> QED
    BY <2>4, <2>7, <2>8, <2>9, <2>10
<1>5. ASSUME NEW w \in Workers, Start(w)
      PROVE  OnePlace'
  <2> DEFINE t == Head(queue[w])
  <2>1. /\ queue[w] \in Seq(Tasks) /\ queue[w] # <<>>
        /\ queue'[w] = Tail(queue[w]) /\ running'[w] = running[w] \cup {t}
        /\ \A v \in Workers \ {w} : queue'[v] = queue[v] /\ running'[v] = running[v]
        /\ unborn' = unborn /\ spawner' = spawner
    BY <1>5 DEF Start
  <2>2. 1 \in 1..Len(queue[w]) /\ t = queue[w][1]
    BY <2>1, Shifted
  <2>3. \A i \in 1..Len(queue'[w]) :
          i + 1 \in 1..Len(queue[w]) /\ queue'[w][i] = queue[w][i + 1] /\ i + 1 # 1
    BY <2>1, Shifted
  <2> HIDE DEF t, PoolType
  <2>4. \A i \in 1..Len(queue'[w]) : queue'[w][i] # t
    BY <2>2, <2>3
  <2>5. \A v \in Workers : \A i \in 1..Len(queue'[v]) :
          queue'[v][i] \notin unborn' \cup running'[v]
    <3> TAKE v \in Workers
    <3>1. CASE v = w
      <4>1. \A i \in 1..Len(queue'[w]) : queue'[w][i] \notin unborn \cup running[w]
        BY <2>3
      <4> QED
        BY <2>1, <2>4, <3>1, <4>1
    <3>2. CASE v # w
      BY <2>1, <3>2
    <3> QED
      BY <3>1, <3>2
  <2>6. \A v \in Workers : \A i, j \in 1..Len(queue'[v]) :
          queue'[v][i] = queue'[v][j] => i = j
    <3> TAKE v \in Workers
    <3>1. CASE v = w
      <4>1. ASSUME NEW i \in 1..Len(queue'[w]), NEW j \in 1..Len(queue'[w]),
                   queue'[w][i] = queue'[w][j]
            PROVE  i = j
        <5>1. i + 1 = j + 1
          BY <2>3, <4>1
        <5> QED
          BY <5>1
      <4> QED
        BY <3>1, <4>1
    <3>2. CASE v # w
      BY <2>1, <3>2
    <3> QED
      BY <3>1, <3>2
  <2>7. \A s \in Spawners : Holds(s)' => \A v \in Workers :
          /\ spawner'[s].task \notin running'[v]
          /\ \A i \in 1..Len(queue'[v]) : queue'[v][i] # spawner'[s].task
    <3> TAKE s \in Spawners
    <3> HAVE Holds(s)'
    <3>1. Holds(s) /\ spawner'[s].task = spawner[s].task
      BY <2>1
    <3> TAKE v \in Workers
    <3>2. CASE v = w
      <4>1. \A i \in 1..Len(queue[w]) : queue[w][i] # spawner[s].task
        BY <3>1
      <4>2. t # spawner[s].task
        BY <2>2, <4>1
      <4>3. \A i \in 1..Len(queue'[w]) : queue'[w][i] # spawner[s].task
        BY <2>3, <4>1
      <4> QED
        BY <2>1, <3>1, <3>2, <4>2, <4>3
    <3>3. CASE v # w
      BY <2>1, <3>1, <3>3
    <3> QED
      BY <3>2, <3>3
  <2>8. \A v \in Workers : running'[v] \cap unborn' = {}
    <3>1. t \notin unborn
      BY <2>2
    <3> QED
      BY <2>1, <3>1
  <2> QED
    BY <2>1, <2>5, <2>6, <2>7, <2>8
<1>6. ASSUME NEW w \in Workers, NEW t \in Nested, SpawnLocal(w, t)
      PROVE  OnePlace'
  BY <1>6 DEF SpawnLocal
<1>7. ASSUME NEW w \in Workers, NEW t \in Tasks, Finish(w, t)
      PROVE  OnePlace'
  BY <1>7 DEF Finish
<1>8. CASE UNCHANGED vars
  BY <1>8 DEF vars
<1> QED
  BY <1>1, <1>2, <1>3, <1>4, <1>5, <1>6, <1>7, <1>8 DEF Next

-----------------------------------------------------------------------------
(* The counts.                                                              *)

\* What an action does to the parts of a worker's count.
Unchanged(w) ==
  /\ count'[w] = count[w]
  /\ running'[w] = running[w]
  /\ queue'[w] = queue[w]
  /\ Enrolled(w)' = Enrolled(w)

Counted(w) ==
  /\ IsFiniteSet(running[w]) /\ IsFiniteSet(Enrolled(w))
  /\ count[w] = Cardinality(running[w]) + Len(queue[w]) + Cardinality(Enrolled(w))

\* A step that is not about a worker keeps its count right.
LEMMA UnchangedIsCounted ==
  ASSUME NEW w, Counted(w), Unchanged(w)
  PROVE  Counted(w)'
BY DEF Counted, Unchanged

\* Only Enroll and Post change who is enrolled.
LEMMA SameEnrolled ==
  ASSUME NEW w,
         \A s \in Spawners :
           (spawner'[s].at = "post" /\ spawner'[s].best = w) <=>
           (spawner[s].at = "post" /\ spawner[s].best = w)
  PROVE  Enrolled(w)' = Enrolled(w)
BY DEF Enrolled

\* Every step keeps the counts right.
LEMMA CountStep ==
  ASSUME PoolType, OnePlace, [Next]_vars, NEW w \in Workers, Counted(w)
  PROVE  Counted(w)'
<1> USE DEF PoolType
<1>0. /\ Cardinality(running[w]) \in Nat
      /\ Cardinality(Enrolled(w)) \in Nat
      /\ Len(queue[w]) \in Nat
  BY FS_CardinalityType DEF Counted
<1>1. ASSUME NEW s \in Spawners, NEW t \in Pinned, Begin(s, t)
      PROVE  Counted(w)'
  <2>1. Enrolled(w)' = Enrolled(w)
    BY <1>1, SameEnrolled DEF Begin
  <2> QED
    BY <1>1, <2>1, UnchangedIsCounted DEF Begin, Unchanged
<1>2. ASSUME NEW s \in Spawners, Scan(s)
      PROVE  Counted(w)'
  <2>1. spawner[s] \in Spawning
    BY <1>2 DEF Scan, Idle
  <2>2. spawner'[s].at = "scan"
    BY <1>2, <2>1 DEF Scan, Spawning
  <2>3. \A r \in Spawners \ {s} : spawner'[r] = spawner[r]
    BY <1>2 DEF Scan
  <2>4. Enrolled(w)' = Enrolled(w)
    BY <1>2, <2>2, <2>3, SameEnrolled DEF Scan
  <2> QED
    BY <1>2, <2>4, UnchangedIsCounted DEF Scan, Unchanged
<1>3. ASSUME NEW s \in Spawners, Enroll(s)
      PROVE  Counted(w)'
  <2>1. spawner[s] \in Spawning
    BY <1>3 DEF Enroll, Idle
  <2>2. /\ spawner[s].at = "scan" /\ spawner'[s].at = "post"
        /\ spawner'[s].best = spawner[s].best
    BY <1>3, <2>1 DEF Enroll, Spawning
  <2>3. \A r \in Spawners \ {s} : spawner'[r] = spawner[r]
    BY <1>3 DEF Enroll
  <2>4. CASE spawner[s].best = w
    <3>1. s \notin Enrolled(w) /\ Enrolled(w)' = Enrolled(w) \cup {s}
      BY <2>2, <2>3, <2>4 DEF Enrolled
    <3>2. /\ IsFiniteSet(Enrolled(w)')
          /\ Cardinality(Enrolled(w)') = Cardinality(Enrolled(w)) + 1
      BY <3>1, FS_AddElement DEF Counted
    <3>3. count'[w] = count[w] + 1 /\ running'[w] = running[w] /\ queue'[w] = queue[w]
      BY <1>3, <2>4 DEF Enroll
    <3> QED
      BY <1>0, <3>2, <3>3 DEF Counted
  <2>5. CASE spawner[s].best # w
    <3>1. Enrolled(w)' = Enrolled(w)
      BY <2>2, <2>3, <2>5, SameEnrolled
    <3> QED
      BY <1>3, <2>5, <3>1, UnchangedIsCounted DEF Enroll, Unchanged
  <2> QED
    BY <2>4, <2>5
<1>4. ASSUME NEW s \in Spawners, Post(s)
      PROVE  Counted(w)'
  <2>1. spawner[s] \in Spawning /\ spawner[s].at = "post"
    BY <1>4 DEF Post, Idle
  <2>2. spawner'[s].at = "idle"
    BY <1>4 DEF Post, Idle
  <2>3. \A r \in Spawners \ {s} : spawner'[r] = spawner[r]
    BY <1>4 DEF Post
  <2>4. CASE spawner[s].best = w
    <3>1. s \in Enrolled(w) /\ Enrolled(w)' = Enrolled(w) \ {s}
      BY <2>1, <2>2, <2>3, <2>4 DEF Enrolled
    <3>2. /\ IsFiniteSet(Enrolled(w)')
          /\ Cardinality(Enrolled(w)') = Cardinality(Enrolled(w)) - 1
      BY <3>1, FS_RemoveElement DEF Counted
    <3>3. Len(queue'[w]) = Len(queue[w]) + 1
      BY <1>4, <2>1, <2>4 DEF Post, Spawning
    <3>4. count'[w] = count[w] /\ running'[w] = running[w]
      BY <1>4 DEF Post
    <3> QED
      BY <1>0, <3>2, <3>3, <3>4 DEF Counted
  <2>5. CASE spawner[s].best # w
    <3>1. Enrolled(w)' = Enrolled(w)
      BY <2>2, <2>3, <2>5, SameEnrolled
    <3> QED
      BY <1>4, <2>5, <3>1, UnchangedIsCounted DEF Post, Unchanged
  <2> QED
    BY <2>4, <2>5
<1>5. ASSUME NEW v \in Workers, Start(v)
      PROVE  Counted(w)'
  <2>1. Enrolled(w)' = Enrolled(w)
    BY <1>5 DEF Start, Enrolled
  <2>2. CASE v = w
    <3> DEFINE t == Head(queue[w])
    <3>1. /\ queue[w] \in Seq(Tasks) /\ queue[w] # <<>>
          /\ queue'[w] = Tail(queue[w]) /\ running'[w] = running[w] \cup {t}
          /\ count'[w] = count[w]
      BY <1>5, <2>2 DEF Start
    <3>2. t \notin running[w]
      BY <3>1, Shifted DEF OnePlace
    <3>3. /\ IsFiniteSet(running'[w])
          /\ Cardinality(running'[w]) = Cardinality(running[w]) + 1
      <4> HIDE DEF PoolType
      <4>1. IsFiniteSet(running[w])
        BY DEF Counted
      <4>2. /\ IsFiniteSet(running[w] \cup {t})
            /\ Cardinality(running[w] \cup {t}) = Cardinality(running[w]) + 1
        BY <3>2, <4>1, FS_AddElement
      <4> QED
        BY <3>1, <4>2
    <3>4. Len(queue'[w]) = Len(queue[w]) - 1
      BY <3>1
    <3> QED
      BY <1>0, <2>1, <3>1, <3>3, <3>4 DEF Counted
  <2>3. CASE v # w
    BY <1>5, <2>1, <2>3, UnchangedIsCounted DEF Start, Unchanged
  <2> QED
    BY <2>2, <2>3
<1>6. ASSUME NEW v \in Workers, NEW t \in Nested, SpawnLocal(v, t)
      PROVE  Counted(w)'
  <2>1. Enrolled(w)' = Enrolled(w)
    BY <1>6 DEF SpawnLocal, Enrolled
  <2>2. CASE v = w
    <3>1. /\ running'[w] = running[w] \cup {t}
          /\ count'[w] = count[w] + 1 /\ queue'[w] = queue[w]
      BY <1>6, <2>2 DEF SpawnLocal
    <3>2. t \notin running[w]
      BY <1>6, <2>2 DEF SpawnLocal, OnePlace
    <3>3. /\ IsFiniteSet(running'[w])
          /\ Cardinality(running'[w]) = Cardinality(running[w]) + 1
      <4> HIDE DEF PoolType
      <4>1. IsFiniteSet(running[w])
        BY DEF Counted
      <4>2. /\ IsFiniteSet(running[w] \cup {t})
            /\ Cardinality(running[w] \cup {t}) = Cardinality(running[w]) + 1
        BY <3>2, <4>1, FS_AddElement
      <4> QED
        BY <3>1, <4>2
    <3> QED
      BY <1>0, <2>1, <3>1, <3>3 DEF Counted
  <2>3. CASE v # w
    BY <1>6, <2>1, <2>3, UnchangedIsCounted DEF SpawnLocal, Unchanged
  <2> QED
    BY <2>2, <2>3
<1>7. ASSUME NEW v \in Workers, NEW t \in Tasks, Finish(v, t)
      PROVE  Counted(w)'
  <2>1. Enrolled(w)' = Enrolled(w)
    BY <1>7 DEF Finish, Enrolled
  <2>2. CASE v = w
    <3>1. /\ running'[w] = running[w] \ {t} /\ t \in running[w]
          /\ count'[w] = count[w] - 1 /\ queue'[w] = queue[w]
      BY <1>7, <2>2 DEF Finish
    <3>2. /\ IsFiniteSet(running'[w])
          /\ Cardinality(running'[w]) = Cardinality(running[w]) - 1
      <4> HIDE DEF PoolType
      <4>1. IsFiniteSet(running[w])
        BY DEF Counted
      <4>2. /\ IsFiniteSet(running[w] \ {t})
            /\ Cardinality(running[w] \ {t}) = Cardinality(running[w]) - 1
        BY <3>1, <4>1, FS_RemoveElement
      <4> QED
        BY <3>1, <4>2
    <3> QED
      BY <1>0, <2>1, <3>1, <3>2 DEF Counted
  <2>3. CASE v # w
    BY <1>7, <2>1, <2>3, UnchangedIsCounted DEF Finish, Unchanged
  <2> QED
    BY <2>2, <2>3
<1>8. CASE UNCHANGED vars
  BY <1>8, UnchangedIsCounted DEF vars, Unchanged, Enrolled
<1> QED
  BY <1>1, <1>2, <1>3, <1>4, <1>5, <1>6, <1>7, <1>8 DEF Next

-----------------------------------------------------------------------------
\* The pool starts in the invariant ...
LEMMA InitPool == Init => PoolInv
<1> SUFFICES ASSUME Init PROVE PoolInv
  OBVIOUS
<1>1. PoolType
  BY DEF Init, PoolType, Tasks
<1>2. OnePlace
  BY DEF Init, OnePlace, Holds, Idle
<1>3. \A w \in Workers : Enrolled(w) = {} /\ running[w] = {} /\ queue[w] = <<>> /\ count[w] = 0
  BY DEF Init, Enrolled, Idle
<1>4. FiniteParts /\ CountsAreTasks
  <2>1. \A w \in Workers :
          /\ Cardinality(running[w]) = 0 /\ IsFiniteSet(running[w])
          /\ Cardinality(Enrolled(w)) = 0 /\ IsFiniteSet(Enrolled(w))
    BY <1>3, FS_EmptySet
  <2>2. \A w \in Workers : Len(queue[w]) = 0 /\ count[w] = 0
    BY <1>3
  <2> QED
    BY <2>1, <2>2 DEF FiniteParts, CountsAreTasks
<1> QED
  BY <1>1, <1>2, <1>4 DEF PoolInv

\* ... and every step keeps it.
LEMMA StepPool == PoolInv /\ [Next]_vars => PoolInv'
<1> SUFFICES ASSUME PoolInv, [Next]_vars PROVE PoolInv'
  OBVIOUS
<1>1. PoolType' /\ OnePlace'
  BY TypeStep, OnePlaceStep DEF PoolInv
<1>2. \A w \in Workers : Counted(w)
  BY DEF PoolInv, FiniteParts, CountsAreTasks, Counted
<1>3. \A w \in Workers : Counted(w)'
  BY <1>2, CountStep DEF PoolInv
<1>4. FiniteParts' /\ CountsAreTasks'
  BY <1>3 DEF FiniteParts, CountsAreTasks, Counted
<1> QED
  BY <1>1, <1>4 DEF PoolInv

\* However spawns, starts and ends of tasks interleave, a worker's task count is
\* the number of tasks it has, was sent, or is about to be sent: no guard is lost
\* or dropped twice, so find_least_busy_local_worker never sees a leaked task.
THEOREM CountsAreExact == Spec => []CountsAreTasks
<1>1. PoolInv => CountsAreTasks
  BY DEF PoolInv
<1> QED
  BY InitPool, StepPool, <1>1, PTL DEF Spec

-----------------------------------------------------------------------------
(* The spread of the tasks.  Once the least busy worker has k tasks, only a *)
(* spawner whose choice was made when its worker had at most k can still    *)
(* raise a worker beyond k + 1, and each spawner has one such choice.       *)

Quiet == done = {} /\ Nested \subseteq unborn

\* What a spawner found least is still no more than any count it has read.
LeastRead ==
  \A s \in Spawners : spawner[s].at = "scan" =>
    /\ spawner[s].least >= 0
    /\ \A w \in Workers : w < spawner[s].next => spawner[s].least <= count[w]

\* The spawners that may add to v, having read a count of at most k from it.
Stale(v, k) ==
  {s \in Spawners : spawner[s].at = "scan" /\ spawner[s].best = v /\ spawner[s].least <= k}

Spread ==
  \A v, w \in Workers, k \in Nat :
    count[w] <= k /\ count[v] > k =>
      count[v] + Cardinality(Stale(v, k)) <= k + Cardinality(Spawners)

SpreadInv == Quiet => LeastRead /\ Spread

\* The spawners that read a count too early are finitely many.
LEMMA StaleIsFinite ==
  ASSUME NEW v, NEW k
  PROVE  /\ IsFiniteSet(Stale(v, k)) /\ Cardinality(Stale(v, k)) \in Nat
         /\ Cardinality(Spawners) \in Nat
         /\ Cardinality(Stale(v, k)) <= Cardinality(Spawners)
<1>1. Stale(v, k) \subseteq Spawners
  BY DEF Stale
<1> QED
  BY <1>1, SpawnersAssumption, FS_Subset, FS_CardinalityType

\* A step that counts nothing, and after which no spawner may add to a worker
\* beyond k that could not before.
LEMMA SpreadKept ==
  ASSUME PoolType, Spread, count' = count,
         \A v \in Workers, k \in Nat : count[v] > k => Stale(v, k)' \subseteq Stale(v, k)
  PROVE  Spread'
<1> SUFFICES ASSUME NEW v \in Workers, NEW w \in Workers, NEW k \in Nat,
                    count[w] <= k, count[v] > k
             PROVE  count[v] + Cardinality(Stale(v, k)') <= k + Cardinality(Spawners)
  BY DEF Spread
<1>1. IsFiniteSet(Stale(v, k)) /\ Cardinality(Stale(v, k)) \in Nat /\ Cardinality(Spawners) \in Nat
  BY StaleIsFinite
<1>2. Cardinality(Stale(v, k)') <= Cardinality(Stale(v, k)) /\ Cardinality(Stale(v, k)') \in Nat
  BY <1>1, FS_Subset, FS_CardinalityType
<1>3. count[v] + Cardinality(Stale(v, k)) <= k + Cardinality(Spawners)
  BY DEF Spread
<1>4. count[v] \in Int
  BY DEF PoolType
<1> QED
  BY <1>1, <1>2, <1>3, <1>4

\* The choice of a spawner that is done scanning is no more than any count.
LEMMA FoundIsLeast ==
  ASSUME PoolType, LeastRead, \A w \in Workers : count[w] >= 0,
         NEW s \in Spawners, spawner[s] \in Spawning, spawner[s].at = "scan", Found(s)
  PROVE  \A w \in Workers : spawner[s].least <= count[w]
<1> TAKE w \in Workers
<1>1. CASE spawner[s].least = 0
  BY <1>1
<1>2. CASE spawner[s].next > N
  <2>1. w < spawner[s].next
    BY <1>2 DEF Spawning
  <2> QED
    BY <2>1 DEF LeastRead
<1> QED
  BY <1>1, <1>2 DEF Found

\* Every step keeps the tasks spread.
LEMMA SpreadStep ==
  ASSUME PoolType, \A w \in Workers : count[w] >= 0, SpreadInv, [Next]_vars
  PROVE  SpreadInv'
<1> SUFFICES ASSUME Quiet' PROVE LeastRead' /\ Spread'
  BY DEF SpreadInv
<1>1. ASSUME NEW s \in Spawners, NEW t \in Pinned, Begin(s, t)
      PROVE  LeastRead' /\ Spread'
  <2>1. /\ spawner'[s] = [at |-> "scan", task |-> t, next |-> 2, best |-> 1, least |-> count[1]]
        /\ \A r \in Spawners \ {s} : spawner'[r] = spawner[r]
        /\ count' = count
    BY <1>1 DEF Begin, PoolType
  <2>2. LeastRead /\ Spread
    BY <1>1 DEF Begin, Quiet, SpreadInv
  <2>3. LeastRead'
    <3>1. count[1] >= 0 /\ \A w \in Workers : w < 2 => count[1] <= count[w]
      BY DEF PoolType
    <3> QED
      BY <2>1, <2>2, <3>1 DEF LeastRead
  <2>4. \A v \in Workers, k \in Nat : count[v] > k => Stale(v, k)' \subseteq Stale(v, k)
    <3> TAKE v \in Workers, k \in Nat
    <3> HAVE count[v] > k
    <3>1. spawner'[s].best = 1 /\ spawner'[s].least = count[1] /\ count[v] \in Int
      BY <2>1 DEF PoolType
    <3>2. s \notin Stale(v, k)'
      BY <3>1 DEF Stale
    <3> QED
      BY <2>1, <3>2 DEF Stale
  <2> QED
    BY <2>1, <2>2, <2>3, <2>4, SpreadKept
<1>2. ASSUME NEW s \in Spawners, Scan(s)
      PROVE  LeastRead' /\ Spread'
  <2> DEFINE w == spawner[s].next
  <2>1. spawner[s] \in Spawning /\ spawner[s].at = "scan"
    BY <1>2 DEF Scan, PoolType, Idle
  <2>2. w \in Workers
    BY <1>2, <2>1 DEF Scan, Found, Spawning
  <2>3. \/ /\ ~ (count[w] < spawner[s].least)
           /\ spawner'[s] = [spawner[s] EXCEPT !.next = w + 1]
        \/ /\ count[w] < spawner[s].least
           /\ spawner'[s] = [spawner[s] EXCEPT !.next = w + 1, !.best = w, !.least = count[w]]
    BY <1>2 DEF Scan, LessBusy, PoolType
  <2>4. /\ spawner'[s].at = "scan" /\ spawner'[s].next = w + 1
        /\ \/ /\ count[w] >= spawner[s].least
              /\ spawner'[s].best = spawner[s].best /\ spawner'[s].least = spawner[s].least
           \/ /\ count[w] < spawner[s].least
              /\ spawner'[s].best = w /\ spawner'[s].least = count[w]
    <3>1. count[w] \in Int /\ spawner[s].least \in Int
      BY <2>1, <2>2 DEF Spawning, PoolType
    <3>2. CASE count[w] < spawner[s].least
      <4>1. spawner'[s] = [spawner[s] EXCEPT !.next = w + 1, !.best = w, !.least = count[w]]
        BY <2>3, <3>1, <3>2
      <4> QED
        BY <2>1, <3>2, <4>1 DEF Spawning
    <3>3. CASE ~ (count[w] < spawner[s].least)
      <4>1. spawner'[s] = [spawner[s] EXCEPT !.next = w + 1]
        BY <2>3, <3>1, <3>3
      <4> QED
        BY <2>1, <3>1, <3>3, <4>1 DEF Spawning
    <3> QED
      BY <3>2, <3>3
  <2>5. count' = count /\ \A r \in Spawners \ {s} : spawner'[r] = spawner[r]
    BY <1>2 DEF Scan
  <2>6. LeastRead /\ Spread
    BY <1>2 DEF Scan, Quiet, SpreadInv
  <2>7. LeastRead'
    <3>1. /\ spawner[s].least \in Int /\ spawner[s].least >= 0
          /\ \A v \in Workers : v < w => spawner[s].least <= count[v]
      BY <2>1, <2>6 DEF LeastRead, Spawning
    <3>2. spawner'[s].least >= 0
      BY <2>2, <2>4, <3>1
    <3>3. ASSUME NEW v \in Workers, v < w + 1
          PROVE  spawner'[s].least <= count[v]
      <4>1. v < w \/ v = w
        BY <2>2, <3>3
      <4>2. count[v] \in Int /\ count[w] \in Int
        BY <2>2 DEF PoolType
      <4> QED
        BY <2>4, <3>1, <4>1, <4>2
    <3> QED
      BY <2>4, <2>5, <2>6, <3>2, <3>3 DEF LeastRead
  <2>8. \A v \in Workers, k \in Nat : count[v] > k => Stale(v, k)' \subseteq Stale(v, k)
    <3> TAKE v \in Workers, k \in Nat
    <3> HAVE count[v] > k
    <3>1. count[v] \in Int
      BY DEF PoolType
    <3>2. s \in Stale(v, k)' => s \in Stale(v, k)
      BY <2>1, <2>4, <3>1 DEF Stale
    <3> QED
      BY <2>5, <3>2 DEF Stale
  <2> QED
    BY <2>5, <2>6, <2>7, <2>8, SpreadKept
<1>3. ASSUME NEW s \in Spawners, Enroll(s)
      PROVE  LeastRead' /\ Spread'
  <2> DEFINE b == spawner[s].best
  <2>1. spawner[s] \in Spawning /\ spawner[s].at = "scan" /\ Found(s)
    BY <1>3 DEF Enroll, PoolType, Idle
  <2>2. /\ b \in Workers /\ spawner'[s].at = "post"
        /\ \A r \in Spawners \ {s} : spawner'[r] = spawner[r]
        /\ count'[b] = count[b] + 1
        /\ \A w \in Workers \ {b} : count'[w] = count[w]
        /\ \A w \in Workers : count[w] \in Int /\ count[w] <= count'[w]
    BY <1>3, <2>1 DEF Enroll, PoolType, Spawning
  <2>3. LeastRead /\ Spread
    BY <1>3 DEF Enroll, Quiet, SpreadInv
  <2>4. LeastRead'
    <3> SUFFICES ASSUME NEW r \in Spawners, spawner'[r].at = "scan"
                 PROVE  /\ spawner'[r].least >= 0
                        /\ \A w \in Workers : w < spawner'[r].next => spawner'[r].least <= count'[w]
      BY DEF LeastRead
    <3>1. r # s /\ spawner'[r] = spawner[r] /\ spawner[r] \in Spawning
      BY <2>2 DEF PoolType, Idle
    <3>2. /\ spawner[r].least \in Int /\ spawner[r].least >= 0
          /\ \A w \in Workers : w < spawner[r].next => spawner[r].least <= count[w]
      BY <2>3, <3>1 DEF LeastRead, Spawning
    <3> QED
      BY <2>2, <3>1, <3>2
  <2>5. Spread'
    <3> SUFFICES ASSUME NEW v \in Workers, NEW w \in Workers, NEW k \in Nat,
                        count'[w] <= k, count'[v] > k
                 PROVE  count'[v] + Cardinality(Stale(v, k)') <= k + Cardinality(Spawners)
      BY DEF Spread
    <3>1. count[w] <= k /\ spawner[s].least <= k
      <4>1. spawner[s].least <= count[w] /\ spawner[s].least \in Int
        BY <2>1, <2>3, FoundIsLeast DEF Spawning
      <4> QED
        BY <2>2, <4>1
    <3>2. Stale(v, k)' = Stale(v, k) \ {s}
      BY <2>2 DEF Stale
    <3>3. /\ IsFiniteSet(Stale(v, k)) /\ Cardinality(Stale(v, k)) \in Nat
          /\ Cardinality(Spawners) \in Nat
      BY StaleIsFinite
    <3>4. CASE v # b
      <4>1. s \notin Stale(v, k)
        BY <3>4 DEF Stale
      <4>2. Stale(v, k)' = Stale(v, k)
        BY <3>2, <4>1
      <4> QED
        BY <2>2, <2>3, <3>1, <3>4, <4>2 DEF Spread
    <3>5. CASE v = b /\ count[v] > k
      <4>1. s \in Stale(v, k)
        BY <2>1, <3>1, <3>5 DEF Stale
      <4>2. Cardinality(Stale(v, k)') = Cardinality(Stale(v, k)) - 1
        BY <3>2, <3>3, <4>1, FS_RemoveElement
      <4>3. count[v] + Cardinality(Stale(v, k)) <= k + Cardinality(Spawners)
        BY <2>3, <3>1, <3>5 DEF Spread
      <4> QED
        BY <2>2, <3>3, <3>5, <4>2, <4>3
    <3>6. CASE v = b /\ ~ (count[v] > k)
      <4>1. count[v] = k
        BY <2>2, <3>6
      <4>2. Stale(v, k)' \subseteq Spawners \ {s}
        BY <3>2 DEF Stale
      <4>3. /\ IsFiniteSet(Spawners \ {s})
            /\ Cardinality(Spawners \ {s}) = Cardinality(Spawners) - 1
        BY SpawnersAssumption, FS_RemoveElement
      <4>4. /\ Cardinality(Stale(v, k)') <= Cardinality(Spawners) - 1
            /\ Cardinality(Stale(v, k)') \in Nat
        BY <4>2, <4>3, FS_Subset, FS_CardinalityType
      <4> QED
        BY <2>2, <3>3, <3>6, <4>1, <4>4
    <3> QED
      BY <3>4, <3>5, <3>6
  <2> QED
    BY <2>4, <2>5
<1>4. ASSUME NEW s \in Spawners, Post(s)
      PROVE  LeastRead' /\ Spread'
  <2>1. /\ spawner'[s].at = "idle" /\ count' = count
        /\ \A r \in Spawners \ {s} : spawner'[r] = spawner[r]
    BY <1>4 DEF Post, PoolType, Idle
  <2>2. LeastRead /\ Spread
    BY <1>4 DEF Post, Quiet, SpreadInv
  <2>3. LeastRead'
    BY <2>1, <2>2 DEF LeastRead
  <2>4. \A v \in Workers, k \in Nat : count[v] > k => Stale(v, k)' \subseteq Stale(v, k)
    BY <2>1 DEF Stale
  <2> QED
    BY <2>1, <2>2, <2>3, <2>4, SpreadKept
<1>5. CASE (\E w \in Workers : Start(w)) \/ UNCHANGED vars
  <2>1. count' = count /\ spawner' = spawner
    BY <1>5 DEF Start, vars
  <2>2. LeastRead /\ Spread
    BY <1>5 DEF Start, vars, Quiet, SpreadInv
  <2>3. LeastRead'
    BY <2>1, <2>2 DEF LeastRead
  <2>4. \A v \in Workers, k \in Nat : count[v] > k => Stale(v, k)' \subseteq Stale(v, k)
    BY <2>1 DEF Stale
  <2> QED
    BY <2>1, <2>2, <2>3, <2>4, SpreadKept
<1>6. ~ \E w \in Workers : \/ \E t \in Nested : SpawnLocal(w, t)
                           \/ \E t \in Tasks : Finish(w, t)
  BY DEF SpawnLocal, Finish, Quiet
<1> QED
  BY <1>1, <1>2, <1>3, <1>4, <1>5, <1>6 DEF Next

\* Until tasks end or spawn others, however the spawners' unlocked reads of the
\* counts interleave, no worker of any pool is ahead of another by more than one
\* task per spawner (find_least_busy_local_worker).
THEOREM TasksAreSpread == Spec => []Balanced
<1> DEFINE SInv == PoolInv /\ SpreadInv
<1>0. PoolInv => PoolType /\ \A w \in Workers : count[w] >= 0
  <2> SUFFICES ASSUME PoolInv, NEW w \in Workers PROVE PoolType /\ count[w] >= 0
    OBVIOUS
  <2>1. Cardinality(running[w]) \in Nat /\ Cardinality(Enrolled(w)) \in Nat
    BY FS_CardinalityType DEF PoolInv, FiniteParts
  <2>2. Len(queue[w]) \in Nat
    BY DEF PoolInv, PoolType
  <2> QED
    BY <2>1, <2>2 DEF PoolInv, CountsAreTasks
<1>1. Init => SInv
  <2> SUFFICES ASSUME Init PROVE SpreadInv
    BY InitPool
  <2>1. LeastRead
    BY DEF Init, LeastRead, Idle
  <2>2. Spread
    BY DEF Init, Spread
  <2> QED
    BY <2>1, <2>2 DEF SpreadInv
<1>2. SInv /\ [Next]_vars => SInv'
  BY <1>0, StepPool, SpreadStep
<1>3. SInv => Balanced
  <2> SUFFICES ASSUME SInv, Quiet, NEW v \in Workers, NEW w \in Workers
               PROVE  count[v] - count[w] <= Cardinality(Spawners)
    BY DEF Balanced, Quiet
  <2> DEFINE k == count[w]
  <2>1. count[v] \in Int /\ k \in Nat
    BY <1>0 DEF PoolType
  <2>2. /\ Cardinality(Stale(v, k)) \in Nat /\ Cardinality(Spawners) \in Nat
    BY StaleIsFinite
  <2>3. count[v] > k => count[v] + Cardinality(Stale(v, k)) <= k + Cardinality(Spawners)
    BY <2>1 DEF SpreadInv, Spread
  <2> QED
    BY <2>1, <2>2, <2>3
<1> QED
  BY <1>1, <1>2, <1>3, PTL DEF Spec
=============================================================================
