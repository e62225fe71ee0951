---------------------------- MODULE MapRunProofs ----------------------------
(***************************************************************************)
(* Proofs about MapRun for every number of items, inputs, keys, workers,   *)
(* attempts and faults.                                                    *)
(***************************************************************************)
EXTENDS MapRun, FiniteSetTheorems, TLAPS

Holding(w) == workers[w].at \in {"attempting", "calling"}

(***************************************************************************)
(* Types                                                                   *)
(***************************************************************************)
\* The files, as singletons or nothing.
FilesOK ==
    /\ manifest = {} \/ \E j \in Job : manifest = {j}
    /\ snapshot = {} \/ \E x \in Inputs : snapshot = {x}
    /\ DOMAIN items \subseteq Index
    /\ \A i \in DOMAIN items : items[i] \in ItemState

\* The run: a worker that is busy holds an item of the input.
RunOK ==
    /\ job \in Job /\ pc \in PCs /\ next \in 1..(Items + 1)
    /\ queue \in Seq([item : Index, attempts : 0..MaxAttempts])
    /\ workers \in [Workers -> Held]
    /\ \A w \in Workers : Holding(w) => workers[w].item \in Index

FlagsOK ==
    /\ cancelled \in BOOLEAN /\ workerError \in BOOLEAN /\ scanError \in BOOLEAN
    /\ torn \in BOOLEAN

CountsOK ==
    /\ calls \in [Index -> Nat]
    /\ faults \in 0..MaxFaults

Types == FilesOK /\ RunOK /\ FlagsOK /\ CountsOK

\* Saving the state of an item changes that item's file and no other.
LEMMA SaveFacts ==
    ASSUME NEW i, NEW status, NEW attempts, Save(i, status, attempts)
    PROVE  /\ DOMAIN items' = DOMAIN items \cup {i}
           /\ items'[i] = [input |-> job.input, status |-> status,
                           attempts |-> attempts, key |-> job.key]
           /\ \A j \in DOMAIN items : j # i => items'[j] = items[j]
  BY DEF Save

\* A saved state is one the Go type allows.
LEMMA SaveFilesOK ==
    ASSUME Types, NEW i \in Index, NEW status \in Statuses, NEW attempts \in 0..MaxAttempts,
           Save(i, status, attempts), UNCHANGED <<manifest, snapshot>>
    PROVE  FilesOK'
<1>1. /\ DOMAIN items' = DOMAIN items \cup {i}
      /\ items'[i] = [input |-> job.input, status |-> status,
                      attempts |-> attempts, key |-> job.key]
      /\ \A j \in DOMAIN items : j # i => items'[j] = items[j]
  BY DEF Save
<1>2. job.input \in Inputs /\ job.key \in Keys
  BY DEF Types, RunOK, Job
<1>3. items'[i] \in ItemState
  BY <1>1, <1>2 DEF ItemState
<1>4. \A j \in DOMAIN items' : items'[j] \in ItemState
  BY <1>1, <1>3 DEF Types, FilesOK
<1> QED
  BY <1>1, <1>4 DEF Types, FilesOK

LEMMA TypesInit == Init => Types
<1> SUFFICES ASSUME Init PROVE Types
  OBVIOUS
<1> USE RunAssumption
<1>1. FilesOK
  BY DEF Init, FilesOK
<1>2. RunOK
  BY DEF Init, RunOK, Held, Waiting, PCs, Holding
<1>3. CountsOK
  BY DEF Init, CountsOK, Index
<1>4. FlagsOK
  BY DEF Init, FlagsOK
<1> QED
  BY <1>1, <1>2, <1>3, <1>4 DEF Types

LEMMA TypesNext == Types /\ [Next]_vars => Types'
<1> SUFFICES ASSUME Types, [Next]_vars PROVE Types'
  OBVIOUS
<1> USE RunAssumption
<1>1. ASSUME NEW j \in Job, Open(j) PROVE Types'
  <2>1. FilesOK'
    BY <1>1 DEF Open, Types, FilesOK
  <2>2. RunOK'
    BY <1>1 DEF Open, Types, RunOK, PCs, Held, Waiting, Holding
  <2>3. CountsOK'
    BY <1>1 DEF Open, Types, CountsOK, ghosts
  <2>4. FlagsOK'
    BY <1>1 DEF Open, ghosts, Types, FlagsOK
  <2> QED BY <2>1, <2>2, <2>3, <2>4 DEF Types
<1>2. CASE PrepareSnapshot
  <2>1. FilesOK'
    BY <1>2 DEF PrepareSnapshot, Types, FilesOK, RunOK, Job, ItemState
  <2>2. RunOK'
    BY <1>2 DEF PrepareSnapshot, Types, RunOK, PCs, Holding
  <2>3. CountsOK'
    BY <1>2 DEF PrepareSnapshot, Types, CountsOK, ghosts
  <2>4. FlagsOK'
    BY <1>2 DEF PrepareSnapshot, ghosts, Types, FlagsOK
  <2> QED BY <2>1, <2>2, <2>3, <2>4 DEF Types
<1>3. CASE Skip \/ StopScan \/ EndScan \/ Finish \/ Cancel
  <2>1. FilesOK'
    BY <1>3 DEF Skip, StopScan, EndScan, Finish, Cancel, durable, Types, FilesOK, ItemState
  <2>2. RunOK'
    BY <1>3 DEF Skip, StopScan, EndScan, Finish, Cancel, Scanning, Types, RunOK, PCs, Holding
  <2>3. CountsOK'
    BY <1>3 DEF Skip, StopScan, EndScan, Finish, Cancel, Fault, Types, CountsOK, ghosts
  <2>4. FlagsOK'
    BY <1>3 DEF Skip, StopScan, EndScan, Finish, Cancel, durable, ghosts, Types, FlagsOK
  <2> QED BY <2>1, <2>2, <2>3, <2>4 DEF Types
<1>4. CASE Enqueue
  <2> DEFINE entry == [item |-> next,
                 attempts |-> IF next \in DOMAIN items THEN items[next].attempts ELSE 0]
  <2>1. entry \in [item : Index, attempts : 0..MaxAttempts]
    BY <1>4 DEF Enqueue, Scanning, Types, FilesOK, RunOK, ItemState, Index
  <2>2. queue' = Append(queue, entry)
    BY <1>4 DEF Enqueue
  <2>3. queue' \in Seq([item : Index, attempts : 0..MaxAttempts])
    <3> HIDE DEF entry
    <3> QED BY <2>1, <2>2 DEF Types, RunOK
  <2>4. FilesOK'
    BY <1>4 DEF Enqueue, durable, Types, FilesOK, ItemState
  <2>5. RunOK'
    BY <1>4, <2>3 DEF Enqueue, Scanning, Types, RunOK, Holding
  <2>6. CountsOK'
    BY <1>4 DEF Enqueue, Types, CountsOK, ghosts
  <2>7. FlagsOK'
    BY <1>4 DEF Enqueue, ghosts, Types, FlagsOK
  <2> QED BY <2>4, <2>5, <2>6, <2>7 DEF Types
<1>5. ASSUME NEW w \in Workers, Take(w) PROVE Types'
  <2> DEFINE Entry == [item : Index, attempts : 0..MaxAttempts]
  <2>1. queue \in Seq(Entry) /\ queue # <<>> /\ queue' = Tail(queue)
    BY <1>5 DEF Take, Types, RunOK
  <2>2. Head(queue) \in Entry /\ queue' \in Seq(Entry)
    <3> HIDE DEF Entry
    <3> QED BY <2>1
  <2>3. /\ workers' \in [Workers -> Held]
        /\ \A v \in Workers : v # w => workers'[v] = workers[v]
        /\ workers'[w].item \in Index
    BY SMTT(30), <1>5, <2>2 DEF Take, Types, RunOK, Held, Index
  <2>4. FilesOK'
    BY <1>5 DEF Take, durable, Types, FilesOK, ItemState
  <2>5. RunOK'
    BY <1>5, <2>2, <2>3 DEF Take, Types, RunOK, Holding
  <2>6. CountsOK'
    BY <1>5 DEF Take, Types, CountsOK, ghosts
  <2>7. FlagsOK'
    BY <1>5 DEF Take, ghosts, Types, FlagsOK
  <2> QED BY <2>4, <2>5, <2>6, <2>7 DEF Types
<1>6. ASSUME NEW w \in Workers, Yield(w) \/ Complete(w) \/ GiveUp(w) PROVE Types'
  <2>1. workers[w].item \in Index /\ workers[w].attempts \in 0..MaxAttempts
    BY <1>6 DEF Yield, Complete, GiveUp, At, Types, RunOK, Held, Holding
  <2>2. FilesOK'
    BY <1>6, <2>1, SaveFilesOK DEF Yield, Complete, GiveUp, Statuses
  <2>3. Waiting \in Held
    BY DEF Waiting, Held
  <2>4. RunOK'
    BY SMTT(30), <1>6, <2>3 DEF Yield, Complete, GiveUp, Rest, Types, RunOK, Holding, Waiting
  <2>5. CountsOK'
    BY <1>6 DEF Yield, Complete, GiveUp, Types, CountsOK, ghosts
  <2>6. FlagsOK'
    BY <1>6 DEF Yield, Complete, GiveUp, ghosts, Types, FlagsOK
  <2> QED BY <2>2, <2>4, <2>5, <2>6 DEF Types
<1>7. ASSUME NEW w \in Workers, Call(w) PROVE Types'
  <2>1. workers[w].item \in Index /\ workers[w].attempts + 1 \in 0..MaxAttempts
    BY <1>7 DEF Call, At, Types, RunOK, Held, Holding
  <2>2. FilesOK'
    BY <1>7, <2>1, SaveFilesOK DEF Call, Statuses
  <2>3. /\ workers' \in [Workers -> Held]
        /\ \A v \in Workers : v # w => workers'[v] = workers[v]
        /\ workers'[w].item = workers[w].item
    BY <1>7, <2>1 DEF Call, Types, RunOK, Held
  <2>4. RunOK'
    BY <1>7, <2>1, <2>3 DEF Call, Types, RunOK, Holding
  <2>5. CountsOK'
    BY <1>7, <2>1 DEF Call, Types, CountsOK
  <2>6. FlagsOK'
    BY <1>7 DEF Call, Types, FlagsOK
  <2> QED BY <2>2, <2>4, <2>5, <2>6 DEF Types
<1>8. ASSUME NEW w \in Workers, Reject(w) PROVE Types'
  <2>1. workers[w].item \in Index /\ workers[w].attempts \in 0..MaxAttempts
    BY <1>8 DEF Reject, At, Types, RunOK, Held, Holding
  <2>2. FilesOK'
    BY <1>8, <2>1, SaveFilesOK DEF Reject, Statuses
  <2>3. /\ workers' \in [Workers -> Held]
        /\ \A v \in Workers : v # w => workers'[v] = workers[v]
        /\ workers'[w].item = workers[w].item
    BY <1>8, <2>1 DEF Reject, Types, RunOK, Held
  <2>4. RunOK'
    BY <1>8, <2>1, <2>3 DEF Reject, Types, RunOK, Holding
  <2>5. CountsOK'
    BY <1>8 DEF Reject, Types, CountsOK, ghosts
  <2>6. FlagsOK'
    BY <1>8 DEF Reject, ghosts, Types, FlagsOK
  <2> QED BY <2>2, <2>4, <2>5, <2>6 DEF Types
<1>9. ASSUME NEW w \in Workers, FailSave(w) PROVE Types'
  <2>1. FilesOK'
    BY <1>9 DEF FailSave, durable, Types, FilesOK, ItemState
  <2>2. /\ workers' \in [Workers -> Held]
        /\ \A v \in Workers : v # w => workers'[v] = workers[v]
        /\ workers'[w].at = "gone"
    BY <1>9 DEF FailSave, Types, RunOK, Held
  <2>3. RunOK'
    BY <1>9, <2>2 DEF FailSave, Types, RunOK, Holding
  <2>4. CountsOK'
    BY <1>9 DEF FailSave, Fault, Types, CountsOK
  <2>5. FlagsOK'
    BY <1>9 DEF FailSave, Types, FlagsOK
  <2> QED BY <2>1, <2>3, <2>4, <2>5 DEF Types
<1>10. CASE Assemble
  <2>1. FilesOK'
    BY <1>10 DEF Assemble, Types, FilesOK, ItemState
  <2>2. RunOK'
    BY <1>10 DEF Assemble, Types, RunOK, PCs, Holding
  <2>3. CountsOK'
    BY <1>10 DEF Assemble, Types, CountsOK, ghosts
  <2>4. FlagsOK'
    BY <1>10 DEF Assemble, ghosts, Types, FlagsOK
  <2> QED BY <2>1, <2>2, <2>3, <2>4 DEF Types
<1>11. CASE Remove
  <2>1. FilesOK'
    BY <1>11 DEF Remove, Types, FilesOK
  <2>2. RunOK'
    BY <1>11 DEF Remove, process, Types, RunOK, Holding
  <2>3. CountsOK'
    <3>1. faults' = faults /\ (calls' = calls \/ \E i \in Index : calls' = [calls EXCEPT ![i] = 0])
      BY <1>11 DEF Remove, Types, FilesOK
    <3> QED BY <3>1 DEF Types, CountsOK
  <2>4. FlagsOK'
    BY <1>11 DEF Remove, process, Types, FlagsOK
  <2> QED BY <2>1, <2>2, <2>3, <2>4 DEF Types
<1>12. CASE Succeed
  <2>1. FilesOK'
    BY <1>12 DEF Succeed, durable, Types, FilesOK, ItemState
  <2>2. RunOK'
    BY <1>12 DEF Succeed, Types, RunOK, PCs, Holding
  <2>3. CountsOK'
    BY <1>12 DEF Succeed, Types, CountsOK
  <2>4. FlagsOK'
    BY <1>12 DEF Succeed, durable, Types, FlagsOK
  <2> QED BY <2>1, <2>2, <2>3, <2>4 DEF Types
<1>13. CASE Die
  <2>1. FilesOK'
    BY <1>13 DEF Die, durable, Types, FilesOK, ItemState
  <2>2. RunOK'
    BY <1>13 DEF Die, Types, RunOK, PCs, Held, Waiting, Holding
  <2>3. CountsOK'
    BY <1>13 DEF Die, Fault, Types, CountsOK
  <2>4. FlagsOK'
    BY <1>13 DEF Die, Types, FlagsOK
  <2> QED BY <2>1, <2>2, <2>3, <2>4 DEF Types
<1>14. CASE UNCHANGED vars
  BY <1>14 DEF vars, durable, process, ghosts, Types, FilesOK, RunOK, FlagsOK, CountsOK, Holding, ItemState
<1> QED
  BY <1>1, <1>2, <1>3, <1>4, <1>5, <1>6, <1>7, <1>8, <1>9, <1>10, <1>11, <1>12, <1>13, <1>14
     DEF Next

\* Files, channel and workers always hold what their Go types allow.
THEOREM MapRunTypeCorrect == Spec => []TypeOK
<1>1. Types => TypeOK
  <2> SUFFICES ASSUME Types PROVE TypeOK
    OBVIOUS
  <2>1. manifest \subseteq Job /\ Cardinality(manifest) <= 1
    BY FS_EmptySet, FS_Singleton DEF Types, FilesOK
  <2>2. snapshot \subseteq Inputs /\ Cardinality(snapshot) <= 1
    <3>1. CASE snapshot = {}
      BY <3>1, FS_EmptySet
    <3>2. ASSUME NEW x \in Inputs, snapshot = {x} PROVE Cardinality(snapshot) = 1
      BY <3>2, FS_Singleton
    <3> QED BY <3>1, <3>2 DEF Types, FilesOK
  <2>3. {cancelled, workerError, scanError, torn} \subseteq BOOLEAN
    BY DEF Types, FlagsOK
  <2> QED
    BY <2>1, <2>2, <2>3 DEF Types, FilesOK, RunOK, CountsOK, TypeOK
<1> QED
  BY <1>1, TypesInit, TypesNext, PTL DEF Spec

(***************************************************************************)
(* The line of items: at most one worker or queue entry per item           *)
(***************************************************************************)
Active == pc \in {"scanning", "draining"}

\* The attempts the state of an item records.
AttemptsOf(i) == IF i \in DOMAIN items THEN items[i].attempts ELSE 0

\* What is queued or held agrees with the item's file.
Fresh(i, attempts) == ~Terminal(i) /\ attempts = AttemptsOf(i)

QueueInOrder ==
    \A a \in DOMAIN queue :
        /\ queue[a].item < next
        /\ \A b \in DOMAIN queue : a < b => queue[a].item < queue[b].item

QueueFresh == \A a \in DOMAIN queue : Fresh(queue[a].item, queue[a].attempts)

HeldInOrder ==
    \A w \in Workers : Holding(w) =>
        /\ workers[w].item < next
        /\ \A a \in DOMAIN queue : workers[w].item < queue[a].item

HeldFresh == \A w \in Workers : Holding(w) => Fresh(workers[w].item, workers[w].attempts)

HeldApart ==
    \A w, v \in Workers :
        w # v /\ Holding(w) /\ Holding(v) => workers[w].item # workers[v].item

Phases ==
    /\ \A w \in Workers : Holding(w) => Active
    /\ pc \in {"assembling", "removing"} => queue = <<>>
    /\ \A w \in Workers : workers[w].at = "gone" => workerError

Order == QueueInOrder /\ HeldInOrder /\ HeldApart

Line == Order /\ QueueFresh /\ HeldFresh /\ Phases

LEMMA LineInit == Init => Line
  BY DEF Init, Line, Order, QueueInOrder, HeldInOrder, HeldApart, QueueFresh, HeldFresh,
         Phases, Holding, Waiting

\* The entries of the queue are items and numbers of attempts.
LEMMA QueueEntries ==
    ASSUME Types
    PROVE  /\ Len(queue) \in Nat /\ DOMAIN queue = 1..Len(queue)
           /\ \A a \in DOMAIN queue : queue[a].item \in Index
           /\ next \in Nat
           /\ \A w \in Workers : Holding(w) => workers[w].item \in Nat
<1>1. Len(queue) \in Nat /\ DOMAIN queue = 1..Len(queue)
  BY DEF Types, RunOK
<1>2. \A a \in DOMAIN queue : queue[a].item \in Index
  <2> DEFINE Entry == [item : Index, attempts : 0..MaxAttempts]
  <2>1. queue \in Seq(Entry)
    BY DEF Types, RunOK
  <2>2. \A a \in DOMAIN queue : queue[a] \in Entry
    <3> HIDE DEF Entry
    <3> QED BY <2>1
  <2> QED
    BY <2>2
<1>3. \A w \in Workers : Holding(w) => workers[w].item \in Nat
  BY DEF Types, RunOK, Index
<1> QED
  BY <1>1, <1>2, <1>3, RunAssumption DEF Types, RunOK

\* A worker that saves its item leaves the order alone, and every other item's
\* state.
LEMMA SaveLine ==
    ASSUME Types, Line, NEW w \in Workers, Holding(w), NEW status \in Statuses,
           NEW attempts \in 0..MaxAttempts, Save(workers[w].item, status, attempts),
           UNCHANGED <<pc, next, queue, workerError>>,
           \A v \in Workers : v # w => workers'[v] = workers[v],
           workers'[w].item = workers[w].item \/ ~Holding(w)',
           Holding(w)' => status = "running" /\ workers'[w].attempts = attempts,
           workers'[w].at # "gone"
    PROVE  Line'
<1> DEFINE i == workers[w].item
<1>1. /\ DOMAIN items' = DOMAIN items \cup {i}
      /\ items'[i].status = status /\ items'[i].attempts = attempts
      /\ \A j \in DOMAIN items : j # i => items'[j] = items[j]
  BY DEF Save
<1>2. \A j, a : j # i => (Fresh(j, a)' <=> Fresh(j, a))
  BY <1>1 DEF Fresh, Terminal, AttemptsOf
<1>3. \A v \in Workers : v # w => (Holding(v)' <=> Holding(v))
  BY DEF Holding
<1>4. Order'
  <2>1. QueueInOrder'
    BY DEF Line, Order, QueueInOrder
  <2>2. HeldInOrder'
    BY <1>3 DEF Line, Order, HeldInOrder
  <2>3. HeldApart'
    BY <1>3 DEF Line, Order, HeldApart
  <2> QED BY <2>1, <2>2, <2>3 DEF Order
<1>5. QueueFresh'
  <2>1. \A a \in DOMAIN queue : queue[a].item # i
    BY QueueEntries DEF Line, Order, HeldInOrder, Index
  <2> QED BY <1>2, <2>1 DEF Line, QueueFresh
<1>6. HeldFresh'
  <2>1. \A v \in Workers : v # w /\ Holding(v)' => Fresh(workers[v].item, workers[v].attempts)'
    BY <1>2, <1>3 DEF Line, Order, HeldApart, HeldFresh
  <2>2. Holding(w)' => Fresh(workers[w].item, workers[w].attempts)'
    BY <1>1 DEF Fresh, Terminal, AttemptsOf
  <2> QED BY <2>1, <2>2 DEF HeldFresh
<1>7. Phases'
  BY <1>3 DEF Line, Phases, Active
<1> QED
  BY <1>4, <1>5, <1>6, <1>7 DEF Line

\* Nothing is queued or held twice, and what is queued or held is unfinished and
\* counts its attempts as its file does.
LEMMA LineNext == Types /\ Types' /\ Line /\ [Next]_vars => Line'
<1> SUFFICES ASSUME Types, Types', Line, [Next]_vars PROVE Line'
  OBVIOUS
<1> USE RunAssumption
<1>1. /\ Len(queue) \in Nat /\ DOMAIN queue = 1..Len(queue)
      /\ \A a \in DOMAIN queue : queue[a].item \in Index
      /\ next \in Nat
      /\ \A w \in Workers : Holding(w) => workers[w].item \in Nat
  BY QueueEntries
<1>2. ASSUME NEW j \in Job, Open(j) PROVE Line'
  <2>1. queue' = <<>> /\ \A w \in Workers : ~Holding(w)' /\ workers'[w].at # "gone"
    BY <1>2 DEF Open, Holding, Waiting
  <2> QED
    BY <1>2, <2>1 DEF Open, Line, Order, QueueInOrder, HeldInOrder, HeldApart, QueueFresh,
                      HeldFresh, Phases
<1>3. CASE PrepareSnapshot \/ Skip \/ StopScan \/ EndScan \/ Cancel \/ Finish
  <2>1. UNCHANGED <<items, queue, workers>> /\ next' \in {next, next + 1} /\ workerError' = workerError
    BY <1>3 DEF PrepareSnapshot, Skip, StopScan, EndScan, Cancel, Finish, durable
  <2>2. \A w \in Workers : Holding(w)' <=> Holding(w)
    BY <2>1 DEF Holding
  <2>3. Order'
    <3>1. next <= next'
      BY <1>1, <2>1
    <3>2. QueueInOrder'
      BY <1>1, <2>1, <3>1 DEF Line, Order, QueueInOrder, Index, Types, RunOK
    <3>3. HeldInOrder'
      BY <1>1, <2>1, <2>2, <3>1 DEF Line, Order, HeldInOrder, Types, RunOK
    <3> QED
      BY <2>1, <2>2, <3>2, <3>3 DEF Line, Order, HeldApart
  <2>4. QueueFresh' /\ HeldFresh'
    BY <2>1, <2>2 DEF Line, QueueFresh, HeldFresh, Fresh, Terminal, AttemptsOf
  <2>5. Phases'
    <3>1. CASE PrepareSnapshot \/ Skip \/ StopScan \/ EndScan \/ Cancel
      BY <2>1, <2>2, <3>1 DEF PrepareSnapshot, Skip, StopScan, EndScan, Cancel, Scanning, Line,
                              Phases, Active
    <3>2. CASE Finish
      <4>1. \A w \in Workers : ~Holding(w)
        BY <3>2 DEF Finish, AllReturned, At, Holding
      <4>2. pc' = "assembling" => queue = <<>>
        BY <3>2 DEF Finish, AllReturned, At, Line, Phases
      <4> QED
        BY <2>1, <2>2, <3>2, <4>1, <4>2 DEF Finish, Line, Phases
    <3> QED
      BY <1>3, <3>1, <3>2
  <2> QED
    BY <2>3, <2>4, <2>5 DEF Line
<1>4. CASE Enqueue
  <2> DEFINE entry == [item |-> next,
                 attempts |-> IF next \in DOMAIN items THEN items[next].attempts ELSE 0]
             last  == Len(queue) + 1
  <2>1. /\ UNCHANGED <<items, workers, pc, workerError>> /\ next' = next + 1
        /\ queue' = Append(queue, entry) /\ pc = "scanning"
    BY <1>4 DEF Enqueue, Scanning, durable
  <2>2. /\ DOMAIN queue' = 1..last
        /\ queue'[last] = entry /\ \A a \in DOMAIN queue : queue'[a] = queue[a]
    BY <2>1 DEF Types, RunOK
  <2>3. queue'[last].item = next /\ queue'[last].attempts = AttemptsOf(next)
    BY <2>2 DEF AttemptsOf
  <2> HIDE DEF entry
  <2>4. \A w \in Workers : Holding(w)' <=> Holding(w)
    BY <2>1 DEF Holding
  <2>5. QueueInOrder'
    BY <1>1, <2>1, <2>2, <2>3 DEF Line, Order, QueueInOrder, Index
  <2>6. HeldInOrder'
    BY <1>1, <2>1, <2>2, <2>3, <2>4 DEF Line, Order, HeldInOrder
  <2>7. QueueFresh' /\ HeldFresh'
    <3>1. ~Terminal(next)
      BY <1>4 DEF Enqueue
    <3>2. \A j, a : Fresh(j, a)' <=> Fresh(j, a)
      BY <2>1 DEF Fresh, Terminal, AttemptsOf
    <3>3. QueueFresh'
      <4> SUFFICES ASSUME NEW a \in 1..last
                   PROVE  Fresh(queue'[a].item, queue'[a].attempts)
        BY <2>2, <3>2 DEF QueueFresh
      <4>1. CASE a = last
        BY <2>3, <3>1, <4>1 DEF Fresh
      <4>2. CASE a # last
        BY <1>1, <2>2, <4>2 DEF Line, QueueFresh
      <4> QED BY <4>1, <4>2
    <3> QED
      BY <2>1, <2>4, <3>2, <3>3 DEF Line, HeldFresh
  <2>8. HeldApart' /\ Phases'
    BY <2>1, <2>4 DEF Line, Order, HeldApart, Phases, Active
  <2> QED
    BY <2>5, <2>6, <2>7, <2>8 DEF Line, Order
<1>5. ASSUME NEW w \in Workers, Take(w) PROVE Line'
  <2>1. /\ UNCHANGED <<items, pc, next, workerError>> /\ Active
        /\ queue # <<>> /\ queue' = Tail(queue) /\ workers[w].at = "waiting"
        /\ workers'[w].at = "attempting" /\ workers'[w].item = queue[1].item
        /\ workers'[w].attempts = queue[1].attempts
        /\ \A v \in Workers : v # w => workers'[v] = workers[v]
    BY <1>5 DEF Take, durable, Active, Types, RunOK
  <2>2. /\ Len(queue) > 0 /\ DOMAIN queue' = 1..(Len(queue) - 1)
        /\ \A a \in DOMAIN queue' : a + 1 \in DOMAIN queue /\ queue'[a] = queue[a + 1]
    BY <1>1, <2>1 DEF Types, RunOK
  <2>3. /\ 1 \in DOMAIN queue
        /\ \A a \in DOMAIN queue' : queue[1].item < queue'[a].item
    BY <1>1, <2>2 DEF Line, Order, QueueInOrder
  <2>4. \A v \in Workers : v # w => (Holding(v)' <=> Holding(v))
    BY <2>1 DEF Holding
  <2>5. QueueInOrder'
    BY <1>1, <2>1, <2>2 DEF Line, Order, QueueInOrder
  <2>6. HeldInOrder'
    <3>1. ASSUME NEW v \in Workers, v # w, Holding(v)'
          PROVE  /\ workers'[v].item < next'
                 /\ \A a \in DOMAIN queue' : workers'[v].item < queue'[a].item
      BY <2>1, <2>2, <2>4, <3>1 DEF Line, Order, HeldInOrder
    <3>2. /\ workers'[w].item < next'
          /\ \A a \in DOMAIN queue' : workers'[w].item < queue'[a].item
      BY <2>1, <2>3 DEF Line, Order, QueueInOrder
    <3> QED BY <3>1, <3>2 DEF HeldInOrder
  <2>7. HeldApart'
    <3>1. \A v \in Workers : v # w /\ Holding(v) => workers[v].item # queue[1].item
      BY <1>1, <2>3 DEF Line, Order, HeldInOrder, Index
    <3> QED BY <2>1, <2>4, <3>1 DEF Line, Order, HeldApart
  <2>8. QueueFresh' /\ HeldFresh'
    <3>1. \A j, a : Fresh(j, a)' <=> Fresh(j, a)
      BY <2>1 DEF Fresh, Terminal, AttemptsOf
    <3>2. QueueFresh'
      BY <2>2, <3>1 DEF Line, QueueFresh
    <3>3. HeldFresh'
      BY <2>1, <2>3, <2>4, <3>1 DEF Line, HeldFresh, QueueFresh
    <3> QED BY <3>2, <3>3
  <2>9. Phases'
    BY <2>1, <2>4 DEF Line, Phases, Active
  <2> QED
    BY <2>5, <2>6, <2>7, <2>8, <2>9 DEF Line, Order
<1>6. ASSUME NEW w \in Workers, Yield(w) \/ Complete(w) \/ GiveUp(w) PROVE Line'
  <2>1. /\ Holding(w) /\ UNCHANGED <<pc, next, queue, workerError>>
        /\ workers' = [workers EXCEPT ![w] = Waiting]
    BY <1>6 DEF Yield, Complete, GiveUp, At, Holding, Rest
  <2>2. /\ workers[w].attempts \in 0..MaxAttempts /\ workers'[w].at = "waiting"
        /\ \A v \in Workers : v # w => workers'[v] = workers[v]
    BY <2>1 DEF Waiting, Types, RunOK, Held
  <2>3. \E status \in Statuses : Save(workers[w].item, status, workers[w].attempts)
    BY <1>6 DEF Yield, Complete, GiveUp, Statuses
  <2>4. ~Holding(w)'
    BY <2>2 DEF Holding
  <2> QED
    BY <2>1, <2>2, <2>3, <2>4, SaveLine
<1>7. ASSUME NEW w \in Workers, Call(w) PROVE Line'
  <2>1. /\ Holding(w) /\ UNCHANGED <<pc, next, queue, workerError>>
        /\ workers[w].attempts + 1 \in 0..MaxAttempts
        /\ Save(workers[w].item, "running", workers[w].attempts + 1)
    BY <1>7 DEF Call, At, Holding, Types, RunOK, Held
  <2>2. /\ workers'[w].at = "calling" /\ workers'[w].item = workers[w].item
        /\ workers'[w].attempts = workers[w].attempts + 1
        /\ \A v \in Workers : v # w => workers'[v] = workers[v]
    BY <1>7 DEF Call, Types, RunOK, Held
  <2> QED
    BY <2>1, <2>2, SaveLine DEF Statuses
<1>8. ASSUME NEW w \in Workers, Reject(w) PROVE Line'
  <2>1. /\ Holding(w) /\ UNCHANGED <<pc, next, queue, workerError>>
        /\ workers[w].attempts \in 0..MaxAttempts
        /\ Save(workers[w].item, "running", workers[w].attempts)
    BY <1>8 DEF Reject, At, Holding, Types, RunOK, Held
  <2>2. /\ workers'[w].at = "attempting" /\ workers'[w].item = workers[w].item
        /\ workers'[w].attempts = workers[w].attempts
        /\ \A v \in Workers : v # w => workers'[v] = workers[v]
    BY <1>8 DEF Reject, Types, RunOK, Held
  <2> QED
    BY <2>1, <2>2, SaveLine DEF Statuses
<1>9. ASSUME NEW w \in Workers, FailSave(w) PROVE Line'
  <2>1. /\ UNCHANGED <<items, pc, next, queue>> /\ workerError'
        /\ workers'[w].at = "gone"
        /\ \A v \in Workers : v # w => workers'[v] = workers[v]
    BY <1>9 DEF FailSave, durable, Types, RunOK, Held
  <2>2. ~Holding(w)' /\ \A v \in Workers : v # w => (Holding(v)' <=> Holding(v))
    BY <2>1 DEF Holding
  <2>3. Order'
    BY <2>1, <2>2 DEF Line, Order, QueueInOrder, HeldInOrder, HeldApart
  <2>4. QueueFresh' /\ HeldFresh'
    BY <2>1, <2>2 DEF Line, QueueFresh, HeldFresh, Fresh, Terminal, AttemptsOf
  <2>5. Phases'
    BY <2>1, <2>2 DEF Line, Phases, Active
  <2> QED
    BY <2>3, <2>4, <2>5 DEF Line
<1>10. CASE Assemble \/ Remove \/ Succeed
  <2>1. queue = <<>> /\ \A w \in Workers : ~Holding(w)
    BY <1>10 DEF Assemble, Remove, Succeed, Line, Phases, Active
  <2>2. UNCHANGED <<queue, workers, workerError>>
    BY <1>10 DEF Assemble, Remove, Succeed, process
  <2>3. \A w \in Workers : ~Holding(w)'
    BY <2>1, <2>2 DEF Holding
  <2> QED
    BY <2>1, <2>2, <2>3 DEF Line, Order, QueueInOrder, HeldInOrder, HeldApart, QueueFresh,
                            HeldFresh, Phases
<1>11. CASE Die
  <2>1. queue' = <<>> /\ \A w \in Workers : ~Holding(w)' /\ workers'[w].at # "gone"
    BY <1>11 DEF Die, Holding, Waiting
  <2> QED
    BY <2>1 DEF Line, Order, QueueInOrder, HeldInOrder, HeldApart, QueueFresh, HeldFresh, Phases
<1>12. CASE UNCHANGED vars
  BY <1>12 DEF vars, durable, process, Line, Order, QueueInOrder, HeldInOrder, HeldApart,
               QueueFresh, HeldFresh, Phases, Holding, Active, Fresh, Terminal, AttemptsOf
<1> QED
  BY <1>2, <1>3, <1>4, <1>5, <1>6, <1>7, <1>8, <1>9, <1>10, <1>11, <1>12 DEF Next

(***************************************************************************)
(* The budget of calls                                                     *)
(***************************************************************************)
BudgetFits == MaxCalls > 0 => Items * MaxAttempts <= MaxCalls

\* No call is made that the item's file does not record, and none by a run whose
\* worst case does not fit the budget.
Counted ==
    /\ \A i \in Index : calls[i] <= AttemptsOf(i)
    /\ pc # "idle" => BudgetFits
    /\ \A i \in Index : calls[i] > 0 => BudgetFits

\* Saving an item with at least the attempts its file has keeps the count.
LEMMA SaveCounted ==
    ASSUME Types, Line, Counted, NEW w \in Workers, Holding(w), NEW status \in Statuses,
           Save(workers[w].item, status, workers[w].attempts),
           UNCHANGED <<pc, calls>>
    PROVE  Counted'
<1> DEFINE i == workers[w].item
<1>1. /\ DOMAIN items' = DOMAIN items \cup {i}
      /\ items'[i].status = status /\ items'[i].attempts = workers[w].attempts
      /\ \A j \in DOMAIN items : j # i => items'[j] = items[j]
  BY DEF Save
<1>2. workers[w].attempts = AttemptsOf(i)
  BY DEF Line, HeldFresh, Fresh
<1>3. \A j : AttemptsOf(j)' = AttemptsOf(j)
  BY <1>1, <1>2 DEF AttemptsOf
<1> QED
  BY <1>3 DEF Counted, BudgetFits

LEMMA CountedNext == Types /\ Line /\ Counted /\ [Next]_vars => Counted'
<1> SUFFICES ASSUME Types, Line, Counted, [Next]_vars PROVE Counted'
  OBVIOUS
<1> USE RunAssumption
<1>1. ASSUME NEW j \in Job, Open(j) PROVE Counted'
  BY <1>1 DEF Open, ghosts, Counted, BudgetFits, AttemptsOf
<1>2. CASE PrepareSnapshot \/ Skip \/ StopScan \/ EndScan \/ Enqueue \/ Cancel \/ Finish
           \/ Assemble \/ Die
  <2>1. UNCHANGED <<items, calls>> /\ (pc' # "idle" => pc # "idle")
    BY <1>2 DEF PrepareSnapshot, Skip, StopScan, EndScan, Enqueue, Cancel, Finish, Assemble,
                Die, durable, ghosts, Scanning
  <2> QED
    BY <2>1 DEF Counted, BudgetFits, AttemptsOf
<1>3. ASSUME NEW w \in Workers, Take(w) \/ FailSave(w) PROVE Counted'
  <2>1. UNCHANGED <<items, calls, pc>>
    BY <1>3 DEF Take, FailSave, durable, ghosts
  <2> QED
    BY <2>1 DEF Counted, BudgetFits, AttemptsOf
<1>4. ASSUME NEW w \in Workers, Yield(w) \/ Complete(w) \/ Reject(w) \/ GiveUp(w)
      PROVE  Counted'
  <2>1. Holding(w) /\ UNCHANGED <<pc, calls>>
    BY <1>4 DEF Yield, Complete, Reject, GiveUp, At, Holding, ghosts
  <2>2. \E status \in Statuses : Save(workers[w].item, status, workers[w].attempts)
    BY <1>4 DEF Yield, Complete, Reject, GiveUp, Statuses
  <2> QED
    BY <2>1, <2>2, SaveCounted
<1>5. ASSUME NEW w \in Workers, Call(w) PROVE Counted'
  <2> DEFINE i == workers[w].item
  <2>1. /\ DOMAIN items' = DOMAIN items \cup {i}
        /\ items'[i].status = "running" /\ items'[i].attempts = workers[w].attempts + 1
        /\ \A j \in DOMAIN items : j # i => items'[j] = items[j]
    BY <1>5 DEF Call, Save
  <2>2. Holding(w) /\ i \in Index /\ workers[w].attempts = AttemptsOf(i)
    BY <1>5 DEF Call, At, Holding, Types, RunOK, Line, HeldFresh, Fresh
  <2>3. /\ calls \in [Index -> Nat] /\ calls' = [calls EXCEPT ![i] = @ + 1]
        /\ pc' = pc /\ pc # "idle"
    BY <1>5, <2>2 DEF Call, Types, CountsOK, Line, Phases, Active
  <2>4. workers[w].attempts \in Nat
    BY <2>2 DEF Types, RunOK, Held
  <2>5. \A j \in Index : calls'[j] <= AttemptsOf(j)'
    <3>1. \A j \in Index : j = i => calls'[j] <= AttemptsOf(j)'
      <4>1. calls[i] <= workers[w].attempts /\ calls'[i] = calls[i] + 1 /\ calls[i] \in Nat
        BY <2>2, <2>3 DEF Counted
      <4>2. \A j \in Index : j = i => AttemptsOf(j)' = workers[w].attempts + 1
        BY <2>1 DEF AttemptsOf
      <4> QED BY <2>4, <4>1, <4>2
    <3>2. \A j \in Index : j # i => calls'[j] = calls[j] /\ AttemptsOf(j)' = AttemptsOf(j)
      BY <2>1, <2>3 DEF AttemptsOf
    <3> QED BY <3>1, <3>2 DEF Counted
  <2> QED
    BY <2>3, <2>5 DEF Counted, BudgetFits
<1>6. CASE Remove
  <2>1. CASE UNCHANGED <<items, calls>>
    BY <1>6, <2>1 DEF Remove, process, Counted, BudgetFits, AttemptsOf
  <2>2. ASSUME NEW i \in DOMAIN items,
               items' = [j \in DOMAIN items \ {i} |-> items[j]],
               calls' = [calls EXCEPT ![i] = 0]
        PROVE  Counted'
    <3>1. i \in Index /\ calls \in [Index -> Nat] /\ pc' = pc
      BY <1>6 DEF Remove, process, Types, FilesOK, CountsOK
    <3>2. \A j \in Index : j # i => calls'[j] = calls[j] /\ AttemptsOf(j)' = AttemptsOf(j)
      BY <2>2, <3>1 DEF AttemptsOf
    <3>3. calls'[i] = 0 /\ AttemptsOf(i)' = 0
      BY <2>2, <3>1 DEF AttemptsOf
    <3> QED
      BY <3>1, <3>2, <3>3 DEF Counted, BudgetFits
  <2> QED
    BY <1>6, <2>1, <2>2 DEF Remove
<1>7. CASE Succeed
  BY <1>7 DEF Succeed, durable, Counted, BudgetFits, AttemptsOf
<1>8. CASE UNCHANGED vars
  BY <1>8 DEF vars, durable, process, ghosts, Counted, BudgetFits, AttemptsOf
<1> QED
  BY <1>1, <1>2, <1>3, <1>4, <1>5, <1>6, <1>7, <1>8 DEF Next

(***************************************************************************)
(* Settled items                                                           *)
(***************************************************************************)
\* A scanned item is settled, on its way, or the pool's context is done.
Settled(i) ==
    \/ Terminal(i) \/ PoolDone
    \/ \E a \in DOMAIN queue : queue[a].item = i
    \/ \E w \in Workers : Holding(w) /\ workers[w].item = i

Scanned ==
    /\ pc = "snapshot" => next = 1
    /\ Active => \A i \in Index : i < next => Settled(i)
    /\ pc = "draining" => scanError \/ next = Items + 1
    /\ AssemblyReady

\* A step that settles what it takes from the line keeps the rest settled.
LEMMA SaveScanned ==
    ASSUME Types, Line, Scanned, NEW w \in Workers, Holding(w), NEW status \in Statuses,
           NEW attempts, Save(workers[w].item, status, attempts),
           UNCHANGED <<pc, next, queue, cancelled, workerError, scanError>>,
           \A v \in Workers : v # w => workers'[v] = workers[v],
           \/ status # "running"
           \/ Holding(w)' /\ workers'[w].item = workers[w].item
           \/ PoolDone
    PROVE  Scanned'
<1> DEFINE i == workers[w].item
<1>1. /\ DOMAIN items' = DOMAIN items \cup {i} /\ items'[i].status = status
      /\ \A j \in DOMAIN items : j # i => items'[j] = items[j]
  BY DEF Save
<1>2. \A j : j # i => (Terminal(j)' <=> Terminal(j))
  BY <1>1 DEF Terminal
<1>3. \A j : j = i => Settled(j)'
  <2>1. CASE status # "running"
    BY <1>1, <2>1 DEF Settled, Terminal, Statuses
  <2>2. CASE Holding(w)' /\ workers'[w].item = workers[w].item
    BY <2>2 DEF Settled
  <2>3. CASE PoolDone
    BY <2>3 DEF Settled, PoolDone
  <2> QED BY <2>1, <2>2, <2>3
<1>4. \A j : j # i /\ Settled(j) => Settled(j)'
  <2>1. \A v \in Workers : v # w => (Holding(v)' <=> Holding(v))
    BY DEF Holding
  <2> QED BY <1>2, <2>1 DEF Settled, PoolDone
<1>5. Active
  BY DEF Line, Phases
<1> QED
  BY <1>3, <1>4, <1>5 DEF Scanned, Active, AssemblyReady

LEMMA ScannedNext == Types /\ Line /\ Scanned /\ [Next]_vars => Scanned'
<1> SUFFICES ASSUME Types, Line, Scanned, [Next]_vars PROVE Scanned'
  OBVIOUS
<1> USE RunAssumption
<1>1. /\ Len(queue) \in Nat /\ DOMAIN queue = 1..Len(queue)
      /\ \A a \in DOMAIN queue : queue[a].item \in Index
      /\ next \in Nat
      /\ \A w \in Workers : Holding(w) => workers[w].item \in Nat
  BY QueueEntries
<1>2. ASSUME NEW j \in Job, Open(j) PROVE Scanned'
  BY <1>2 DEF Open, Scanned, Active, AssemblyReady
<1>3. CASE PrepareSnapshot
  BY <1>1, <1>3 DEF PrepareSnapshot, Scanned, Active, AssemblyReady, Index
<1>4. CASE Skip \/ Enqueue
  <2>1. /\ pc = "scanning" /\ UNCHANGED <<items, workers, pc, cancelled, workerError>>
        /\ next' = next + 1
    BY <1>4 DEF Skip, Enqueue, Scanning, durable
  <2>2. \A w \in Workers : Holding(w)' <=> Holding(w)
    BY <2>1 DEF Holding
  <2>3. \A a \in DOMAIN queue : a \in DOMAIN queue' /\ queue'[a] = queue[a]
    BY <1>1, <1>4 DEF Skip, Enqueue, Types, RunOK
  <2>4. \A i \in Index : Settled(i) => Settled(i)'
    BY <2>1, <2>2, <2>3 DEF Settled, Terminal, PoolDone
  <2>5. \A i \in Index : i = next => Settled(i)'
    <3>1. CASE Skip
      BY <2>1, <3>1 DEF Skip, Settled, Terminal
    <3>2. CASE Enqueue
      <4> DEFINE last == Len(queue) + 1
      <4>1. last \in DOMAIN queue' /\ queue'[last].item = next
        BY <1>1, <3>2 DEF Enqueue, Types, RunOK
      <4> QED BY <4>1 DEF Settled
    <3> QED BY <1>4, <3>1, <3>2
  <2>6. \A i \in Index : i < next' => i < next \/ i = next
    BY <1>1, <2>1 DEF Index
  <2> QED
    BY <2>1, <2>4, <2>5, <2>6 DEF Scanned, Active, AssemblyReady
<1>5. CASE StopScan \/ EndScan
  <2>1. /\ pc = "scanning" /\ pc' = "draining" /\ (scanError' \/ next = Items + 1)
        /\ UNCHANGED <<items, queue, workers, next, cancelled, workerError>>
    BY <1>1, <1>5 DEF StopScan, EndScan, Scanning, durable, Types, RunOK
  <2>2. \A i \in Index : Settled(i) => Settled(i)'
    BY <2>1 DEF Settled, Terminal, PoolDone, Holding
  <2> QED
    BY <2>1, <2>2 DEF Scanned, Active, AssemblyReady
<1>6. ASSUME NEW w \in Workers, Take(w) PROVE Scanned'
  <2>1. /\ UNCHANGED <<items, pc, next, cancelled, workerError, scanError>> /\ Active
        /\ queue # <<>> /\ queue' = Tail(queue)
        /\ workers[w].at = "waiting" /\ Holding(w)' /\ workers'[w].item = queue[1].item
        /\ \A v \in Workers : v # w => workers'[v] = workers[v]
    BY <1>6 DEF Take, durable, Active, Types, RunOK, Holding
  <2>2. \A v \in Workers : Holding(v) => Holding(v)' /\ workers'[v] = workers[v]
    BY <2>1 DEF Holding
  <2>3. \A a \in DOMAIN queue : a # 1 => a - 1 \in DOMAIN queue' /\ queue'[a - 1] = queue[a]
    BY <1>1, <2>1 DEF Types, RunOK
  <2>4. ASSUME NEW i \in Index, Settled(i) PROVE Settled(i)'
    <3>1. CASE Terminal(i) \/ PoolDone
      BY <2>1, <3>1 DEF Settled, Terminal, PoolDone
    <3>2. CASE \E a \in DOMAIN queue : queue[a].item = i
      <4>1. PICK a \in DOMAIN queue : queue[a].item = i
        BY <3>2
      <4>2. CASE a = 1
        BY <2>1, <4>1, <4>2 DEF Settled
      <4>3. CASE a # 1
        BY <2>3, <4>1, <4>3 DEF Settled
      <4> QED
        BY <4>2, <4>3
    <3>3. CASE \E v \in Workers : Holding(v) /\ workers[v].item = i
      BY <2>2, <3>3 DEF Settled
    <3> QED
      BY <2>4, <3>1, <3>2, <3>3 DEF Settled
  <2> QED
    BY <2>1, <2>4 DEF Scanned, Active, AssemblyReady
<1>7. ASSUME NEW w \in Workers, Yield(w) \/ Complete(w) \/ GiveUp(w) PROVE Scanned'
  <2>1. /\ Holding(w) /\ UNCHANGED <<pc, next, queue, cancelled, workerError, scanError>>
        /\ workers' = [workers EXCEPT ![w] = Waiting]
    BY <1>7 DEF Yield, Complete, GiveUp, At, Holding, Rest
  <2>2. \A v \in Workers : v # w => workers'[v] = workers[v]
    BY <2>1
  <2>3. \E status \in Statuses : /\ Save(workers[w].item, status, workers[w].attempts)
                                 /\ status # "running" \/ PoolDone
    BY <1>7 DEF Yield, Complete, GiveUp, Statuses
  <2> QED
    BY <2>1, <2>2, <2>3, SaveScanned
<1>8. ASSUME NEW w \in Workers, Call(w) \/ Reject(w) PROVE Scanned'
  <2>1. /\ Holding(w) /\ UNCHANGED <<pc, next, queue, cancelled, workerError, scanError>>
        /\ \E attempts : Save(workers[w].item, "running", attempts)
    BY <1>8 DEF Call, Reject, At, Holding
  <2>2. /\ Holding(w)' /\ workers'[w].item = workers[w].item
        /\ \A v \in Workers : v # w => workers'[v] = workers[v]
    BY <1>8 DEF Call, Reject, Types, RunOK, Held, Holding
  <2> QED
    BY <2>1, <2>2, SaveScanned DEF Statuses
<1>9. ASSUME NEW w \in Workers, FailSave(w) PROVE Scanned'
  <2>1. workerError' /\ UNCHANGED <<pc, next, scanError, items>>
    BY <1>9 DEF FailSave, durable
  <2>2. Holding(w) /\ Active
    BY <1>9 DEF FailSave, Holding, Line, Phases
  <2> QED
    BY <2>1, <2>2 DEF Scanned, Active, AssemblyReady, Settled, PoolDone
<1>10. CASE Finish
  <2>1. CASE pc' = "idle"
    BY <2>1 DEF Scanned, Active, AssemblyReady
  <2>2. CASE pc' = "assembling"
    <3>1. /\ pc = "draining" /\ ~workerError /\ ~scanError /\ ~cancelled
          /\ AllReturned /\ items' = items
      BY <1>10, <2>2 DEF Finish, durable
    <3>2. next = Items + 1 /\ \A i \in Index : Settled(i)
      BY <1>1, <3>1 DEF Scanned, Active, Index
    <3>3. queue = <<>> /\ \A w \in Workers : ~Holding(w)
      BY <3>1 DEF AllReturned, At, Line, Phases, Holding
    <3>4. \A i \in Index : Terminal(i)
      BY <1>1, <3>1, <3>2, <3>3 DEF Settled, PoolDone
    <3> QED
      BY <2>2, <3>1, <3>4 DEF Scanned, Active, AssemblyReady, Terminal
  <2> QED
    BY <1>10, <2>1, <2>2 DEF Finish
<1>11. CASE Assemble \/ Remove \/ Succeed \/ Die
  <2>1. pc' \in {"idle", "removing"}
    BY <1>11 DEF Assemble, Remove, Succeed, Die, process
  <2> QED
    BY <2>1 DEF Scanned, Active, AssemblyReady
<1>12. CASE Cancel
  <2>1. cancelled' /\ pc' = pc /\ Active /\ UNCHANGED <<next, scanError>>
    BY <1>12 DEF Cancel, Active
  <2> QED
    BY <2>1 DEF Scanned, Active, AssemblyReady, Settled, PoolDone
<1>13. CASE UNCHANGED vars
  BY <1>13 DEF vars, durable, process, Scanned, Active, AssemblyReady, Settled, PoolDone,
               Terminal, Holding
<1> QED
  BY <1>2, <1>3, <1>4, <1>5, <1>6, <1>7, <1>8, <1>9, <1>10, <1>11, <1>12, <1>13 DEF Next

(***************************************************************************)
(* Whose results are in the directory                                      *)
(***************************************************************************)
\* The state of item i was computed for job j.
MadeFor(i, j) == items[i].input = j.input /\ items[i].key = j.key

\* While nothing was torn, the directory's states are the manifest's; a file
\* that is being delivered holds what is left of them.
Owned ==
    /\ pc \notin {"idle", "removing"} => manifest = {job}
    /\ pc = "removing" => manifest \subseteq {job}
    /\ ~torn /\ pc # "idle" => \A i \in DOMAIN items : MadeFor(i, job)
    /\ ~torn /\ pc = "idle" => \A i \in DOMAIN items : \E j \in manifest : MadeFor(i, j)
    /\ OutputMatchesJob

Delivering ==
    pc = "removing" => \E file \in output :
        /\ output = {file} /\ DOMAIN file.records = Index
        /\ \A i \in DOMAIN items : Terminal(i) /\ items[i] = file.records[i]

LEMMA SaveOwned ==
    ASSUME Line, Owned, Delivering, NEW w \in Workers, Holding(w), NEW status, NEW attempts,
           Save(workers[w].item, status, attempts),
           UNCHANGED <<manifest, job, pc, torn, output>>
    PROVE  Owned' /\ Delivering'
<1>1. Active
  BY DEF Line, Phases
<1>2. \A j \in DOMAIN items' : MadeFor(j, job)' \/ (j \in DOMAIN items /\ items'[j] = items[j])
  BY DEF Save, MadeFor
<1> QED
  BY <1>1, <1>2 DEF Owned, Delivering, Active, OutputMatchesJob, MadeFor

LEMMA OwnedNext ==
    Types /\ Line /\ Scanned /\ Owned /\ Delivering /\ [Next]_vars => Owned' /\ Delivering'
<1> SUFFICES ASSUME Types, Line, Scanned, Owned, Delivering, [Next]_vars
             PROVE  Owned' /\ Delivering'
  OBVIOUS
<1>1. ASSUME NEW j \in Job, Open(j) PROVE Owned' /\ Delivering'
  BY <1>1 DEF Open, ghosts, Owned, Delivering, OutputMatchesJob, MadeFor
<1>2. CASE PrepareSnapshot \/ Skip \/ StopScan \/ EndScan \/ Enqueue \/ Cancel \/ Finish
  <2>1. UNCHANGED <<manifest, items, output, job, torn>>
        /\ pc \notin {"idle", "removing"} /\ pc' # "removing"
    BY <1>2 DEF PrepareSnapshot, Skip, StopScan, EndScan, Enqueue, Cancel, Finish, Scanning,
                durable, ghosts
  <2> QED
    BY <2>1 DEF Owned, Delivering, OutputMatchesJob, MadeFor
<1>3. ASSUME NEW w \in Workers, Take(w) \/ FailSave(w) PROVE Owned' /\ Delivering'
  <2>1. UNCHANGED <<manifest, items, output, job, pc, torn>>
    BY <1>3 DEF Take, FailSave, durable, ghosts
  <2> QED
    BY <2>1 DEF Owned, Delivering, OutputMatchesJob, MadeFor, Terminal
<1>4. ASSUME NEW w \in Workers,
             Yield(w) \/ Call(w) \/ Complete(w) \/ Reject(w) \/ GiveUp(w)
      PROVE  Owned' /\ Delivering'
  <2>1. /\ Holding(w) /\ UNCHANGED <<manifest, job, pc, torn, output>>
        /\ \E status, attempts : Save(workers[w].item, status, attempts)
    BY <1>4 DEF Yield, Call, Complete, Reject, GiveUp, At, Holding, ghosts
  <2> QED
    BY <2>1, SaveOwned
<1>5. CASE Assemble
  <2>1. UNCHANGED <<manifest, items, job, torn>> /\ pc = "assembling"
    BY <1>5 DEF Assemble, ghosts
  <2>2. CASE pc' = "idle"
    BY <2>1, <2>2 DEF Owned, Delivering, OutputMatchesJob, MadeFor
  <2>3. CASE output' = {[job |-> job, records |-> items]} /\ pc' = "removing"
    <3>1. \A i \in Index : i \in DOMAIN items /\ Terminal(i)
      BY <2>1 DEF Scanned, AssemblyReady, Terminal
    <3>2. DOMAIN items = Index
      BY <3>1 DEF Types, FilesOK
    <3>3. Delivering'
      <4> DEFINE file == [job |-> job, records |-> items]
      <4>1. output' = {file} /\ DOMAIN file.records = Index
        BY <2>3, <3>2
      <4>2. \A i \in DOMAIN items' : Terminal(i)' /\ items'[i] = file.records[i]
        BY <2>1, <3>1, <3>2 DEF Terminal
      <4> QED BY <4>1, <4>2 DEF Delivering, Index
    <3>4. OutputMatchesJob'
      <4>1. ~torn => \A i \in Index : items[i].input = job.input /\ items[i].key = job.key
        BY <2>1, <3>1 DEF Owned, MadeFor
      <4> QED BY <2>1, <2>3, <4>1 DEF OutputMatchesJob, OutputOf, Index
    <3> QED
      BY <2>1, <2>3, <3>3, <3>4 DEF Owned, MadeFor
  <2> QED
    BY <1>5, <2>2, <2>3 DEF Assemble
<1>6. CASE Remove
  <2>1. /\ UNCHANGED <<output, job, pc, torn>> /\ pc = "removing"
        /\ manifest' = manifest \/ manifest' = {}
        /\ \A i \in DOMAIN items' : i \in DOMAIN items /\ items'[i] = items[i]
    BY <1>6 DEF Remove, process
  <2>2. Owned'
    BY <2>1 DEF Owned, MadeFor, OutputMatchesJob, OutputOf, Index
  <2>3. Delivering'
    BY <2>1 DEF Delivering, Terminal, Index
  <2> QED BY <2>2, <2>3
<1>7. CASE Succeed
  <2>1. items' = <<>> /\ pc' = "idle"
    BY <1>7 DEF Succeed, durable
  <2> QED
    BY <2>1 DEF Owned, Delivering, OutputMatchesJob
<1>8. CASE Die
  <2>1. /\ UNCHANGED <<manifest, items>> /\ pc # "idle" /\ pc' = "idle"
        /\ ~torn' => ~torn /\ (pc = "removing" => manifest # {})
    BY <1>8 DEF Die, durable
  <2>2. ~torn' => manifest = {job}
    BY <2>1 DEF Owned
  <2> QED
    BY <2>1, <2>2 DEF Owned, Delivering, OutputMatchesJob, MadeFor
<1>9. CASE UNCHANGED vars
  BY <1>9 DEF vars, durable, process, ghosts, Owned, Delivering, OutputMatchesJob, OutputOf,
              MadeFor, Terminal, Index
<1> QED
  BY <1>1, <1>2, <1>3, <1>4, <1>5, <1>6, <1>7, <1>8, <1>9 DEF Next

(***************************************************************************)
(* The inductive invariant and what follows from it                        *)
(***************************************************************************)
IInv == Types /\ Line /\ Counted /\ Scanned /\ Owned /\ Delivering

LEMMA IInvInvariant == Spec => []IInv
<1>1. Init => IInv
  <2> SUFFICES ASSUME Init PROVE IInv
    OBVIOUS
  <2>1. Counted
    BY RunAssumption DEF Init, Counted, AttemptsOf, Index
  <2>2. Scanned /\ Owned /\ Delivering
    BY DEF Init, Scanned, Active, AssemblyReady, Owned, OutputMatchesJob, Delivering
  <2> QED
    BY <2>1, <2>2, TypesInit, LineInit DEF IInv
<1>2. IInv /\ [Next]_vars => IInv'
  BY TypesNext, LineNext, CountedNext, ScannedNext, OwnedNext DEF IInv
<1> QED
  BY <1>1, <1>2, PTL DEF Spec

\* However a job is interrupted and resumed, the processor is called for an item
\* at most MaxAttempts times, and for all items within --max-calls.
THEOREM CallsStayWithinBudget == Spec => []CallsWithinBudget
<1>1. IInv => CallsWithinBudget
  <2> SUFFICES ASSUME IInv, NEW i \in Index
               PROVE  /\ calls[i] <= MaxAttempts
                      /\ MaxCalls > 0 => calls[i] * Items <= MaxCalls
    BY DEF CallsWithinBudget
  <2>1. calls[i] \in Nat /\ Items \in Nat /\ MaxAttempts \in Nat /\ MaxCalls \in Nat
    BY RunAssumption DEF IInv, Types, CountsOK
  <2>2. AttemptsOf(i) \in 0..MaxAttempts
    BY <2>1 DEF IInv, Types, FilesOK, ItemState, AttemptsOf
  <2>3. calls[i] <= MaxAttempts
    BY <2>1, <2>2 DEF IInv, Counted
  <2>4. ASSUME MaxCalls > 0 PROVE calls[i] * Items <= MaxCalls
    <3>1. CASE calls[i] = 0
      BY <2>1, <2>4, <3>1
    <3>2. CASE calls[i] > 0
      <4>1. Items * MaxAttempts <= MaxCalls
        BY <2>4, <3>2 DEF IInv, Counted, BudgetFits
      <4>2. \A c, m, n \in Nat : c <= m => c * n <= n * m
        OBVIOUS
      <4>3. calls[i] * Items <= Items * MaxAttempts
        BY <2>1, <2>3, <4>2
      <4>4. \A x, y, z \in Int : x <= y /\ y <= z => x <= z
        OBVIOUS
      <4>5. calls[i] * Items \in Int /\ Items * MaxAttempts \in Int
        BY <2>1
      <4> QED
        BY <2>1, <4>1, <4>3, <4>4, <4>5
    <3> QED
      BY <2>1, <3>1, <3>2
  <2> QED
    BY <2>3, <2>4
<1> QED
  BY <1>1, IInvInvariant, PTL

\* When workers and scan have ended without an error every item is settled, so
\* assembleOutput never meets an unfinished item.
THEOREM AssemblyAlwaysReady == Spec => []AssemblyReady
<1>1. IInv => AssemblyReady
  BY DEF IInv, Scanned
<1> QED
  BY <1>1, IInvInvariant, PTL

\* Every record of an output just published was computed for the job that
\* publishes it, unless an earlier run died while it removed the directory.
THEOREM OutputAlwaysMatchesJob == Spec => []OutputMatchesJob
<1>1. IInv => OutputMatchesJob
  BY DEF IInv, Owned
<1> QED
  BY <1>1, IInvInvariant, PTL

(***************************************************************************)
(* The run implements the job's promise                                    *)
(***************************************************************************)
\* The results of a set of state files.
LEMMA ResultsFacts ==
    ASSUME NEW files
    PROVE  /\ DOMAIN ResultsOf(files)
                = {i \in DOMAIN files : files[i].status \in {"completed", "failed"}}
           /\ \A i \in DOMAIN ResultsOf(files) : ResultsOf(files)[i] = Result(files[i])
  BY DEF ResultsOf

\* Saving a state that is not terminal changes no result.
LEMMA SaveNoResult ==
    ASSUME NEW i, ~Terminal(i), NEW attempts, Save(i, "running", attempts)
    PROVE  ResultsOf(items') = ResultsOf(items)
<1>1. /\ DOMAIN items' = DOMAIN items \cup {i} /\ items'[i].status = "running"
      /\ \A j \in DOMAIN items : j # i => items'[j] = items[j]
  BY DEF Save
<1>2. {j \in DOMAIN items' : items'[j].status \in {"completed", "failed"}}
        = {j \in DOMAIN items : items[j].status \in {"completed", "failed"}}
  BY <1>1 DEF Terminal
<1> QED
  BY <1>1, <1>2 DEF ResultsOf

\* Saving a terminal state settles the item, with what was saved.
LEMMA SaveResult ==
    ASSUME Types, NEW i \in Index, ~Terminal(i), NEW status \in {"completed", "failed"},
           NEW attempts \in 0..MaxAttempts, Save(i, status, attempts), output' = output
    PROVE  Promise!Next
<1> DEFINE state == [input |-> job.input, status |-> status, attempts |-> attempts,
                     key |-> job.key]
           done(files) == {j \in DOMAIN files : files[j].status \in {"completed", "failed"}}
<1>1. /\ DOMAIN items' = DOMAIN items \cup {i} /\ items'[i] = state
      /\ \A j \in DOMAIN items : j # i => items'[j] = items[j]
  BY DEF Save
<1>2. Result(state) \in [ok : BOOLEAN, attempts : 0..MaxAttempts, key : Keys]
  BY DEF Result, Types, RunOK, Job
<1>3. i \notin done(items) /\ done(items') = done(items) \cup {i}
  BY <1>1 DEF Terminal
<1>4. ResultsOf(items') = [j \in done(items) \cup {i} |->
                            IF j = i THEN Result(state) ELSE ResultsOf(items)[j]]
  BY <1>1, <1>3, ResultsFacts DEF ResultsOf
<1>5. Promise!Settle(i, Result(state))
  BY <1>3, <1>4, ResultsFacts DEF Promise!Settle
<1> QED
  BY <1>2, <1>5 DEF Promise!Next

\* A resumable run, with every interruption, failed save and kill, implements
\* the promise of MapJob: an item is settled once, only a complete set of
\* results is delivered, and no result is forgotten before it was delivered.
THEOREM MapRunKeepsPromise == Spec => PromiseSpec
<1>1. Init => Promise!Init
  BY DEF Init, Promise!Init, ResultsOf
<1>2. IInv /\ [Next]_vars => [Promise!Next]_(Promise!vars)
  <2> SUFFICES ASSUME IInv, [Next]_vars PROVE [Promise!Next]_(Promise!vars)
    OBVIOUS
  <2>1. ASSUME ResultsOf(items') = ResultsOf(items), output' = output
        PROVE  UNCHANGED Promise!vars
    BY <2>1 DEF Promise!vars
  <2>2. ASSUME NEW w \in Workers, Yield(w) \/ Call(w) \/ Reject(w)
        PROVE  UNCHANGED Promise!vars
    <3>1. Holding(w) /\ output' = output
          /\ \E attempts : Save(workers[w].item, "running", attempts)
      BY <2>2 DEF Yield, Call, Reject, At, Holding
    <3>2. ~Terminal(workers[w].item)
      BY <3>1 DEF IInv, Line, HeldFresh, Fresh
    <3> QED
      BY <2>1, <3>1, <3>2, SaveNoResult
  <2>3. ASSUME NEW w \in Workers, Complete(w) \/ GiveUp(w) PROVE Promise!Next
    <3>1. Holding(w) /\ output' = output
          /\ \E status \in {"completed", "failed"} :
                Save(workers[w].item, status, workers[w].attempts)
      BY <2>3 DEF Complete, GiveUp, At, Holding
    <3>2. /\ ~Terminal(workers[w].item) /\ workers[w].item \in Index
          /\ workers[w].attempts \in 0..MaxAttempts
      BY <3>1 DEF IInv, Line, HeldFresh, Fresh, Types, RunOK, Held
    <3> QED
      BY <3>1, <3>2, SaveResult DEF IInv
  <2>4. CASE Assemble
    <3>1. CASE UNCHANGED output
      BY <2>1, <2>4, <3>1 DEF Assemble
    <3>2. CASE output' = {[job |-> job, records |-> items]}
      <4>1. pc = "assembling" /\ items' = items
        BY <2>4 DEF Assemble
      <4>2. DOMAIN ResultsOf(items) = Index
        BY <4>1, ResultsFacts DEF IInv, Scanned, AssemblyReady, Terminal, Types, FilesOK
      <4>3. {ResultsOf(file.records) : file \in output'} = {ResultsOf(items)}
        BY <3>2
      <4>4. Promise!Deliver
        BY <4>1, <4>2, <4>3 DEF Promise!Deliver
      <4> QED
        BY <4>4 DEF Promise!Next
    <3> QED
      BY <2>4, <3>1, <3>2 DEF Assemble
  <2>5. CASE Remove
    <3>1. output' = output /\ pc = "removing"
      BY <2>5 DEF Remove
    <3>2. CASE UNCHANGED items
      BY <2>1, <3>1, <3>2
    <3>3. ASSUME NEW i \in DOMAIN items, items' = [j \in DOMAIN items \ {i} |-> items[j]]
          PROVE  Promise!Next
      <4> DEFINE done(files) == {j \in DOMAIN files : files[j].status \in {"completed", "failed"}}
      <4>1. PICK file \in output :
              /\ output = {file} /\ DOMAIN file.records = Index
              /\ \A j \in DOMAIN items : Terminal(j) /\ items[j] = file.records[j]
        BY <3>1 DEF IInv, Delivering
      <4>2. i \in Index /\ i \in done(items) /\ done(items') = done(items) \ {i}
        BY <3>3, <4>1 DEF Terminal, IInv, Types, FilesOK
      <4>3. ResultsOf(items') = [j \in done(items) \ {i} |-> ResultsOf(items)[j]]
        BY <3>3, <4>2, ResultsFacts DEF ResultsOf
      <4>4. \A j \in done(items) : ResultsOf(file.records)[j] = ResultsOf(items)[j]
        <5>1. \A j \in done(items) : j \in done(file.records) /\ file.records[j] = items[j]
          BY <4>1 DEF IInv, Types, FilesOK
        <5>2. \A j \in done(items) : ResultsOf(items)[j] = Result(items[j])
          BY ResultsFacts
        <5>3. \A j \in done(file.records) : ResultsOf(file.records)[j] = Result(file.records[j])
          BY ResultsFacts
        <5> HIDE DEF done
        <5> QED BY <5>1, <5>2, <5>3
      <4>5. ResultsOf(file.records) \in {ResultsOf(f.records) : f \in output}
        BY <4>1
      <4>6. Promise!Forget(i)
        BY ZenonT(30), <3>1, <4>2, <4>3, <4>4, <4>5, ResultsFacts DEF Promise!Forget
      <4> QED
        BY <4>2, <4>6 DEF Promise!Next
    <3> QED
      BY <2>5, <3>2, <3>3 DEF Remove, Promise!vars
  <2>6. CASE UNCHANGED <<items, output>>
    BY <2>1, <2>6
  <2>7. ASSUME NEW w \in Workers, Take(w) \/ FailSave(w) PROVE UNCHANGED <<items, output>>
    BY <2>7 DEF Take, FailSave, durable
  <2>8. ASSUME (\E j \in Job : Open(j)) \/ PrepareSnapshot \/ Skip \/ Enqueue \/ StopScan
               \/ EndScan \/ Finish \/ Succeed \/ Cancel \/ Die \/ UNCHANGED vars
        PROVE  UNCHANGED <<items, output>>
    BY <2>8 DEF Open, PrepareSnapshot, Skip, Enqueue, StopScan, EndScan, Finish, Succeed,
                Cancel, Die, durable, vars
  <2> QED
    BY <2>2, <2>3, <2>4, <2>5, <2>6, <2>7, <2>8 DEF Next
<1> QED
  BY <1>1, <1>2, IInvInvariant, PTL DEF Spec, PromiseSpec, Promise!Spec
=============================================================================
