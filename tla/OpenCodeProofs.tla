---------------------------- MODULE OpenCodeProofs ----------------------------
(***************************************************************************)
(* Proofs about OpenCode for every length of a session, every limit of the *)
(* plugin and any number of faults.                                        *)
(***************************************************************************)
EXTENDS OpenCode, FiniteSetTheorems, TLAPS

(***************************************************************************)
(* The inductive invariant                                                 *)
(***************************************************************************)
\* A tool call has no first half.
Emitted == {event \in Event : event.half = "first" => event.role # "tool"}

Commands == Ids \cup {Doctor}

HostOK ==
    /\ session \in {"waiting", "prompting", "requesting", "answering", "silent", "spoken"}
    /\ transcript \in Seq(Roles) /\ Len(transcript) <= MaxMessages
    /\ session = "prompting" => Len(transcript) < MaxMessages
    /\ worded \subseteq Ids /\ ended \in [Ids -> Nat] /\ clock \in Nat
    /\ lost \subseteq Ids
    /\ faults \in 0..MaxFaults

StreamOK ==
    /\ stream \in Seq(Emitted)
    /\ connection \in {"open", "broken", "closed"}
    /\ failures \in 0..MaxReconnects
    /\ connection # "closed" => failures < MaxReconnects

BufferOK ==
    /\ buffered \in [{"user", "assistant"} -> SUBSET Ids]
    /\ \A role \in {"user", "assistant"} : Cardinality(buffered[role]) <= MaxTracked + 1

QueueOK ==
    /\ queue \in Seq(Commands) /\ Len(queue) <= MaxQueued
    /\ stored \in Seq(Ids)

HookOK ==
    /\ hook \in [at : {"idle", "draining", "drained", "timed out", "applying"},
                 ahead : 0..MaxQueued, due : SUBSET Ids]
    /\ plan \in [fresh : SUBSET Ids, covered : SUBSET Ids, unseen : SUBSET Ids]
    /\ elided \subseteq Ids

FlagOK == initialized \in BOOLEAN

Types == HostOK /\ StreamOK /\ BufferOK /\ QueueOK /\ HookOK /\ FlagOK

\* The last message of a role.
LastOf(i, role) ==
    /\ i \in DOMAIN transcript /\ transcript[i] = role
    /\ \A j \in DOMAIN transcript : j > i => transcript[j] # role

InTurn == session \in {"requesting", "answering", "silent", "spoken"}

InStep == session \in {"silent", "spoken"}

\* A model that answers has been prompted, and the host waits for the hook; all
\* messages of the array have ended but the step the model is at.
Hosting ==
    /\ InTurn => \E i \in Ids : LastOf(i, "user")
    /\ InStep => \E i \in Ids : LastOf(i, "assistant")
    /\ hook.at # "idle" => session = "requesting"
    /\ \A id \in Ids : ended[id] <= clock
    /\ \A id \in Ids : ended[id] > 0 <=> id \in DOMAIN transcript /\ ~(InStep /\ LastOf(id, "assistant"))

Completes(i) == i \in DOMAIN stream /\ stream[i].half = "last"

FirstHalf(id, role) == [id |-> id, role |-> role, half |-> "first"]

\* The first half of a message has been handled, comes before position n of the
\* stream, or was lost.
Begun(id, role, n) ==
    \/ id \in lost
    \/ role \in DOMAIN buffered /\ id \in buffered[role]
    \/ \E k \in DOMAIN stream : k < n /\ stream[k] = FirstHalf(id, role)

\* The stream has the ends of messages in the order in which they were completed,
\* each once and, if it has text, after its beginning.
EndsSent ==
    /\ \A i \in DOMAIN stream : Completes(i) =>
        /\ stream[i].id \in DOMAIN transcript /\ transcript[stream[i].id] = stream[i].role
        /\ ended[stream[i].id] > 0
        /\ stream[i].role # "tool" /\ stream[i].id \in worded => Begun(stream[i].id, stream[i].role, i)
    /\ \A i, j \in DOMAIN stream :
        i < j /\ Completes(i) /\ Completes(j) => ended[stream[i].id] < ended[stream[j].id]

\* What is about to end has begun, if it has text.
HalvesSent ==
    /\ session = "prompting" => Begun(NextId, "user", Len(stream) + 1)
    /\ session = "silent" => \A i \in Ids : LastOf(i, "assistant") => i \notin worded
    /\ session = "spoken" => \A i \in Ids : LastOf(i, "assistant") => Begun(i, "assistant", Len(stream) + 1)

Sent == EndsSent /\ HalvesSent

\* A step or a tool result, and a prompt.
IsReply(id) == id # Doctor /\ transcript[id] # "user"
IsPrompt(id) == id # Doctor /\ transcript[id] = "user"

Completed(id) == id \in DOMAIN transcript /\ ended[id] > 0

\* Store, queue and stream, one after the other, have messages behind a reply that
\* ended before it only if these are prompts: lost ones, or ones that are also
\* before the reply.
Ordered ==
    /\ \A i \in DOMAIN stored : Completed(stored[i])
    /\ \A i \in DOMAIN queue : queue[i] # Doctor => Completed(queue[i])
    /\ \A i, j \in DOMAIN stored : i < j /\ IsReply(stored[i]) =>
        \/ ended[stored[i]] < ended[stored[j]]
        \/ IsPrompt(stored[j]) /\ stored[j] \in lost
    /\ \A i \in DOMAIN stored : \A j \in DOMAIN queue :
        IsReply(stored[i]) /\ queue[j] # Doctor =>
        \/ ended[stored[i]] < ended[queue[j]]
        \/ IsPrompt(queue[j]) /\ queue[j] \in lost \cup ToSet(stored)
    /\ \A i, j \in DOMAIN queue :
        i < j /\ IsReply(queue[i]) /\ queue[j] # Doctor =>
        \/ ended[queue[i]] < ended[queue[j]]
        \/ IsPrompt(queue[j]) /\ queue[j] \in lost \cup ToSet(stored)
        \/ IsPrompt(queue[j]) /\ \E k \in DOMAIN queue : k < i /\ queue[k] = queue[j]
    /\ \A i \in DOMAIN stored : \A j \in DOMAIN stream :
        IsReply(stored[i]) /\ Completes(j) => ended[stored[i]] < ended[stream[j].id]
    /\ \A i \in DOMAIN queue : \A j \in DOMAIN stream :
        IsReply(queue[i]) /\ Completes(j) => ended[queue[i]] < ended[stream[j].id]

\* A message is past the stream, or between the host and the store.
Placed(id) == id \in ToSet(stored) \/ id \in lost \/ \E i \in DOMAIN queue : queue[i] = id

Somewhere(id) == Placed(id) \/ \E i \in DOMAIN stream : stream[i].id = id /\ Completes(i)

\* The hook has handed on the prompt of the turn, or the prompt is what ended last.
Handed ==
    \A p \in Ids :
        InTurn /\ Len(transcript) <= MaxTransform /\ LastOf(p, "user") /\ p \in worded =>
        \/ Placed(p)
        \/ /\ session = "requesting" /\ hook.at = "idle"
           /\ \A id \in Ids : id # p => ended[id] < ended[p]

\* Text has a place in the session, and all text that ended is somewhere.
Kept ==
    /\ worded \subseteq DOMAIN transcript \cup {NextId}
    /\ session # "prompting" => worded \subseteq DOMAIN transcript
    /\ \A id \in worded : ended[id] > 0 => Somewhere(id)

\* What the hook waits for is among the commands ahead of it until it is stored
\* or lost.
Draining ==
    /\ hook.at = "draining" =>
        /\ hook.ahead <= Len(queue)
        /\ hook.due \subseteq ToSet(stored) \cup lost \cup {queue[i] : i \in 1..hook.ahead}
    /\ DrainedBeforePlan

\* The plan that is being applied places every text of the array.
Planned ==
    /\ hook.at = "applying" =>
        \A id \in DOMAIN transcript : id \in worded =>
            id \in plan.fresh \cup plan.covered \cup plan.unseen \cup lost
    /\ \A id \in elided : ended[id] > 0
    /\ ElisionExcused

IInv == Types /\ Hosting /\ Sent /\ Ordered /\ Handed /\ Kept /\ Draining /\ Planned

(***************************************************************************)
(* What the helpers do                                                     *)
(***************************************************************************)
LEMMA LatestIs ==
    ASSUME NEW role, NEW i, LastOf(i, role), HostOK
    PROVE  Latest(role) = i
<1> DEFINE I == {j \in 1..Len(transcript) : transcript[j] = role}
<1>1. i \in I /\ \A j \in I : i >= j
  BY DEF LastOf, HostOK
<1>2. \A x \in I : (\A y \in I : x >= y) => x = i
  BY <1>1 DEF HostOK
<1>3. Max(I) = i
  BY <1>1, <1>2 DEF Max
<1>4. Latest(role) = IF I # {} THEN Max(I) ELSE 0
  BY DEF Latest, SelectLastInSeq
<1> QED
  BY <1>1, <1>3, <1>4

LEMMA LatestKept ==
    ASSUME transcript' = transcript
    PROVE  Step' = Step /\ Anchor' = Anchor /\ NextId' = NextId
  BY DEF Step, Anchor, Latest, NextId, SelectLastInSeq

\* The array before and after a message is put at its end.
LEMMA ArrayFacts ==
    ASSUME Types
    PROVE  /\ NextId = Len(transcript) + 1 /\ Len(transcript) \in Nat
           /\ DOMAIN transcript = 1..Len(transcript) /\ NextId \notin DOMAIN transcript
           /\ DOMAIN transcript \subseteq Ids
           /\ NextId <= MaxMessages => NextId \in Ids
           /\ \A role \in Roles : transcript' = Append(transcript, role) =>
                /\ transcript' \in Seq(Roles) /\ Len(transcript') = Len(transcript) + 1
                /\ DOMAIN transcript' = 1..(Len(transcript) + 1)
                /\ NextId \in DOMAIN transcript' /\ transcript'[NextId] = role
                /\ \A i \in DOMAIN transcript : i \in DOMAIN transcript' /\ transcript'[i] = transcript[i]
<1>1. /\ transcript \in Seq(Roles) /\ Len(transcript) \in Nat /\ NextId = Len(transcript) + 1
      /\ DOMAIN transcript = 1..Len(transcript) /\ Len(transcript) <= MaxMessages
  BY DEF Types, HostOK, NextId
<1>2. NextId \notin DOMAIN transcript /\ DOMAIN transcript \subseteq Ids
  BY <1>1, LimitAssumption DEF Ids
<1>3. NextId <= MaxMessages => NextId \in Ids
  BY <1>1, LimitAssumption DEF Ids
<1>4. ASSUME NEW role \in Roles, transcript' = Append(transcript, role)
      PROVE  /\ transcript' \in Seq(Roles) /\ Len(transcript') = Len(transcript) + 1
             /\ DOMAIN transcript' = 1..(Len(transcript) + 1)
             /\ NextId \in DOMAIN transcript' /\ transcript'[NextId] = role
             /\ \A i \in DOMAIN transcript : i \in DOMAIN transcript' /\ transcript'[i] = transcript[i]
  BY <1>1, <1>4
<1> QED
  BY <1>1, <1>2, <1>3, <1>4

LEMMA CompleteFacts ==
    ASSUME Types, NEW id \in Ids, Complete(id)
    PROVE  /\ ended' \in [Ids -> Nat] /\ clock' = clock + 1 /\ ended'[id] = clock + 1
           /\ \A x \in Ids : x # id => ended'[x] = ended[x]
  BY DEF Complete, Types, HostOK

LEMMA StepFacts ==
    ASSUME Types, Hosting, InStep
    PROVE  /\ Step \in Ids /\ Step \in DOMAIN transcript /\ transcript[Step] = "assistant"
           /\ ended[Step] = 0 /\ LastOf(Step, "assistant")
<1>1. PICK i \in Ids : LastOf(i, "assistant")
  BY DEF Hosting
<1>2. Step = i
  BY <1>1, LatestIs DEF Types, Step
<1>3. ~(ended[i] > 0) /\ ended[i] \in Nat
  BY <1>1 DEF Hosting, Types, HostOK
<1>4. ended[i] = 0
  BY <1>3
<1> QED
  BY <1>1, <1>2, <1>4 DEF LastOf

LEMMA PushFacts ==
    ASSUME NEW q \in Seq(Commands), Len(q) <= MaxQueued, NEW c \in Commands
    PROVE  /\ Push(q, c) \in Seq(Commands) /\ Len(Push(q, c)) <= MaxQueued
           /\ Len(q) <= Len(Push(q, c)) /\ Len(Push(q, c)) <= Len(q) + 1
           /\ \A i \in 1..Len(q) : Push(q, c)[i] = q[i]
           /\ Len(Push(q, c)) = Len(q) + 1 => Push(q, c)[Len(q) + 1] = c
  BY LimitAssumption DEF Push

\* The queue keeps its commands and may get a doctor and, last, the new command.
LEMMA IngestFacts ==
    ASSUME QueueOK, FlagOK, NEW id \in Ids, Ingest(id)
    PROVE  /\ queue' \in Seq(Commands) /\ Len(queue') <= MaxQueued
           /\ Len(queue) <= Len(queue')
           /\ \A i \in DOMAIN queue : i \in DOMAIN queue' /\ queue'[i] = queue[i]
           /\ \A i \in DOMAIN queue' : i \notin DOMAIN queue =>
                queue'[i] = Doctor \/ (queue'[i] = id /\ i = Len(queue') /\ id \in worded)
           /\ initialized' \in BOOLEAN
<1>1. Doctor \in Commands /\ queue \in Seq(Commands) /\ Len(queue) <= MaxQueued
  BY DEF Commands, QueueOK
<1> SUFFICES ASSUME id \in worded
             PROVE  /\ queue' \in Seq(Commands) /\ Len(queue') <= MaxQueued
                    /\ Len(queue) <= Len(queue')
                    /\ \A i \in DOMAIN queue : i \in DOMAIN queue' /\ queue'[i] = queue[i]
                    /\ \A i \in DOMAIN queue' : i \notin DOMAIN queue =>
                         queue'[i] = Doctor \/ (queue'[i] = id /\ i = Len(queue') /\ id \in worded)
                    /\ initialized' \in BOOLEAN
  BY <1>1 DEF Ingest, FlagOK
<1>2. PICK q \in Seq(Commands) :
        /\ queue' = Push(q, id) /\ initialized' = TRUE
        /\ Len(q) <= MaxQueued /\ Len(queue) <= Len(q)
        /\ \A i \in 1..Len(queue) : q[i] = queue[i]
        /\ \A i \in 1..Len(q) : i > Len(queue) => q[i] = Doctor
  <2>1. CASE initialized
    <3>1. queue' = Push(queue, id) /\ initialized' = TRUE
      BY <2>1 DEF Ingest
    <3> QED
      BY <1>1, <3>1
  <2>2. CASE ~initialized
    <3>1. queue' = Push(Push(queue, Doctor), id) /\ initialized' = TRUE
      BY <2>2 DEF Ingest
    <3>2. /\ Push(queue, Doctor) \in Seq(Commands) /\ Len(Push(queue, Doctor)) <= MaxQueued
          /\ Len(queue) <= Len(Push(queue, Doctor)) /\ Len(Push(queue, Doctor)) <= Len(queue) + 1
          /\ \A i \in 1..Len(queue) : Push(queue, Doctor)[i] = queue[i]
          /\ Len(Push(queue, Doctor)) = Len(queue) + 1 => Push(queue, Doctor)[Len(queue) + 1] = Doctor
      BY <1>1, PushFacts
    <3>3. \A i \in 1..Len(Push(queue, Doctor)) : i > Len(queue) => Push(queue, Doctor)[i] = Doctor
      BY <1>1, <3>2
    <3> QED
      BY <3>1, <3>2, <3>3
  <2> QED
    BY <2>1, <2>2
<1>3. id \in Commands
  BY DEF Commands
<1>4. /\ queue' \in Seq(Commands) /\ Len(queue') <= MaxQueued
      /\ Len(q) <= Len(queue') /\ Len(queue') <= Len(q) + 1
      /\ \A i \in 1..Len(q) : queue'[i] = q[i]
      /\ Len(queue') = Len(q) + 1 => queue'[Len(q) + 1] = id
  BY <1>2, <1>3, PushFacts
<1>5. Len(queue) \in Nat /\ Len(q) \in Nat /\ Len(queue') \in Nat
  BY <1>1, <1>4
<1>6. DOMAIN queue = 1..Len(queue) /\ DOMAIN queue' = 1..Len(queue')
  BY <1>1, <1>4
<1>7. Len(queue) <= Len(q) /\ Len(q) <= Len(queue') /\ Len(queue') <= Len(q) + 1
  BY <1>2, <1>4
<1>8. \A i \in 1..Len(queue) : q[i] = queue[i]
  BY <1>2
<1>9. \A i \in 1..Len(q) : i > Len(queue) => q[i] = Doctor
  BY <1>2
<1>10. \A i \in 1..Len(q) : queue'[i] = q[i]
  BY <1>4
<1>11. Len(queue') = Len(q) + 1 => queue'[Len(q) + 1] = id
  BY <1>4
<1>12. ASSUME NEW i \in 1..Len(queue'), i > Len(queue)
       PROVE  queue'[i] = Doctor \/ (queue'[i] = id /\ i = Len(queue'))
  <2>1. CASE i <= Len(q)
    BY <1>5, <1>9, <1>10, <1>12, <2>1
  <2>2. CASE i > Len(q)
    <3>1. i = Len(q) + 1 /\ Len(queue') = Len(q) + 1
      BY <1>5, <1>7, <2>2
    <3> QED
      BY <1>11, <3>1
  <2> QED
    BY <1>5, <2>1, <2>2
<1>13. \A i \in 1..Len(queue) : i \in 1..Len(queue') /\ queue'[i] = queue[i]
  BY <1>5, <1>7, <1>8, <1>10
<1>14. \A i \in DOMAIN queue' : i \notin DOMAIN queue =>
        queue'[i] = Doctor \/ (queue'[i] = id /\ i = Len(queue'))
  <2> TAKE i \in DOMAIN queue'
  <2> HAVE i \notin DOMAIN queue
  <2>1. i \in 1..Len(queue') /\ i \notin 1..Len(queue)
    BY <1>6
  <2>2. i \in 1..Len(queue') /\ i > Len(queue)
    BY <1>5, <2>1
  <2> QED
    BY <1>12, <2>2
<1>15. \A i \in DOMAIN queue : i \in DOMAIN queue' /\ queue'[i] = queue[i]
  BY <1>6, <1>13
<1>16. Len(queue) <= Len(queue')
  BY <1>5, <1>7
<1> QED
  BY <1>2, <1>4, <1>14, <1>15, <1>16

\* The store keeps its rows and may get the new one, if it was not there.
LEMMA StoreFacts ==
    ASSUME QueueOK, NEW id \in Commands, StoreId(id)
    PROVE  /\ stored' \in Seq(Ids) /\ Len(stored) <= Len(stored')
           /\ \A i \in DOMAIN stored : i \in DOMAIN stored' /\ stored'[i] = stored[i]
           /\ \A i \in DOMAIN stored' : i \notin DOMAIN stored =>
                i = Len(stored') /\ stored'[i] = id /\ id # Doctor /\ id \notin ToSet(stored)
           /\ ToSet(stored) \subseteq ToSet(stored')
           /\ id # Doctor => id \in ToSet(stored')
<1>1. CASE id = Doctor \/ Contains(stored, id)
  BY <1>1 DEF StoreId, QueueOK, Contains, ToSet
<1>2. CASE id # Doctor /\ ~Contains(stored, id)
  <2>1. stored' = Append(stored, id) /\ id \in Ids
    BY <1>2 DEF StoreId, Commands
  <2>2. /\ stored' \in Seq(Ids) /\ Len(stored') = Len(stored) + 1
        /\ stored'[Len(stored) + 1] = id
        /\ \A i \in 1..Len(stored) : stored'[i] = stored[i]
    BY <2>1 DEF QueueOK
  <2>3. id \notin ToSet(stored)
    BY <1>2 DEF Contains, ToSet, QueueOK
  <2>4. DOMAIN stored = 1..Len(stored) /\ DOMAIN stored' = 1..(Len(stored) + 1) /\ Len(stored) \in Nat
    BY <2>2 DEF QueueOK
  <2> QED
    BY <1>2, <2>2, <2>3, <2>4 DEF ToSet
<1> QED
  BY <1>1, <1>2

LEMMA HeadFacts ==
    ASSUME QueueOK, queue # <<>>
    PROVE  /\ Head(queue) \in Commands /\ Head(queue) = queue[1]
           /\ Tail(queue) \in Seq(Commands) /\ Len(Tail(queue)) = Len(queue) - 1
           /\ 1 \in DOMAIN queue /\ Len(queue) >= 1
           /\ \A i \in DOMAIN Tail(queue) : i + 1 \in DOMAIN queue /\ Tail(queue)[i] = queue[i + 1]
           /\ \A i \in DOMAIN queue : i > 1 => i - 1 \in DOMAIN Tail(queue) /\ Tail(queue)[i - 1] = queue[i]
  BY DEF QueueOK

LEMMA StreamFacts ==
    ASSUME StreamOK, stream # <<>>
    PROVE  /\ Head(stream) \in Emitted /\ Head(stream) = stream[1]
           /\ Tail(stream) \in Seq(Emitted) /\ Len(Tail(stream)) = Len(stream) - 1
           /\ 1 \in DOMAIN stream
           /\ \A i \in DOMAIN Tail(stream) : i + 1 \in DOMAIN stream /\ Tail(stream)[i] = stream[i + 1]
           /\ \A i \in DOMAIN stream : i > 1 => i - 1 \in DOMAIN Tail(stream) /\ Tail(stream)[i - 1] = stream[i]
  BY DEF StreamOK

LEMMA EmitFacts ==
    ASSUME StreamOK, lost \subseteq Ids, NEW id \in Ids, NEW role \in Roles,
           NEW half \in {"first", "last"}, half = "first" => role # "tool",
           Emit(id, role, half)
    PROVE  /\ stream' \in Seq(Emitted) /\ lost' \subseteq Ids /\ lost \subseteq lost'
           /\ \A i \in DOMAIN stream : i \in DOMAIN stream' /\ stream'[i] = stream[i]
           /\ \A i \in DOMAIN stream' : i \notin DOMAIN stream =>
                i = Len(stream) + 1 /\ stream'[i] = [id |-> id, role |-> role, half |-> half]
           /\ id \in lost' \/ (Len(stream) + 1 \in DOMAIN stream' /\ Len(stream') = Len(stream) + 1)
           /\ Len(stream') >= Len(stream)
<1>1. [id |-> id, role |-> role, half |-> half] \in Emitted
  BY DEF Emitted, Event
<1>2. CASE connection = "open"
  BY <1>1, <1>2 DEF Emit, StreamOK
<1>3. CASE connection # "open"
  BY <1>3 DEF Emit, StreamOK
<1> QED
  BY <1>2, <1>3

(***************************************************************************)
(* The host                                                                *)
(***************************************************************************)
\* The first half of a message that has not ended is emitted.
Beginning(id, role) ==
    /\ id \in Ids /\ role \in {"user", "assistant"} /\ ended[id] = 0
    /\ Emit(id, role, "first")
    /\ UNCHANGED <<transcript, ended, clock>>
    /\ worded' \in {worded, worded \cup {id}}

\* A message ends, which may put it into the array.
Completing(id, role) ==
    /\ id \in Ids /\ role \in Roles /\ ended[id] = 0
    /\ Complete(id) /\ Emit(id, role, "last")
    /\ \/ transcript' = transcript /\ id \in DOMAIN transcript /\ transcript[id] = role
       \/ transcript' = Append(transcript, role) /\ id = NextId
    /\ worded' \in {worded, worded \cup {id}}

LEMMA FreshId ==
    ASSUME Types, Hosting, NextId <= MaxMessages
    PROVE  NextId \in Ids /\ ended[NextId] = 0
<1>1. NextId \in Ids /\ NextId \notin DOMAIN transcript
  BY ArrayFacts
<1>2. ~(ended[NextId] > 0) /\ ended[NextId] \in Nat
  BY <1>1 DEF Hosting, Types, HostOK
<1> QED
  BY <1>1, <1>2

LEMMA HostKinds ==
    ASSUME Types, Hosting, Host
    PROVE  /\ UNCHANGED <<connection, failures, buffered, initialized, queue, stored, hook, plan, elided, faults>>
           /\ hook.at = "idle"
           /\ \/ \E id \in Ids, role \in {"user", "assistant"} : Beginning(id, role)
              \/ \E id \in Ids, role \in Roles : Completing(id, role)
              \/ StartStep
<1>1. UNCHANGED <<connection, failures, buffered, initialized, queue, stored, hook, plan, elided, faults>>
  BY DEF Host, BeginPrompt, EndPrompt, StartStep, SayText, EndTool, EndStep, Outside, hookVars
<1>2. hook.at = "idle"
  BY DEF Host, BeginPrompt, EndPrompt, StartStep, SayText, EndTool, EndStep, Hosting
<1>3. CASE BeginPrompt
  <2>1. NextId \in Ids /\ ended[NextId] = 0
    BY <1>3, FreshId DEF BeginPrompt
  <2>2. Beginning(NextId, "user")
    BY <1>3, <2>1 DEF BeginPrompt, Beginning
  <2> QED
    BY <1>1, <1>2, <2>1, <2>2
<1>4. CASE EndPrompt
  <2>1. NextId <= MaxMessages
    BY <1>4, LimitAssumption DEF EndPrompt, Types, HostOK, NextId
  <2>2. NextId \in Ids /\ ended[NextId] = 0
    BY <2>1, FreshId
  <2>3. Completing(NextId, "user") /\ "user" \in Roles
    BY <1>4, <2>2 DEF EndPrompt, Completing, Roles
  <2> QED
    BY <1>1, <1>2, <2>2, <2>3
<1>5. CASE SayText
  <2>1. Step \in Ids /\ ended[Step] = 0
    BY <1>5, StepFacts DEF SayText, InStep
  <2>2. Beginning(Step, "assistant")
    BY <1>5, <2>1 DEF SayText, Beginning
  <2> QED
    BY <1>1, <1>2, <2>1, <2>2
<1>6. CASE EndTool
  <2>1. NextId \in Ids /\ ended[NextId] = 0
    BY <1>6, FreshId DEF EndTool
  <2>2. Completing(NextId, "tool") /\ "tool" \in Roles
    BY <1>6, <2>1 DEF EndTool, Completing, Roles
  <2> QED
    BY <1>1, <1>2, <2>1, <2>2
<1>7. CASE EndStep
  <2>1. Step \in Ids /\ ended[Step] = 0 /\ Step \in DOMAIN transcript /\ transcript[Step] = "assistant"
    BY <1>7, StepFacts DEF EndStep, InStep
  <2>2. Completing(Step, "assistant") /\ "assistant" \in Roles
    BY <1>7, <2>1 DEF EndStep, Completing, Roles
  <2> QED
    BY <1>1, <1>2, <2>1, <2>2
<1> QED
  BY <1>1, <1>2, <1>3, <1>4, <1>5, <1>6, <1>7 DEF Host

\* What a step of the host leaves as it was, and what is new on the stream.
LEMMA HostShape ==
    ASSUME Types, Hosting, Host
    PROVE  /\ stream' \in Seq(Emitted) /\ lost' \subseteq Ids /\ lost \subseteq lost'
           /\ ended' \in [Ids -> Nat] /\ clock' \in Nat /\ clock' >= clock
           /\ worded' \subseteq Ids /\ transcript' \in Seq(Roles)
           /\ \A i \in DOMAIN transcript : i \in DOMAIN transcript' /\ transcript'[i] = transcript[i]
           /\ \A i \in DOMAIN stream : i \in DOMAIN stream' /\ stream'[i] = stream[i]
           /\ \A i \in DOMAIN stream' : i \notin DOMAIN stream => i = Len(stream) + 1
           /\ \A id \in Ids : ended[id] > 0 => ended'[id] = ended[id]
           /\ \A id \in Ids : ended[id] = 0 => ended'[id] \in {0, clock + 1}
           /\ \A id \in worded' : id \in worded \/ ended[id] = 0
           /\ \A i \in DOMAIN stream' : i \notin DOMAIN stream /\ stream'[i].half = "last" =>
                /\ ended[stream'[i].id] = 0 /\ ended'[stream'[i].id] = clock + 1
                /\ stream'[i].id \in DOMAIN transcript' /\ transcript'[stream'[i].id] = stream'[i].role
           /\ \A id \in Ids : ended'[id] # ended[id] =>
                \/ id \in lost'
                \/ \E i \in DOMAIN stream' : stream'[i].id = id /\ stream'[i].half = "last"
<1>1. /\ stream \in Seq(Emitted) /\ Len(stream) \in Nat /\ DOMAIN stream = 1..Len(stream)
      /\ transcript \in Seq(Roles) /\ ended \in [Ids -> Nat] /\ clock \in Nat /\ lost \subseteq Ids
      /\ worded \subseteq Ids
  BY DEF Types, StreamOK, HostOK
<1>2. CASE \E id \in Ids, role \in {"user", "assistant"} : Beginning(id, role)
  <2>1. PICK id \in Ids, role \in {"user", "assistant"} : Beginning(id, role)
    BY <1>2
  <2>2. /\ Emit(id, role, "first") /\ ended[id] = 0 /\ UNCHANGED <<transcript, ended, clock>>
        /\ worded' \in {worded, worded \cup {id}}
    BY <2>1 DEF Beginning
  <2>3. role \in Roles /\ role # "tool"
    BY DEF Roles
  <2>4. /\ stream' \in Seq(Emitted) /\ lost' \subseteq Ids /\ lost \subseteq lost'
        /\ \A i \in DOMAIN stream : i \in DOMAIN stream' /\ stream'[i] = stream[i]
        /\ \A i \in DOMAIN stream' : i \notin DOMAIN stream =>
             i = Len(stream) + 1 /\ stream'[i] = [id |-> id, role |-> role, half |-> "first"]
    BY <2>2, <2>3, EmitFacts DEF Types, HostOK
  <2>5. \A i \in DOMAIN stream' : i \notin DOMAIN stream => stream'[i].half = "first"
    BY <2>4
  <2> QED
    BY <1>1, <2>2, <2>4, <2>5
<1>3. CASE \E id \in Ids, role \in Roles : Completing(id, role)
  <2>1. PICK id \in Ids, role \in Roles : Completing(id, role)
    BY <1>3
  <2>2. /\ Emit(id, role, "last") /\ ended[id] = 0 /\ Complete(id)
        /\ worded' \in {worded, worded \cup {id}}
    BY <2>1 DEF Completing
  <2>3. /\ ended' \in [Ids -> Nat] /\ clock' = clock + 1 /\ ended'[id] = clock + 1
        /\ \A x \in Ids : x # id => ended'[x] = ended[x]
    BY <2>2, CompleteFacts
  <2>4. /\ stream' \in Seq(Emitted) /\ lost' \subseteq Ids /\ lost \subseteq lost'
        /\ \A i \in DOMAIN stream : i \in DOMAIN stream' /\ stream'[i] = stream[i]
        /\ \A i \in DOMAIN stream' : i \notin DOMAIN stream =>
             i = Len(stream) + 1 /\ stream'[i] = [id |-> id, role |-> role, half |-> "last"]
        /\ id \in lost' \/ (Len(stream) + 1 \in DOMAIN stream' /\ Len(stream') = Len(stream) + 1)
    BY <2>2, EmitFacts DEF Types, HostOK
  <2>5. /\ transcript' \in Seq(Roles) /\ id \in DOMAIN transcript' /\ transcript'[id] = role
        /\ \A i \in DOMAIN transcript : i \in DOMAIN transcript' /\ transcript'[i] = transcript[i]
    BY <1>1, <2>1, ArrayFacts DEF Completing
  <2>6. \A i \in DOMAIN stream' : i \notin DOMAIN stream =>
          stream'[i].id = id /\ stream'[i].role = role /\ stream'[i].half = "last"
    BY <2>4
  <2>7. id \in lost' \/ \E i \in DOMAIN stream' : stream'[i].id = id /\ stream'[i].half = "last"
    <3>1. Len(stream) + 1 \notin DOMAIN stream
      BY <1>1
    <3> QED
      BY <2>4, <2>6, <3>1
  <2>8. \A i \in DOMAIN stream' : i \notin DOMAIN stream /\ stream'[i].half = "last" =>
          /\ ended[stream'[i].id] = 0 /\ ended'[stream'[i].id] = clock + 1
          /\ stream'[i].id \in DOMAIN transcript' /\ transcript'[stream'[i].id] = stream'[i].role
    BY <2>2, <2>3, <2>5, <2>6
  <2>9. \A x \in Ids : ended'[x] # ended[x] => x = id
    BY <2>3
  <2>10. /\ \A x \in Ids : ended[x] > 0 => ended'[x] = ended[x]
         /\ \A x \in Ids : ended[x] = 0 => ended'[x] \in {0, clock + 1}
         /\ \A x \in worded' : x \in worded \/ ended[x] = 0
         /\ worded' \subseteq Ids /\ clock' \in Nat /\ clock' >= clock
    BY <1>1, <2>2, <2>3
  <2>11. \A x \in Ids : ended'[x] # ended[x] =>
           \/ x \in lost'
           \/ \E i \in DOMAIN stream' : stream'[i].id = x /\ stream'[i].half = "last"
    BY <2>7, <2>9
  <2>12. \A i \in DOMAIN stream' : i \notin DOMAIN stream => i = Len(stream) + 1
    BY <2>4
  <2> QED
    BY <2>3, <2>4, <2>5, <2>8, <2>10, <2>11, <2>12
<1>4. CASE StartStep
  <2>1. /\ transcript' = Append(transcript, "assistant") /\ "assistant" \in Roles
        /\ UNCHANGED <<worded, ended, clock, stream, lost>>
    BY <1>4 DEF StartStep, Roles
  <2>2. /\ transcript' \in Seq(Roles)
        /\ \A i \in DOMAIN transcript : i \in DOMAIN transcript' /\ transcript'[i] = transcript[i]
    BY <2>1, ArrayFacts
  <2> QED
    BY <1>1, <2>1, <2>2
<1> QED
  BY <1>2, <1>3, <1>4, HostKinds

(***************************************************************************)
(* Types                                                                   *)
(***************************************************************************)
LEMMA HostTypes == ASSUME Types, Hosting, Host PROVE Types'
<1>1. UNCHANGED <<connection, failures, buffered, initialized, queue, stored, hook, plan, elided, faults>>
  BY HostKinds
<1>2. /\ stream' \in Seq(Emitted) /\ lost' \subseteq Ids
      /\ ended' \in [Ids -> Nat] /\ clock' \in Nat
      /\ worded' \subseteq Ids /\ transcript' \in Seq(Roles)
  BY HostShape
<1>3. /\ session' \in {"waiting", "prompting", "requesting", "answering", "silent", "spoken"}
      /\ session' = "prompting" => BeginPrompt
  BY DEF Host, BeginPrompt, EndPrompt, StartStep, SayText, EndTool, EndStep, Types, HostOK
<1>4. Len(transcript') <= MaxMessages
  <2>1. CASE transcript' = transcript
    BY <2>1 DEF Types, HostOK
  <2>2. CASE transcript' # transcript
    <3>1. PICK role \in Roles : transcript' = Append(transcript, role) /\ Len(transcript) < MaxMessages
      <4>1. NextId <= MaxMessages => Len(transcript) < MaxMessages
        BY ArrayFacts, LimitAssumption
      <4> QED
        BY <2>2, <4>1 DEF Host, BeginPrompt, EndPrompt, StartStep, SayText, EndTool, EndStep, Types, HostOK, Roles
    <3>2. Len(transcript') = Len(transcript) + 1 /\ Len(transcript) \in Nat
      BY <3>1, ArrayFacts
    <3> QED
      BY <3>1, <3>2, LimitAssumption
  <2> QED
    BY <2>1, <2>2
<1>5. session' = "prompting" => Len(transcript') < MaxMessages
  <2>1. session' = "prompting" => transcript' = transcript /\ NextId <= MaxMessages
    BY <1>3 DEF BeginPrompt
  <2>2. NextId = Len(transcript) + 1 /\ Len(transcript) \in Nat
    BY ArrayFacts
  <2>3. session' = "prompting" => Len(transcript') = Len(transcript) /\ Len(transcript) < MaxMessages
    BY <2>1, <2>2, LimitAssumption
  <2> QED
    BY <2>3
<1>6. HostOK'
  BY <1>1, <1>2, <1>3, <1>4, <1>5 DEF Types, HostOK
<1>7. StreamOK'
  BY <1>1, <1>2 DEF Types, StreamOK
<1>8. BufferOK' /\ QueueOK' /\ HookOK' /\ FlagOK'
  BY <1>1 DEF Types, BufferOK, QueueOK, HookOK, FlagOK
<1> QED
  BY <1>6, <1>7, <1>8 DEF Types

\* A buffer stays finite and within its limit.
LEMMA TrackFacts ==
    ASSUME NEW ids \in SUBSET Ids, Cardinality(ids) <= MaxTracked + 1, NEW id \in Ids
    PROVE  Track(ids, id) \in SUBSET Ids /\ Cardinality(Track(ids, id)) <= MaxTracked + 1
<1>1. IsFiniteSet(Ids)
  BY LimitAssumption, FS_Interval DEF Ids
<1>2. IsFiniteSet(ids) /\ Cardinality(ids) \in Nat
  BY <1>1, FS_Subset, FS_CardinalityType
<1>3. CASE Cardinality(ids) > MaxTracked
  <2>1. Track(ids, id) = {id}
    BY <1>3 DEF Track
  <2>2. Cardinality({id}) = 1
    BY FS_Singleton
  <2>3. 1 <= MaxTracked + 1
    BY LimitAssumption
  <2> QED
    BY <2>1, <2>2, <2>3
<1>4. CASE ~(Cardinality(ids) > MaxTracked)
  <2>1. Track(ids, id) = ids \cup {id}
    BY <1>4 DEF Track
  <2>2. Cardinality(ids \cup {id}) = Cardinality(ids) \/ Cardinality(ids \cup {id}) = Cardinality(ids) + 1
    BY <1>2, FS_AddElement
  <2> QED
    BY <1>2, <1>4, <2>1, <2>2, LimitAssumption
<1> QED
  BY <1>3, <1>4

LEMMA UntrackFacts ==
    ASSUME NEW ids \in SUBSET Ids, Cardinality(ids) <= MaxTracked + 1, NEW id
    PROVE  ids \ {id} \in SUBSET Ids /\ Cardinality(ids \ {id}) <= MaxTracked + 1
<1>1. IsFiniteSet(Ids)
  BY LimitAssumption, FS_Interval DEF Ids
<1>2. IsFiniteSet(ids)
  BY <1>1, FS_Subset
<1>3. IsFiniteSet(ids \ {id}) /\ Cardinality(ids \ {id}) <= Cardinality(ids)
  BY <1>2, FS_Subset
<1>4. Cardinality(ids) \in Nat /\ Cardinality(ids \ {id}) \in Nat
  BY <1>2, <1>3, FS_CardinalityType
<1> QED
  BY <1>3, <1>4, LimitAssumption

LEMMA HandleFirstTypes == ASSUME Types, HandleFirst PROVE Types'
<1> DEFINE event == Head(stream)
<1>1. stream # <<>> /\ stream' = Tail(stream) /\ failures' = 0 /\ connection = "open"
  BY DEF HandleFirst, Receive
<1>2. event \in Emitted /\ Tail(stream) \in Seq(Emitted)
  BY <1>1, StreamFacts DEF Types
<1>3. /\ event.half = "first"
      /\ buffered' = [buffered EXCEPT ![event.role] = Track(@, event.id)]
      /\ lost' = lost \cup (buffered[event.role] \ buffered'[event.role])
  BY DEF HandleFirst
<1>4. event.id \in Ids /\ event.role \in {"user", "assistant"}
  BY <1>2, <1>3 DEF Emitted, Event, Roles
<1>5. /\ Track(buffered[event.role], event.id) \in SUBSET Ids
      /\ Cardinality(Track(buffered[event.role], event.id)) <= MaxTracked + 1
  BY <1>4, TrackFacts DEF Types, BufferOK
<1>6. BufferOK'
  BY <1>3, <1>4, <1>5 DEF Types, BufferOK
<1>7. HostOK'
  BY <1>3, <1>4 DEF HandleFirst, sessionVars, Types, HostOK, BufferOK
<1>8. StreamOK'
  BY <1>1, <1>2, LimitAssumption DEF HandleFirst, Types, StreamOK
<1>9. QueueOK' /\ HookOK' /\ FlagOK'
  BY DEF HandleFirst, hookVars, Types, QueueOK, HookOK, FlagOK
<1> QED
  BY <1>6, <1>7, <1>8, <1>9 DEF Types

LEMMA HandleLastTypes == ASSUME Types, HandleLast PROVE Types'
<1> DEFINE event == Head(stream)
<1>1. stream # <<>> /\ stream' = Tail(stream) /\ failures' = 0 /\ connection = "open"
  BY DEF HandleLast, Receive
<1>2. event \in Emitted /\ Tail(stream) \in Seq(Emitted)
  BY <1>1, StreamFacts DEF Types
<1>3. event.id \in Ids
  BY <1>2 DEF Emitted, Event
<1>4. BufferOK'
  <2>1. buffered' = [role \in {"user", "assistant"} |-> buffered[role] \ {event.id}]
    BY DEF HandleLast, Types, BufferOK
  <2>2. \A role \in {"user", "assistant"} :
          /\ buffered[role] \ {event.id} \in SUBSET Ids
          /\ Cardinality(buffered[role] \ {event.id}) <= MaxTracked + 1
    BY UntrackFacts DEF Types, BufferOK
  <2> QED
    BY <2>1, <2>2 DEF BufferOK
<1>5. StreamOK'
  BY <1>1, <1>2, LimitAssumption DEF HandleLast, Types, StreamOK
<1>6. HookOK'
  BY DEF HandleLast, hookVars, Types, HookOK
<1>7. UNCHANGED <<stored, session, transcript, worded, ended, clock, faults>>
  BY DEF HandleLast, sessionVars
<1>8. CASE Whole(event)
  <2>1. Ingest(event.id) /\ lost' \in {lost, lost \cup {event.id}}
    BY <1>8 DEF HandleLast
  <2>2. queue' \in Seq(Commands) /\ Len(queue') <= MaxQueued /\ initialized' \in BOOLEAN
    BY <1>3, <2>1, IngestFacts DEF Types
  <2> QED
    BY <1>3, <1>4, <1>5, <1>6, <1>7, <2>1, <2>2 DEF Types, HostOK, QueueOK, FlagOK
<1>9. CASE ~Whole(event)
  <2>1. UNCHANGED <<queue, initialized, lost>>
    BY <1>9 DEF HandleLast
  <2> QED
    BY <1>4, <1>5, <1>6, <1>7, <2>1 DEF Types, HostOK, QueueOK, FlagOK
<1> QED
  BY <1>8, <1>9

LEMMA ConnectionTypes == ASSUME Types, Disconnect \/ Reconnect PROVE Types'
<1>1. CASE Disconnect
  <2>1. \A i \in DOMAIN stream : stream[i].id \in Ids
    BY DEF Types, StreamOK, Emitted, Event
  <2>2. HostOK'
    BY <1>1, <2>1, LimitAssumption DEF Disconnect, Fault, sessionVars, Types, HostOK
  <2>3. failures \in Nat /\ failures < MaxReconnects /\ failures' = failures + 1
    BY <1>1, LimitAssumption DEF Disconnect, Types, StreamOK
  <2>4. /\ connection' = IF failures' < MaxReconnects THEN "broken" ELSE "closed"
        /\ stream' = <<>>
    BY <1>1 DEF Disconnect
  <2>5. StreamOK'
    BY <2>3, <2>4, LimitAssumption DEF StreamOK
  <2> QED
    BY <1>1, <2>2, <2>5
    DEF Disconnect, sessionVars, hookVars, Types, BufferOK, QueueOK, HookOK, FlagOK
<1>2. CASE Reconnect
  BY <1>2 DEF Reconnect, sessionVars, hookVars, Types, HostOK, StreamOK, BufferOK, QueueOK, HookOK, FlagOK
<1> QED
  BY <1>1, <1>2

LEMMA AdvanceFacts ==
    ASSUME HookOK, Advance, UNCHANGED <<plan, elided>>
    PROVE  HookOK'
<1>1. hook.ahead \in 0..MaxQueued /\ MaxQueued \in Nat
  BY LimitAssumption DEF HookOK
<1>2. (IF hook.ahead > 0 THEN hook.ahead - 1 ELSE 0) \in 0..MaxQueued
  BY <1>1
<1> QED
  BY <1>2 DEF Advance, HookOK

LEMMA RunTypes == ASSUME Types, Run \/ RunFails PROVE Types'
<1>1. queue # <<>> /\ queue' = Tail(queue) /\ Advance
  BY DEF Run, RunFails
<1>2. Head(queue) \in Commands /\ Tail(queue) \in Seq(Commands) /\ Len(Tail(queue)) = Len(queue) - 1
  BY <1>1, HeadFacts DEF Types
<1>3. stored' \in Seq(Ids)
  <2>1. StoreId(Head(queue)) \/ stored' = stored
    BY DEF Run, RunFails
  <2> QED
    BY <1>2, <2>1, StoreFacts DEF Types, QueueOK
<1>4. QueueOK'
  BY <1>1, <1>2, <1>3, LimitAssumption DEF Types, QueueOK
<1>5. HookOK'
  BY <1>1, AdvanceFacts DEF Run, RunFails, Types
<1>6. HostOK'
  <2>1. UNCHANGED <<session, transcript, worded, ended, clock>>
    BY DEF Run, RunFails, sessionVars
  <2>2. lost' \subseteq Ids
    BY <1>2 DEF Run, RunFails, Types, HostOK, Commands
  <2>3. faults' \in 0..MaxFaults
    BY LimitAssumption DEF Run, RunFails, Fault, Types, HostOK
  <2> QED
    BY <2>1, <2>2, <2>3 DEF Types, HostOK
<1>7. StreamOK' /\ BufferOK' /\ FlagOK'
  BY DEF Run, RunFails, eventVars, Types, StreamOK, BufferOK, FlagOK
<1> QED
  BY <1>4, <1>5, <1>6, <1>7 DEF Types

\* The hook finds the prompt it is asked about.
LEMMA AnchorFacts ==
    ASSUME Types, Hosting, InTurn
    PROVE  /\ Anchor \in Ids /\ Anchor \in DOMAIN transcript /\ transcript[Anchor] = "user"
           /\ LastOf(Anchor, "user")
<1>1. PICK i \in Ids : LastOf(i, "user")
  BY DEF Hosting
<1>2. Anchor = i
  BY <1>1, LatestIs DEF Types, Anchor
<1> QED
  BY <1>1, <1>2 DEF LastOf

LEMMA BeginHookTypes == ASSUME Types, Hosting, BeginHook PROVE Types'
<1>1. Anchor \in Ids
  BY AnchorFacts DEF BeginHook, InTurn
<1>2. Ingest(Anchor)
  BY DEF BeginHook
<1>3. queue' \in Seq(Commands) /\ Len(queue') <= MaxQueued /\ initialized' \in BOOLEAN
  BY <1>1, <1>2, IngestFacts DEF Types
<1>4. QueueOK'
  BY <1>3 DEF BeginHook, Types, QueueOK
<1>5. Len(queue') \in 0..MaxQueued /\ ToSet(queue') \ {Doctor} \in SUBSET Ids
  <2>1. Len(queue') \in 0..MaxQueued
    BY <1>3, LimitAssumption
  <2>2. \A i \in DOMAIN queue' : queue'[i] \in Commands
    BY <1>3
  <2> QED
    BY <2>1, <2>2 DEF ToSet, Commands
<1>6. HookOK'
  <2>1. hook' = [at |-> "draining", ahead |-> Len(queue'), due |-> ToSet(queue') \ {Doctor}]
    BY DEF BeginHook
  <2>2. hook' \in [at : {"idle", "draining", "drained", "timed out", "applying"},
                  ahead : 0..MaxQueued, due : SUBSET Ids]
    BY <1>5, <2>1
  <2>3. plan' = plan /\ elided' = elided
    BY DEF BeginHook
  <2> QED
    BY <2>2, <2>3 DEF Types, HookOK
<1>7. HostOK'
  BY <1>1 DEF BeginHook, sessionVars, Types, HostOK
<1>8. StreamOK' /\ BufferOK'
  BY DEF BeginHook, eventVars, Types, StreamOK, BufferOK
<1> QED
  BY <1>3, <1>4, <1>6, <1>7, <1>8 DEF Types, FlagOK

LEMMA HookTypes ==
    ASSUME Types, SkipHook \/ Drain \/ DrainTimeout \/ LoadPlan \/ PlanFails \/ ApplyPlan
    PROVE  Types'
<1>1. StreamOK' /\ BufferOK' /\ QueueOK' /\ FlagOK'
  BY DEF SkipHook, Drain, DrainTimeout, LoadPlan, PlanFails, ApplyPlan, eventVars,
         Types, StreamOK, BufferOK, QueueOK, FlagOK
<1>2. HostOK'
  BY DEF SkipHook, Drain, DrainTimeout, LoadPlan, PlanFails, ApplyPlan, Send, sessionVars, Types, HostOK
<1>3. HookOK'
  <2>1. CASE Drain \/ DrainTimeout
    BY <2>1 DEF Drain, DrainTimeout, Types, HookOK
  <2>2. CASE LoadPlan
    <3> DEFINE awaited == IF hook.at = "drained" THEN hook.due ELSE {}
    <3>1. \A i \in DOMAIN stored : stored[i] \in Ids
      BY DEF Types, QueueOK
    <3>2. FreshOf(stored) \subseteq Ids
      BY <3>1 DEF FreshOf
    <3>3. ToSet(stored) \subseteq Ids
      BY <3>1 DEF ToSet
    <3>4. UnderWay \subseteq Ids
      <4>1. \A i \in DOMAIN queue : queue[i] # Doctor => queue[i] \in Ids
        BY DEF Types, QueueOK, Commands
      <4>2. \A i \in DOMAIN stream : stream[i].id \in Ids
        BY DEF Types, StreamOK, Emitted, Event
      <4> QED
        BY <4>1, <4>2 DEF UnderWay, ToSet
    <3>5. /\ plan' = [fresh |-> FreshOf(stored), covered |-> ToSet(stored) \ FreshOf(stored),
                      unseen |-> UnderWay \ awaited]
          /\ hook' = [hook EXCEPT !.at = "applying"] /\ elided' = elided
      BY <2>2 DEF LoadPlan
    <3> QED
      BY <3>2, <3>3, <3>4, <3>5 DEF Types, HookOK
  <2>3. Idle \in [at : {"idle"}, ahead : 0..MaxQueued, due : SUBSET Ids]
    BY LimitAssumption DEF Idle
  <2>4. CASE PlanFails \/ SkipHook
    BY <2>3, <2>4 DEF PlanFails, SkipHook, Send, Types, HookOK
  <2>5. CASE ApplyPlan
    <3>1. DOMAIN transcript \subseteq Ids
      BY ArrayFacts
    <3> QED
      BY <2>3, <2>5, <3>1 DEF ApplyPlan, Send, Types, HookOK
  <2> QED
    BY <2>1, <2>2, <2>4, <2>5
<1> QED
  BY <1>1, <1>2, <1>3 DEF Types

LEMMA TypesNext == ASSUME Types, Hosting, [Next]_vars PROVE Types'
<1>1. CASE Host
  BY <1>1, HostTypes
<1>2. CASE Handle
  BY <1>2, HandleFirstTypes, HandleLastTypes DEF Handle
<1>3. CASE Disconnect \/ Reconnect
  BY <1>3, ConnectionTypes
<1>4. CASE Run \/ RunFails
  BY <1>4, RunTypes
<1>5. CASE BeginHook
  BY <1>5, BeginHookTypes
<1>6. CASE SkipHook \/ Drain \/ DrainTimeout \/ LoadPlan \/ PlanFails \/ ApplyPlan
  BY <1>6, HookTypes
<1>7. CASE UNCHANGED vars
  BY <1>7 DEF vars, sessionVars, eventVars, hookVars,
              Types, HostOK, StreamOK, BufferOK, QueueOK, HookOK, FlagOK
<1> QED
  BY <1>1, <1>2, <1>3, <1>4, <1>5, <1>6, <1>7 DEF Next

(***************************************************************************)
(* The turn and the hook                                                   *)
(***************************************************************************)
\* A message put at the end is the last of its role, and leaves the last of
\* the other roles.
LEMMA LastAppended ==
    ASSUME Types, NEW role \in Roles, transcript' = Append(transcript, role)
    PROVE  /\ \A i : LastOf(i, role)' <=> i = NextId
           /\ \A r, i : r # role => (LastOf(i, r)' <=> LastOf(i, r))
<1>1. /\ NextId = Len(transcript) + 1 /\ Len(transcript) \in Nat
      /\ DOMAIN transcript = 1..Len(transcript) /\ DOMAIN transcript' = 1..(Len(transcript) + 1)
      /\ NextId \in DOMAIN transcript' /\ transcript'[NextId] = role
      /\ \A i \in DOMAIN transcript : i \in DOMAIN transcript' /\ transcript'[i] = transcript[i]
  BY ArrayFacts
<1>2. \A j \in DOMAIN transcript' : j \in DOMAIN transcript \/ j = NextId
  BY <1>1
<1>3. ASSUME NEW r, NEW i, r # role
      PROVE  LastOf(i, r)' <=> LastOf(i, r)
  BY <1>1, <1>2, <1>3 DEF LastOf
<1>4. ASSUME NEW i, LastOf(i, role)'
      PROVE  i = NextId
  <2>1. i \in DOMAIN transcript' /\ (NextId > i => transcript'[NextId] # role)
    BY <1>1, <1>4 DEF LastOf
  <2>2. i \in DOMAIN transcript => NextId > i
    BY <1>1
  <2> QED
    BY <1>1, <1>2, <2>1, <2>2
<1>5. \A j \in DOMAIN transcript' : ~(j > NextId)
  BY <1>1
<1>6. ASSUME NEW i, i = NextId
      PROVE  LastOf(i, role)'
  BY <1>1, <1>5, <1>6 DEF LastOf
<1> QED
  BY <1>3, <1>4, <1>6

LEMMA LastOfKept ==
    ASSUME transcript' = transcript
    PROVE  \A i, role : LastOf(i, role)' <=> LastOf(i, role)
  BY DEF LastOf

LEMMA HostingEndPrompt == ASSUME Types, Hosting, EndPrompt PROVE Hosting'
<1>1. /\ transcript' = Append(transcript, "user") /\ "user" \in Roles /\ Complete(NextId)
      /\ session = "prompting" /\ session' = "requesting"
  BY DEF EndPrompt, Roles
<1>2. NextId <= MaxMessages
  BY <1>1, LimitAssumption DEF Types, HostOK, NextId
<1>3. NextId \in Ids /\ ended[NextId] = 0
  BY <1>2, FreshId
<1>4. /\ ended' \in [Ids -> Nat] /\ clock' = clock + 1 /\ ended'[NextId] = clock + 1
      /\ \A x \in Ids : x # NextId => ended'[x] = ended[x]
  BY <1>1, <1>3, CompleteFacts
<1>5. \A i : LastOf(i, "user")' <=> i = NextId
  BY <1>1, LastAppended
<1>6. \E i \in Ids : LastOf(i, "user")'
  BY <1>3, <1>5
<1>7. /\ \A id \in Ids : ended[id] <= clock
      /\ \A id \in Ids : ended[id] > 0 <=> id \in DOMAIN transcript
      /\ clock \in Nat /\ ended \in [Ids -> Nat]
  BY <1>1 DEF Hosting, InStep, Types, HostOK
<1>8. \A id \in Ids : ended'[id] <= clock'
  BY <1>4, <1>7
<1>9. DOMAIN transcript' = DOMAIN transcript \cup {NextId}
  BY <1>1, ArrayFacts
<1>10. \A id \in Ids : ended'[id] > 0 <=> id \in DOMAIN transcript'
  BY <1>4, <1>7, <1>9
<1> QED
  BY <1>1, <1>6, <1>8, <1>10 DEF Hosting, InTurn, InStep

LEMMA HostingStartStep == ASSUME Types, Hosting, StartStep PROVE Hosting'
<1>1. /\ transcript' = Append(transcript, "assistant") /\ "assistant" \in Roles /\ "user" \in Roles
      /\ session = "answering" /\ session' = "silent" /\ NextId <= MaxMessages
      /\ ended' = ended /\ clock' = clock /\ hook' = hook
  BY DEF StartStep, Outside, hookVars, Roles
<1>2. NextId \in Ids /\ ended[NextId] = 0
  BY <1>1, FreshId
<1>3. \A i : LastOf(i, "assistant")' <=> i = NextId
  BY <1>1, LastAppended
<1>4. \A i : LastOf(i, "user")' <=> LastOf(i, "user")
  BY <1>1, LastAppended
<1>5. \E i \in Ids : LastOf(i, "user")
  BY <1>1 DEF Hosting, InTurn
<1>6. /\ \A id \in Ids : ended[id] <= clock
      /\ \A id \in Ids : ended[id] > 0 <=> id \in DOMAIN transcript
      /\ hook.at = "idle"
  BY <1>1 DEF Hosting, InStep
<1>7. DOMAIN transcript' = DOMAIN transcript \cup {NextId}
  BY <1>1, ArrayFacts
<1>8. \A id \in Ids : ended'[id] > 0 <=> id \in DOMAIN transcript' /\ ~LastOf(id, "assistant")'
  BY <1>1, <1>2, <1>3, <1>6, <1>7
<1>9. (\E i \in Ids : LastOf(i, "user")') /\ (\E i \in Ids : LastOf(i, "assistant")')
  BY <1>2, <1>3, <1>4, <1>5
<1> QED
  BY <1>1, <1>6, <1>8, <1>9 DEF Hosting, InTurn, InStep

LEMMA HostingEndTool == ASSUME Types, Hosting, EndTool PROVE Hosting'
<1>1. /\ transcript' = Append(transcript, "tool") /\ "tool" \in Roles /\ Complete(NextId)
      /\ InStep /\ session' = session /\ NextId <= MaxMessages /\ hook' = hook
  BY DEF EndTool, InStep, Outside, hookVars, Roles
<1>2. NextId \in Ids /\ ended[NextId] = 0
  BY <1>1, FreshId
<1>3. /\ ended' \in [Ids -> Nat] /\ clock' = clock + 1 /\ ended'[NextId] = clock + 1
      /\ \A x \in Ids : x # NextId => ended'[x] = ended[x]
  BY <1>1, <1>2, CompleteFacts
<1>4. /\ \A i : LastOf(i, "user")' <=> LastOf(i, "user")
      /\ \A i : LastOf(i, "assistant")' <=> LastOf(i, "assistant")
  BY <1>1, LastAppended
<1>5. /\ \A id \in Ids : ended[id] <= clock
      /\ \A id \in Ids : ended[id] > 0 <=> id \in DOMAIN transcript /\ ~LastOf(id, "assistant")
      /\ hook.at = "idle" /\ clock \in Nat /\ ended \in [Ids -> Nat]
      /\ (\E i \in Ids : LastOf(i, "user")) /\ (\E i \in Ids : LastOf(i, "assistant"))
  BY <1>1 DEF Hosting, InStep, InTurn, Types, HostOK
<1>6. DOMAIN transcript' = DOMAIN transcript \cup {NextId} /\ NextId \notin DOMAIN transcript
  BY <1>1, ArrayFacts
<1>7. ~LastOf(NextId, "assistant")
  BY <1>6 DEF LastOf
<1>8. \A id \in Ids : ended'[id] <= clock'
  BY <1>3, <1>5
<1>9. ASSUME NEW id \in Ids
      PROVE  ended'[id] > 0 <=> id \in DOMAIN transcript' /\ ~LastOf(id, "assistant")'
  <2>1. CASE id = NextId
    BY <1>3, <1>4, <1>5, <1>6, <1>7, <2>1
  <2>2. CASE id # NextId
    BY <1>3, <1>4, <1>5, <1>6, <2>2
  <2> QED
    BY <2>1, <2>2
<1>10. (\E i \in Ids : LastOf(i, "user")') /\ (\E i \in Ids : LastOf(i, "assistant")')
  BY <1>4, <1>5
<1> QED
  BY <1>1, <1>5, <1>8, <1>9, <1>10 DEF Hosting, InTurn, InStep

LEMMA HostingEndStep == ASSUME Types, Hosting, EndStep PROVE Hosting'
<1>1. /\ transcript' = transcript /\ Complete(Step) /\ InStep /\ hook' = hook
      /\ session' \in {"waiting", "requesting"}
  BY DEF EndStep, InStep, Outside, hookVars
<1>2. Step \in Ids /\ LastOf(Step, "assistant")
  BY <1>1, StepFacts
<1>3. /\ ended' \in [Ids -> Nat] /\ clock' = clock + 1 /\ ended'[Step] = clock + 1
      /\ \A x \in Ids : x # Step => ended'[x] = ended[x]
  BY <1>1, <1>2, CompleteFacts
<1>4. \A i \in Ids : LastOf(i, "assistant") => i = Step
  BY LatestIs DEF Types, Step
<1>5. /\ \A id \in Ids : ended[id] <= clock
      /\ \A id \in Ids : ended[id] > 0 <=> id \in DOMAIN transcript /\ ~LastOf(id, "assistant")
      /\ hook.at = "idle" /\ clock \in Nat /\ ended \in [Ids -> Nat]
      /\ \E i \in Ids : LastOf(i, "user")
  BY <1>1 DEF Hosting, InStep, InTurn, Types, HostOK
<1>6. \E i \in Ids : LastOf(i, "user")'
  BY <1>1, <1>5, LastOfKept
<1>7. \A id \in Ids : ended'[id] <= clock'
  BY <1>3, <1>5
<1>8. Step \in DOMAIN transcript
  BY <1>2 DEF LastOf
<1>9. \A id \in Ids : ended'[id] > 0 <=> id \in DOMAIN transcript
  BY <1>3, <1>4, <1>5, <1>8
<1> QED
  BY <1>1, <1>5, <1>6, <1>7, <1>9 DEF Hosting, InTurn, InStep

\* Where nothing ends and nothing is said, only the session's state matters.
LEMMA HostingKept ==
    ASSUME Hosting, UNCHANGED <<transcript, ended, clock>>,
           hook'.at # "idle" => session' = "requesting",
           InStep' <=> InStep, InTurn' => InTurn
    PROVE  Hosting'
<1>1. \A i, role : LastOf(i, role)' <=> LastOf(i, role)
  BY LastOfKept
<1>2. InTurn' => \E i \in Ids : LastOf(i, "user")'
  BY <1>1 DEF Hosting
<1>3. InStep' => \E i \in Ids : LastOf(i, "assistant")'
  BY <1>1 DEF Hosting
<1>4. \A id \in Ids : ended'[id] <= clock'
  BY DEF Hosting
<1>5. \A id \in Ids : ended'[id] > 0 <=> id \in DOMAIN transcript' /\ ~(InStep' /\ LastOf(id, "assistant")')
  BY <1>1 DEF Hosting
<1> QED
  BY <1>2, <1>3, <1>4, <1>5 DEF Hosting

LEMMA HostingNext == ASSUME Types, Hosting, [Next]_vars PROVE Hosting'
<1>1. CASE BeginPrompt \/ SayText
  BY <1>1, HostingKept DEF BeginPrompt, SayText, Outside, hookVars, Hosting, InStep, InTurn
<1>2. CASE EndPrompt \/ StartStep \/ EndTool \/ EndStep
  BY <1>2, HostingEndPrompt, HostingStartStep, HostingEndTool, HostingEndStep
<1>3. CASE Handle \/ Disconnect \/ Reconnect
  <2>1. UNCHANGED <<session, transcript, ended, clock, hook>>
    BY <1>3 DEF Handle, HandleFirst, HandleLast, Disconnect, Reconnect, sessionVars, hookVars
  <2> QED
    BY <2>1, HostingKept DEF Hosting, InStep, InTurn
<1>4. CASE Run \/ RunFails
  <2>1. UNCHANGED <<session, transcript, ended, clock>> /\ Advance
    BY <1>4 DEF Run, RunFails, sessionVars
  <2>2. hook'.at = hook.at
    BY <2>1 DEF Advance, Types, HookOK
  <2> QED
    BY <2>1, <2>2, HostingKept DEF Hosting, InStep, InTurn
<1>5. CASE BeginHook
  BY <1>5, HostingKept DEF BeginHook, sessionVars, InStep, InTurn
<1>6. CASE Drain \/ DrainTimeout \/ LoadPlan
  <2>1. UNCHANGED <<session, transcript, ended, clock>> /\ hook.at # "idle"
    BY <1>6 DEF Drain, DrainTimeout, LoadPlan, Planning, sessionVars
  <2> QED
    BY <2>1, HostingKept DEF Hosting, InStep, InTurn
<1>7. CASE PlanFails \/ ApplyPlan \/ SkipHook
  <2>1. /\ UNCHANGED <<transcript, ended, clock>> /\ hook' = Idle
        /\ session = "requesting" /\ session' = "answering"
    BY <1>7 DEF PlanFails, ApplyPlan, SkipHook, Send, Planning, Hosting
  <2>2. hook'.at = "idle"
    BY <2>1 DEF Idle
  <2> QED
    BY <2>1, <2>2, HostingKept DEF InStep, InTurn
<1>8. CASE UNCHANGED vars
  BY <1>8, HostingKept DEF vars, sessionVars, hookVars, Hosting, InStep, InTurn
<1> QED
  BY <1>1, <1>2, <1>3, <1>4, <1>5, <1>6, <1>7, <1>8 DEF Next, Host


(***************************************************************************)
(* The store and the drain                                                 *)
(***************************************************************************)
\* The host and the stream take nothing from the queue, the store or the losses.
LEMMA EventSteps ==
    ASSUME Types, Hosting, Host \/ Handle \/ Disconnect \/ Reconnect
    PROVE  /\ stored' = stored /\ hook' = hook /\ lost \subseteq lost'
           /\ Len(queue) <= Len(queue')
           /\ \A i \in DOMAIN queue : i \in DOMAIN queue' /\ queue'[i] = queue[i]
<1>1. stored' = stored /\ hook' = hook /\ lost \subseteq lost'
  <2>1. CASE Host
    BY <2>1, HostKinds, HostShape
  <2>2. CASE Handle \/ Disconnect \/ Reconnect
    BY <2>2 DEF Handle, HandleFirst, HandleLast, Disconnect, Reconnect, hookVars
  <2> QED
    BY <2>1, <2>2
<1>2. queue' = queue \/ \E id \in Ids : Ingest(id)
  <2>1. CASE HandleLast
    <3>1. stream # <<>>
      BY <2>1 DEF HandleLast, Receive
    <3>2. Head(stream).id \in Ids
      BY <3>1, StreamFacts DEF Types, Emitted, Event
    <3> QED
      BY <2>1, <3>2 DEF HandleLast
  <2>2. CASE Host
    BY <2>2, HostKinds
  <2>3. CASE HandleFirst \/ Disconnect \/ Reconnect
    BY <2>3 DEF HandleFirst, Disconnect, Reconnect
  <2> QED
    BY <2>1, <2>2, <2>3 DEF Handle
<1>3. CASE queue' = queue
  BY <1>1, <1>3 DEF Types, QueueOK
<1>4. CASE \E id \in Ids : Ingest(id)
  BY <1>1, <1>4, IngestFacts DEF Types
<1> QED
  BY <1>2, <1>3, <1>4

LEMMA RunDraining == ASSUME Types, Draining, Run \/ RunFails PROVE Draining'
<1>1. /\ queue # <<>> /\ queue' = Tail(queue)
      /\ hook' = [hook EXCEPT !.ahead = IF hook.ahead > 0 THEN hook.ahead - 1 ELSE 0]
  BY DEF Run, RunFails, Advance
<1>2. /\ hook'.at = hook.at /\ hook'.due = hook.due
      /\ hook'.ahead = IF hook.ahead > 0 THEN hook.ahead - 1 ELSE 0
      /\ hook.ahead \in Nat /\ hook.due \subseteq Ids
  <2>1. hook.ahead \in 0..MaxQueued /\ hook.due \subseteq Ids
    BY DEF Types, HookOK
  <2>2. hook.ahead \in Nat
    BY <2>1, LimitAssumption
  <2> QED
    BY <1>1, <2>1, <2>2 DEF Types, HookOK
<1>3. /\ Head(queue) \in Commands /\ Head(queue) = queue[1]
      /\ Len(queue') = Len(queue) - 1 /\ Len(queue) >= 1 /\ Len(queue) \in Nat
      /\ \A i \in DOMAIN queue : i > 1 => queue'[i - 1] = queue[i]
  BY <1>1, HeadFacts DEF Types, QueueOK
<1>4. StoreId(Head(queue)) \/ (stored' = stored /\ ~Run)
  BY DEF Run, RunFails
<1>5. ToSet(stored) \subseteq ToSet(stored') /\ lost \subseteq lost'
  BY <1>3, <1>4, StoreFacts DEF Types, Run, RunFails
<1>6. Head(queue) # Doctor => Head(queue) \in ToSet(stored') \cup lost'
  <2>1. CASE Run
    BY <1>3, <2>1, StoreFacts DEF Types, Run
  <2>2. CASE RunFails
    <3>1. lost' = IF Contains(stored', Head(queue)) THEN lost ELSE lost \cup ({Head(queue)} \ {Doctor})
      BY <2>2 DEF RunFails
    <3>2. stored' \in Seq(Ids)
      BY <1>3, <1>4, StoreFacts DEF Types, QueueOK
    <3>3. Contains(stored', Head(queue)) => Head(queue) \in ToSet(stored')
      BY <3>2 DEF Contains, ToSet
    <3> QED
      BY <3>1, <3>3
  <2> QED
    BY <2>1, <2>2
<1>7. CASE hook.at = "draining"
  <2>1. /\ hook.ahead <= Len(queue)
        /\ hook.due \subseteq ToSet(stored) \cup lost \cup {queue[i] : i \in 1..hook.ahead}
    BY <1>7 DEF Draining
  <2>2. hook'.ahead <= Len(queue')
    BY <1>2, <1>3, <2>1
  <2>3. ASSUME NEW x \in hook.due
        PROVE  x \in ToSet(stored') \cup lost' \cup {queue'[i] : i \in 1..hook'.ahead}
    <3>1. CASE x \in ToSet(stored) \cup lost
      BY <1>5, <3>1
    <3>2. CASE x \in {queue[i] : i \in 1..hook.ahead}
      <4>1. PICK i \in 1..hook.ahead : x = queue[i]
        BY <3>2
      <4>2. CASE i = 1
        <5>1. x # Doctor
          BY <1>2, <2>3 DEF Doctor, Ids
        <5> QED
          BY <1>3, <1>6, <4>1, <4>2, <5>1
      <4>3. CASE i > 1
        <5>1. i - 1 \in 1..hook'.ahead /\ i \in 1..Len(queue)
          BY <1>2, <1>3, <2>1, <4>3
        <5>2. queue'[i - 1] = x
          <6>1. DOMAIN queue = 1..Len(queue)
            BY DEF Types, QueueOK
          <6> QED
            BY <1>3, <4>1, <4>3, <5>1, <6>1
        <5> QED
          BY <5>1, <5>2
      <4> QED
        BY <1>2, <4>1, <4>2, <4>3
    <3> QED
      BY <2>1, <2>3, <3>1, <3>2
  <2> QED
    BY <1>2, <1>7, <2>2, <2>3 DEF Draining, DrainedBeforePlan
<1>8. CASE hook.at # "draining"
  BY <1>2, <1>5, <1>8 DEF Draining, DrainedBeforePlan
<1> QED
  BY <1>7, <1>8

LEMMA DrainingNext == ASSUME Types, Hosting, Draining, [Next]_vars PROVE Draining'
<1>1. CASE Host \/ Handle \/ Disconnect \/ Reconnect
  <2>1. /\ stored' = stored /\ hook' = hook /\ lost \subseteq lost'
        /\ Len(queue) <= Len(queue')
        /\ \A i \in DOMAIN queue : queue'[i] = queue[i]
    BY <1>1, EventSteps
  <2>2. CASE hook.at = "draining"
    <3>1. Len(queue) \in Nat /\ Len(queue') \in Nat /\ hook.ahead \in Nat /\ DOMAIN queue = 1..Len(queue)
      <4>1. hook.ahead \in 0..MaxQueued
        BY DEF Types, HookOK
      <4>2. QueueOK /\ QueueOK'
        BY TypesNext DEF Types
      <4> QED
        BY <4>1, <4>2, LimitAssumption DEF QueueOK
    <3>2. \A i \in 1..hook.ahead : queue'[i] = queue[i]
      BY <2>1, <2>2, <3>1 DEF Draining
    <3>3. hook.ahead <= Len(queue')
      BY <2>1, <2>2, <3>1 DEF Draining
    <3> QED
      BY <2>1, <2>2, <3>2, <3>3 DEF Draining, DrainedBeforePlan
  <2>3. CASE hook.at # "draining"
    BY <2>1, <2>3 DEF Draining, DrainedBeforePlan
  <2> QED
    BY <2>2, <2>3
<1>2. CASE Run \/ RunFails
  BY <1>2, RunDraining
<1>3. CASE BeginHook
  <2>1. hook' = [at |-> "draining", ahead |-> Len(queue'), due |-> ToSet(queue') \ {Doctor}]
    BY <1>3 DEF BeginHook
  <2>2. DOMAIN queue' = 1..Len(queue') /\ Len(queue') \in Nat
    BY TypesNext DEF Types, QueueOK
  <2>3. ToSet(queue') \subseteq {queue'[i] : i \in 1..Len(queue')}
    BY <2>2 DEF ToSet
  <2> QED
    BY <2>1, <2>2, <2>3 DEF Draining, DrainedBeforePlan
<1>4. CASE Drain
  <2>1. hook.at = "draining" /\ hook.ahead = 0 /\ hook'.at = "drained" /\ hook'.due = hook.due
    BY <1>4 DEF Drain, Types, HookOK
  <2>2. {queue[i] : i \in 1..hook.ahead} = {}
    BY <2>1
  <2>3. hook.due \subseteq ToSet(stored) \cup lost
    BY <2>1, <2>2 DEF Draining
  <2> QED
    BY <1>4, <2>1, <2>3 DEF Drain, Draining, DrainedBeforePlan
<1>5. CASE SkipHook \/ DrainTimeout \/ LoadPlan \/ PlanFails \/ ApplyPlan
  <2>1. \/ hook' = Idle
        \/ \E at \in {"timed out", "applying"} : hook' = [hook EXCEPT !.at = at]
    BY <1>5 DEF SkipHook, DrainTimeout, LoadPlan, PlanFails, ApplyPlan, Send
  <2>2. \A at : [hook EXCEPT !.at = at].at = at
    BY DEF Types, HookOK
  <2>3. Idle.at = "idle"
    BY DEF Idle
  <2>4. hook'.at \in {"timed out", "applying", "idle"}
    BY <2>1, <2>2, <2>3
  <2> QED
    BY <2>4 DEF Draining, DrainedBeforePlan
<1>6. CASE UNCHANGED vars
  BY <1>6 DEF vars, hookVars, Draining, DrainedBeforePlan
<1> QED
  BY <1>1, <1>2, <1>3, <1>4, <1>5, <1>6 DEF Next

(***************************************************************************)
(* The stream                                                              *)
(***************************************************************************)
\* The stream's events, beginnings included, stay where they are when one is added.
LEMMA BegunEmit ==
    ASSUME Types, NEW id, NEW role, NEW n \in Nat, Begun(id, role, n), lost \subseteq lost',
           buffered' = buffered,
           \A i \in DOMAIN stream : i \in DOMAIN stream' /\ stream'[i] = stream[i]
    PROVE  \A m \in Nat : m >= n =>
             \/ id \in lost'
             \/ role \in DOMAIN buffered' /\ id \in buffered'[role]
             \/ \E k \in DOMAIN stream' : k < m /\ stream'[k] = FirstHalf(id, role)
<1> SUFFICES ASSUME NEW m \in Nat, m >= n
             PROVE  \/ id \in lost'
                    \/ role \in DOMAIN buffered' /\ id \in buffered'[role]
                    \/ \E k \in DOMAIN stream' : k < m /\ stream'[k] = FirstHalf(id, role)
  OBVIOUS
<1>1. CASE \E k \in DOMAIN stream : k < n /\ stream[k] = FirstHalf(id, role)
  <2>1. PICK k \in DOMAIN stream : k < n /\ stream[k] = FirstHalf(id, role)
    BY <1>1
  <2>2. k \in Nat
    BY DEF Types, StreamOK
  <2> QED
    BY <2>1, <2>2
<1>2. CASE ~ \E k \in DOMAIN stream : k < n /\ stream[k] = FirstHalf(id, role)
  BY <1>2 DEF Begun
<1> QED
  BY <1>1, <1>2

\* A step of the host keeps the ends in order and puts a new one behind them.
LEMMA EndsSentHost ==
    ASSUME Types, Hosting, EndsSent, Host,
           \A i \in DOMAIN stream' : \A id, role :
               /\ i \notin DOMAIN stream /\ stream'[i] = [id |-> id, role |-> role, half |-> "last"]
               /\ role # "tool" /\ id \in worded'
               => Begun(id, role, Len(stream) + 1)
    PROVE  EndsSent'
<1>1. /\ stream' \in Seq(Emitted) /\ lost \subseteq lost' /\ buffered' = buffered
      /\ \A i \in DOMAIN transcript : i \in DOMAIN transcript' /\ transcript'[i] = transcript[i]
      /\ \A i \in DOMAIN stream : i \in DOMAIN stream' /\ stream'[i] = stream[i]
      /\ \A i \in DOMAIN stream' : i \notin DOMAIN stream => i = Len(stream) + 1
      /\ \A id \in Ids : ended[id] > 0 => ended'[id] = ended[id]
      /\ \A id \in worded' : id \in worded \/ ended[id] = 0
      /\ \A i \in DOMAIN stream' : i \notin DOMAIN stream /\ stream'[i].half = "last" =>
           /\ ended[stream'[i].id] = 0 /\ ended'[stream'[i].id] = clock + 1
           /\ stream'[i].id \in DOMAIN transcript' /\ transcript'[stream'[i].id] = stream'[i].role
  BY HostShape, HostKinds
<1>2. /\ \A i \in DOMAIN stream' : i \in Nat /\ stream'[i] \in Emitted
      /\ \A i \in DOMAIN stream : i \in Nat /\ i < Len(stream) + 1 /\ stream[i].id \in Ids
      /\ Len(stream) \in Nat /\ clock \in Nat /\ ended \in [Ids -> Nat]
  BY <1>1 DEF Types, StreamOK, HostOK, Emitted, Event
<1>3. ASSUME NEW i \in DOMAIN stream', Completes(i)', i \in DOMAIN stream
      PROVE  /\ Completes(i) /\ stream'[i] = stream[i] /\ stream[i].id \in Ids
             /\ ended[stream[i].id] > 0 /\ ended'[stream[i].id] = ended[stream[i].id]
  <2>1. Completes(i) /\ stream'[i] = stream[i] /\ stream[i].id \in Ids
    BY <1>1, <1>2, <1>3 DEF Completes
  <2>2. ended[stream[i].id] > 0
    BY <1>3, <2>1 DEF EndsSent
  <2> QED
    BY <1>1, <2>1, <2>2
<1>4. ASSUME NEW i \in DOMAIN stream', Completes(i)', i \notin DOMAIN stream
      PROVE  /\ i = Len(stream) + 1 /\ stream'[i].half = "last"
             /\ ended'[stream'[i].id] = clock + 1
             /\ stream'[i].id \in DOMAIN transcript' /\ transcript'[stream'[i].id] = stream'[i].role
  BY <1>1, <1>4 DEF Completes
<1>5. ASSUME NEW i \in DOMAIN stream', Completes(i)',
             stream'[i].role # "tool", stream'[i].id \in worded'
      PROVE  Begun(stream[i].id, stream[i].role, i)'
  <2>1. PICK id, role : id = stream'[i].id /\ role = stream'[i].role
    OBVIOUS
  <2>2. PICK n \in Nat : n = i /\ Begun(id, role, n)
    <3>1. CASE i \in DOMAIN stream
      <4>1. Completes(i) /\ stream'[i] = stream[i] /\ ended[stream[i].id] > 0
        BY <1>3, <1>5, <3>1
      <4>2. id = stream[i].id /\ role = stream[i].role /\ role # "tool" /\ id \in worded
        BY <1>1, <1>5, <2>1, <4>1
      <4>3. Begun(id, role, i)
        BY <3>1, <4>1, <4>2 DEF EndsSent
      <4> QED
        BY <1>2, <4>3
    <3>2. CASE i \notin DOMAIN stream
      <4>1. i = Len(stream) + 1 /\ stream'[i].half = "last"
        BY <1>4, <1>5, <3>2
      <4>2. stream'[i] = [id |-> id, role |-> role, half |-> "last"]
        BY <1>2, <2>1, <4>1 DEF Emitted, Event
      <4>3. Begun(id, role, Len(stream) + 1)
        BY <1>5, <2>1, <3>2, <4>2
      <4> QED
        BY <1>2, <4>1, <4>3
    <3> QED
      BY <3>1, <3>2
  <2>3. \/ id \in lost'
        \/ role \in DOMAIN buffered' /\ id \in buffered'[role]
        \/ \E k \in DOMAIN stream' : k < i /\ stream'[k] = FirstHalf(id, role)
    BY <1>1, <2>2, BegunEmit
  <2> QED
    BY <2>1, <2>3 DEF Begun
<1>6. ASSUME NEW i \in DOMAIN stream', Completes(i)'
      PROVE  /\ stream'[i].id \in DOMAIN transcript' /\ transcript'[stream'[i].id] = stream'[i].role
             /\ ended'[stream'[i].id] > 0
  <2>1. CASE i \in DOMAIN stream
    <3>1. Completes(i) /\ stream'[i] = stream[i] /\ ended'[stream[i].id] > 0
      BY <1>3, <1>6, <2>1
    <3>2. stream[i].id \in DOMAIN transcript /\ transcript[stream[i].id] = stream[i].role
      BY <2>1, <3>1 DEF EndsSent
    <3> QED
      BY <1>1, <3>1, <3>2
  <2>2. CASE i \notin DOMAIN stream
    BY <1>2, <1>4, <1>6, <2>2
  <2> QED
    BY <2>1, <2>2
<1>7. ASSUME NEW i \in DOMAIN stream', NEW j \in DOMAIN stream', i < j, Completes(i)', Completes(j)'
      PROVE  ended'[stream'[i].id] < ended'[stream'[j].id]
  <2>1. CASE i \in DOMAIN stream /\ j \in DOMAIN stream
    <3>1. /\ Completes(i) /\ stream'[i] = stream[i] /\ ended'[stream[i].id] = ended[stream[i].id]
          /\ Completes(j) /\ stream'[j] = stream[j] /\ ended'[stream[j].id] = ended[stream[j].id]
      BY <1>3, <1>7, <2>1
    <3> QED
      BY <1>7, <2>1, <3>1 DEF EndsSent
  <2>2. CASE i \in DOMAIN stream /\ j \notin DOMAIN stream
    <3>1. stream'[i] = stream[i] /\ ended'[stream[i].id] = ended[stream[i].id] /\ stream[i].id \in Ids
      BY <1>3, <1>7, <2>2
    <3>2. ended[stream[i].id] <= clock
      BY <3>1 DEF Hosting
    <3>3. ended'[stream'[j].id] = clock + 1
      BY <1>4, <1>7, <2>2
    <3>4. ended[stream[i].id] \in Nat
      BY <1>2, <3>1
    <3> QED
      BY <1>2, <3>1, <3>2, <3>3, <3>4
  <2>3. CASE i \notin DOMAIN stream
    <3>1. i = Len(stream) + 1
      BY <1>4, <1>7, <2>3
    <3>2. j \in DOMAIN stream \/ j = Len(stream) + 1
      BY <1>1
    <3> QED
      BY <1>2, <1>7, <3>1, <3>2
  <2> QED
    BY <2>1, <2>2, <2>3
<1>8. \A i \in DOMAIN stream' : Completes(i)' =>
        /\ stream'[i].id \in DOMAIN transcript' /\ transcript'[stream'[i].id] = stream'[i].role
        /\ ended'[stream'[i].id] > 0
        /\ stream'[i].role # "tool" /\ stream'[i].id \in worded' => Begun(stream[i].id, stream[i].role, i)'
  BY <1>5, <1>6
<1>9. \A i, j \in DOMAIN stream' :
        i < j /\ Completes(i)' /\ Completes(j)' => ended'[stream'[i].id] < ended'[stream'[j].id]
  BY <1>7
<1> QED
  BY <1>8, <1>9 DEF EndsSent

LEMMA SentBegin ==
    ASSUME Types, Hosting, Sent, BeginPrompt \/ SayText
    PROVE  Sent'
<1>1. PICK id \in Ids, role \in {"user", "assistant"} :
        /\ Emit(id, role, "first") /\ transcript' = transcript
        /\ session' = "prompting" => role = "user" /\ id = NextId
        /\ session' = "spoken" => role = "assistant" /\ id = Step /\ InStep
        /\ session' \in {"prompting", "spoken"}
  <2>1. CASE BeginPrompt
    BY <2>1, FreshId DEF BeginPrompt
  <2>2. CASE SayText
    BY <2>2, StepFacts DEF SayText, InStep
  <2> QED
    BY <2>1, <2>2
<1>2. /\ \A i \in DOMAIN stream' : i \notin DOMAIN stream =>
           i = Len(stream) + 1 /\ stream'[i] = FirstHalf(id, role)
      /\ id \in lost' \/ (Len(stream) + 1 \in DOMAIN stream' /\ Len(stream') = Len(stream) + 1)
  BY <1>1, EmitFacts DEF Types, HostOK, Roles, FirstHalf
<1>3. \A i \in DOMAIN stream' : i \notin DOMAIN stream => stream'[i].half = "first"
  BY <1>2 DEF FirstHalf
<1>4. EndsSent'
  <2>1. \A i \in DOMAIN stream' : \A x, r :
          ~(i \notin DOMAIN stream /\ stream'[i] = [id |-> x, role |-> r, half |-> "last"])
    BY <1>3
  <2> QED
    BY <2>1, EndsSentHost DEF Sent, Host
<1>5. \/ id \in lost'
      \/ \E k \in DOMAIN stream' : k < Len(stream') + 1 /\ stream'[k] = FirstHalf(id, role)
  <2>1. Len(stream) + 1 \notin DOMAIN stream /\ Len(stream) \in Nat
    BY DEF Types, StreamOK
  <2> QED
    BY <1>2, <2>1
<1>6. session' = "prompting" => Begun(NextId, "user", Len(stream) + 1)'
  <2>1. NextId' = NextId
    BY <1>1, LatestKept
  <2> QED
    BY <1>1, <1>5, <2>1 DEF Begun
<1>7. ASSUME session' = "spoken", NEW i \in Ids, LastOf(i, "assistant")'
      PROVE  Begun(i, "assistant", Len(stream) + 1)'
  <2>1. LastOf(i, "assistant")
    BY <1>1, <1>7, LastOfKept
  <2>2. i = id /\ role = "assistant"
    BY <1>1, <1>7, <2>1, LatestIs DEF Types, Step
  <2> QED
    BY <1>5, <2>2 DEF Begun
<1> QED
  BY <1>1, <1>4, <1>6, <1>7 DEF Sent, HalvesSent

LEMMA SentStartStep ==
    ASSUME Types, Hosting, Sent, Kept, StartStep
    PROVE  Sent'
<1>1. /\ transcript' = Append(transcript, "assistant") /\ "assistant" \in Roles
      /\ stream' = stream /\ worded' = worded /\ session = "answering" /\ session' = "silent"
  BY DEF StartStep, Roles
<1>2. EndsSent'
  BY <1>1, EndsSentHost DEF Sent, Host
<1>3. NextId \notin worded
  BY <1>1, ArrayFacts DEF Kept
<1>4. \A i \in Ids : LastOf(i, "assistant")' => i = NextId
  BY <1>1, LastAppended
<1> QED
  BY <1>1, <1>2, <1>3, <1>4 DEF Sent, HalvesSent

LEMMA SentEnd ==
    ASSUME Types, Hosting, Sent, EndPrompt \/ EndTool \/ EndStep
    PROVE  Sent'
<1>1. PICK id \in Ids, role \in Roles :
        /\ Emit(id, role, "last")
        /\ role # "tool" /\ id \in worded' => Begun(id, role, Len(stream) + 1)
  <2>1. CASE EndPrompt
    <3>1. NextId <= MaxMessages
      BY <2>1, LimitAssumption DEF EndPrompt, Types, HostOK, NextId
    <3>2. NextId \in Ids
      BY <3>1, FreshId
    <3> QED
      BY <2>1, <3>2 DEF EndPrompt, Sent, HalvesSent, Roles
  <2>2. CASE EndTool
    BY <2>2, FreshId DEF EndTool, Roles
  <2>3. CASE EndStep
    <3>1. Step \in Ids /\ LastOf(Step, "assistant")
      BY <2>3, StepFacts DEF EndStep, InStep
    <3>2. worded' = worded /\ session \in {"silent", "spoken"} /\ Emit(Step, "assistant", "last")
      BY <2>3 DEF EndStep
    <3>3. Step \in worded => Begun(Step, "assistant", Len(stream) + 1)
      BY <3>1, <3>2 DEF Sent, HalvesSent
    <3> QED
      BY <3>1, <3>2, <3>3 DEF Roles
  <2> QED
    BY <2>1, <2>2, <2>3
<1>2. /\ lost \subseteq lost'
      /\ \A i \in DOMAIN stream : i \in DOMAIN stream' /\ stream'[i] = stream[i]
      /\ \A i \in DOMAIN stream' : i \notin DOMAIN stream =>
           i = Len(stream) + 1 /\ stream'[i] = [id |-> id, role |-> role, half |-> "last"]
      /\ Len(stream') >= Len(stream)
  BY <1>1, EmitFacts DEF Types, HostOK
<1>3. EndsSent'
  <2>1. ASSUME NEW i \in DOMAIN stream', NEW x, NEW r, i \notin DOMAIN stream,
               stream'[i] = [id |-> x, role |-> r, half |-> "last"], r # "tool", x \in worded'
        PROVE  Begun(x, r, Len(stream) + 1)
    <3>1. x = id /\ r = role
      BY <1>2, <2>1
    <3> QED
      BY <1>1, <2>1, <3>1
  <2> QED
    BY <2>1, EndsSentHost DEF Sent, Host
<1>4. CASE EndPrompt \/ EndStep
  <2>1. session' \in {"waiting", "requesting"}
    BY <1>4 DEF EndPrompt, EndStep
  <2> QED
    BY <1>3, <2>1 DEF Sent, HalvesSent
<1>5. CASE EndTool
  <2>1. /\ transcript' = Append(transcript, "tool") /\ "tool" \in Roles /\ buffered' = buffered
        /\ session' = session /\ session \in {"silent", "spoken"} /\ worded' = worded \cup {NextId}
    BY <1>5 DEF EndTool, Outside, Roles
  <2>2. \A i : LastOf(i, "assistant")' <=> LastOf(i, "assistant")
    BY <2>1, LastAppended
  <2>3. \A i : LastOf(i, "assistant") => i # NextId
    BY ArrayFacts DEF LastOf
  <2>4. session = "silent" => \A i \in Ids : LastOf(i, "assistant")' => i \notin worded'
    BY <2>1, <2>2, <2>3 DEF Sent, HalvesSent
  <2>5. ASSUME session = "spoken", NEW i \in Ids, LastOf(i, "assistant")'
        PROVE  Begun(i, "assistant", Len(stream) + 1)'
    <3>1. Begun(i, "assistant", Len(stream) + 1)
      BY <2>2, <2>5 DEF Sent, HalvesSent
    <3>2. /\ Len(stream) + 1 \in Nat /\ Len(stream') + 1 \in Nat
          /\ Len(stream') + 1 >= Len(stream) + 1
      <4>1. Len(stream) \in Nat /\ Len(stream') \in Nat
        BY TypesNext DEF Next, Host, Types, StreamOK
      <4> QED
        BY <1>2, <4>1
    <3>3. \/ i \in lost'
          \/ "assistant" \in DOMAIN buffered' /\ i \in buffered'["assistant"]
          \/ \E k \in DOMAIN stream' : k < Len(stream') + 1 /\ stream'[k] = FirstHalf(i, "assistant")
      BY <1>2, <2>1, <3>1, <3>2, BegunEmit
    <3> QED
      BY <3>3 DEF Begun
  <2> QED
    BY <1>3, <2>1, <2>4, <2>5 DEF Sent, HalvesSent
<1> QED
  BY <1>4, <1>5

\* What happens to a beginning when the head of the stream is handled.
LEMMA BegunHandled ==
    ASSUME Types, Handle, NEW id, NEW role, NEW n \in Nat, n > 1, Begun(id, role, n),
           Head(stream).half = "last" => id # Head(stream).id
    PROVE  \/ id \in lost'
           \/ role \in DOMAIN buffered' /\ id \in buffered'[role]
           \/ \E k \in DOMAIN stream' : k < n - 1 /\ stream'[k] = FirstHalf(id, role)
<1> DEFINE event == Head(stream)
<1>1. stream # <<>> /\ stream' = Tail(stream)
  BY DEF Handle, HandleFirst, HandleLast, Receive
<1>2. /\ event \in Emitted /\ event = stream[1]
      /\ \A i \in DOMAIN stream : i > 1 => i - 1 \in DOMAIN stream' /\ stream'[i - 1] = stream[i]
  BY <1>1, StreamFacts DEF Types
<1>3. \A i \in DOMAIN stream : i \in Nat /\ i >= 1
  BY DEF Types, StreamOK
<1>4. DOMAIN buffered' = DOMAIN buffered /\ DOMAIN buffered = {"user", "assistant"} /\ lost \subseteq lost'
  BY DEF Handle, HandleFirst, HandleLast, Types, BufferOK
<1>5. CASE id \in lost
  BY <1>4, <1>5
<1>6. CASE role \in DOMAIN buffered /\ id \in buffered[role]
  <2>1. CASE HandleFirst
    <3>1. /\ event.half = "first"
          /\ buffered' = [buffered EXCEPT ![event.role] = Track(@, event.id)]
          /\ lost' = lost \cup (buffered[event.role] \ buffered'[event.role])
      BY <2>1 DEF HandleFirst
    <3>2. CASE role = event.role
      BY <1>4, <1>6, <3>1, <3>2
    <3>3. CASE role # event.role
      BY <1>4, <1>6, <3>1, <3>3
    <3> QED
      BY <3>2, <3>3
  <2>2. CASE HandleLast
    <3>1. /\ event.half = "last"
          /\ buffered' = [r \in DOMAIN buffered |-> buffered[r] \ {event.id}]
      BY <2>2 DEF HandleLast
    <3> QED
      BY <1>6, <3>1
  <2> QED
    BY <2>1, <2>2 DEF Handle
<1>7. CASE \E k \in DOMAIN stream : k < n /\ stream[k] = FirstHalf(id, role)
  <2>1. PICK k \in DOMAIN stream : k < n /\ stream[k] = FirstHalf(id, role)
    BY <1>7
  <2>2. CASE k > 1
    <3>1. k - 1 \in DOMAIN stream' /\ stream'[k - 1] = FirstHalf(id, role) /\ k - 1 < n - 1
      BY <1>2, <1>3, <2>1, <2>2
    <3> QED
      BY <3>1
  <2>3. CASE k = 1
    <3>1. event.id = id /\ event.role = role /\ event.half = "first"
      BY <1>2, <2>1, <2>3 DEF FirstHalf
    <3>2. HandleFirst
      BY <3>1 DEF Handle, HandleLast
    <3>3. buffered' = [buffered EXCEPT ![event.role] = Track(@, event.id)]
      BY <3>2 DEF HandleFirst
    <3>4. event.role \in {"user", "assistant"}
      BY <1>2, <3>1 DEF Emitted, Event, Roles
    <3>5. id \in Track(buffered[role], id)
      BY DEF Track
    <3> QED
      BY <1>4, <3>1, <3>3, <3>4, <3>5
  <2> QED
    BY <1>3, <2>1, <2>2, <2>3
<1> QED
  BY <1>5, <1>6, <1>7 DEF Begun

LEMMA SentHandle == ASSUME Types, Hosting, Sent, Handle PROVE Sent'
<1> DEFINE event == Head(stream)
<1>1. /\ stream # <<>> /\ stream' = Tail(stream)
      /\ UNCHANGED <<session, transcript, worded, ended>>
  BY DEF Handle, HandleFirst, HandleLast, Receive, sessionVars
<1>2. /\ event = stream[1] /\ 1 \in DOMAIN stream /\ event.id \in Ids
      /\ \A i \in DOMAIN stream' : i + 1 \in DOMAIN stream /\ stream'[i] = stream[i + 1]
      /\ Len(stream') = Len(stream) - 1 /\ Len(stream) \in Nat /\ Len(stream) >= 1
  BY <1>1, StreamFacts DEF Types, StreamOK, Emitted, Event
<1>3. \A i \in DOMAIN stream' : i \in Nat /\ i >= 1
  BY <1>1, StreamFacts DEF Types
<1>4. \A i \in DOMAIN stream' : Completes(i)' => Completes(i + 1)
  BY <1>2 DEF Completes
<1>5. event.half = "last" => Completes(1) /\ ended[event.id] > 0 /\ event.id \in DOMAIN transcript
  BY <1>2 DEF Completes, Sent, EndsSent
<1>6. ASSUME NEW id, NEW role, NEW n \in Nat, n >= 1, Begun(id, role, n + 1),
             event.half = "last" => id # event.id
      PROVE  \/ id \in lost'
             \/ role \in DOMAIN buffered' /\ id \in buffered'[role]
             \/ \E k \in DOMAIN stream' : k < n /\ stream'[k] = FirstHalf(id, role)
  <2>1. PICK m \in Nat : m = n + 1 /\ m > 1 /\ m - 1 = n
    BY <1>6
  <2>2. \/ id \in lost'
        \/ role \in DOMAIN buffered' /\ id \in buffered'[role]
        \/ \E k \in DOMAIN stream' : k < m - 1 /\ stream'[k] = FirstHalf(id, role)
    BY <1>6, <2>1, BegunHandled
  <2> QED
    BY <2>1, <2>2
<1>7. ASSUME NEW i \in DOMAIN stream', Completes(i)'
      PROVE  /\ stream'[i].id \in DOMAIN transcript' /\ transcript'[stream'[i].id] = stream'[i].role
             /\ ended'[stream'[i].id] > 0
             /\ stream'[i].role # "tool" /\ stream'[i].id \in worded' => Begun(stream[i].id, stream[i].role, i)'
  <2>1. /\ i + 1 \in DOMAIN stream /\ Completes(i + 1) /\ stream'[i] = stream[i + 1] /\ i \in Nat /\ i >= 1
        /\ 1 < i + 1
    BY <1>2, <1>3, <1>4, <1>7
  <2>2. PICK id, role : id = stream[i + 1].id /\ role = stream[i + 1].role
    OBVIOUS
  <2>3. /\ id \in DOMAIN transcript /\ transcript[id] = role /\ ended[id] > 0
        /\ role # "tool" /\ id \in worded => Begun(id, role, i + 1)
    BY <2>1, <2>2 DEF Sent, EndsSent
  <2>4. event.half = "last" => id # event.id
    <3>1. event.half = "last" => ended[event.id] < ended[id]
      BY <1>2, <1>5, <2>1, <2>2 DEF Sent, EndsSent
    <3>2. ended[event.id] \in Nat
      BY <1>2 DEF Types, HostOK
    <3> QED
      BY <3>1, <3>2
  <2>5. role # "tool" /\ id \in worded => Begun(stream[i].id, stream[i].role, i)'
    <3> SUFFICES ASSUME role # "tool", id \in worded PROVE Begun(stream[i].id, stream[i].role, i)'
      OBVIOUS
    <3>1. \/ id \in lost'
          \/ role \in DOMAIN buffered' /\ id \in buffered'[role]
          \/ \E k \in DOMAIN stream' : k < i /\ stream'[k] = FirstHalf(id, role)
      BY <1>6, <2>1, <2>3, <2>4
    <3> QED
      BY <2>1, <2>2, <3>1 DEF Begun
  <2> QED
    BY <1>1, <2>1, <2>2, <2>3, <2>5
<1>8. ASSUME NEW i \in DOMAIN stream', NEW j \in DOMAIN stream', i < j, Completes(i)', Completes(j)'
      PROVE  ended'[stream'[i].id] < ended'[stream'[j].id]
  <2>1. /\ i + 1 \in DOMAIN stream /\ j + 1 \in DOMAIN stream /\ i + 1 < j + 1
        /\ Completes(i + 1) /\ Completes(j + 1)
        /\ stream'[i] = stream[i + 1] /\ stream'[j] = stream[j + 1]
    BY <1>2, <1>3, <1>4, <1>8
  <2> QED
    BY <1>1, <2>1 DEF Sent, EndsSent
<1>9. ASSUME NEW id, NEW role, Begun(id, role, Len(stream) + 1),
             event.half = "last" => id # event.id
      PROVE  \/ id \in lost'
             \/ role \in DOMAIN buffered' /\ id \in buffered'[role]
             \/ \E k \in DOMAIN stream' : k < Len(stream') + 1 /\ stream'[k] = FirstHalf(id, role)
  <2>1. PICK n \in Nat : n = Len(stream) /\ n >= 1 /\ n = Len(stream') + 1
    BY <1>2
  <2> QED
    BY <1>6, <1>9, <2>1
<1>10. session' = "prompting" => Begun(NextId, "user", Len(stream) + 1)'
  <2> SUFFICES ASSUME session = "prompting" PROVE Begun(NextId, "user", Len(stream) + 1)'
    BY <1>1
  <2>1. PICK id : id = NextId
    OBVIOUS
  <2>2. event.half = "last" => id # event.id
    BY <1>5, <2>1, ArrayFacts
  <2>3. Begun(id, "user", Len(stream) + 1)
    BY <2>1 DEF Sent, HalvesSent
  <2>4. NextId' = id
    BY <1>1, <2>1, LatestKept
  <2> QED
    BY <1>9, <2>2, <2>3, <2>4 DEF Begun
<1>11. \A i, role : LastOf(i, role)' <=> LastOf(i, role)
  BY <1>1, LastOfKept
<1>12. ASSUME session' = "spoken", NEW i \in Ids, LastOf(i, "assistant")'
       PROVE  Begun(i, "assistant", Len(stream) + 1)'
  <2>1. session = "spoken" /\ LastOf(i, "assistant")
    BY <1>1, <1>11, <1>12
  <2>2. ~(ended[i] > 0)
    BY <2>1 DEF Hosting, InStep
  <2>3. event.half = "last" => i # event.id
    BY <1>5, <2>2
  <2>4. Begun(i, "assistant", Len(stream) + 1)
    BY <2>1 DEF Sent, HalvesSent
  <2> QED
    BY <1>9, <2>3, <2>4 DEF Begun
<1>13. EndsSent'
  BY <1>7, <1>8 DEF EndsSent
<1>14. HalvesSent'
  BY <1>1, <1>10, <1>11, <1>12 DEF Sent, HalvesSent
<1> QED
  BY <1>13, <1>14 DEF Sent

\* Steps that only add losses, or leave the stream alone.
LEMMA SentKept ==
    ASSUME Sent, UNCHANGED <<stream, transcript, worded, ended, buffered>>, lost \subseteq lost',
           session' = session \/ session' = "answering"
    PROVE  Sent'
<1>1. ASSUME NEW id, NEW role, NEW n, Begun(id, role, n)
      PROVE  \/ id \in lost'
             \/ role \in DOMAIN buffered /\ id \in buffered[role]
             \/ \E k \in DOMAIN stream : k < n /\ stream[k] = FirstHalf(id, role)
  BY <1>1 DEF Begun
<1>2. \A i \in DOMAIN stream : Completes(i)' = Completes(i)
  BY DEF Completes
<1>3. NextId' = NextId /\ \A i, role : LastOf(i, role)' <=> LastOf(i, role)
  BY LatestKept, LastOfKept
<1>4. ASSUME NEW i \in DOMAIN stream, Completes(i)
      PROVE  /\ stream[i].id \in DOMAIN transcript /\ transcript[stream[i].id] = stream[i].role
             /\ ended[stream[i].id] > 0
             /\ stream[i].role # "tool" /\ stream[i].id \in worded => Begun(stream[i].id, stream[i].role, i)'
  BY <1>1, <1>4 DEF Sent, EndsSent, Begun
<1>5. EndsSent'
  BY <1>2, <1>4 DEF Sent, EndsSent
<1>6. session' = "prompting" => Begun(NextId, "user", Len(stream) + 1)'
  BY <1>1, <1>3 DEF Sent, HalvesSent, Begun
<1>7. ASSUME session' = "spoken", NEW i \in Ids, LastOf(i, "assistant")'
      PROVE  Begun(i, "assistant", Len(stream) + 1)'
  BY <1>1, <1>3, <1>7 DEF Sent, HalvesSent, Begun
<1> QED
  BY <1>3, <1>5, <1>6, <1>7 DEF Sent, HalvesSent

LEMMA SentDisconnect == ASSUME Types, Sent, Disconnect PROVE Sent'
<1>1. /\ stream' = <<>> /\ lost' = lost \cup {stream[i].id : i \in DOMAIN stream}
      /\ UNCHANGED <<session, transcript, worded, ended, buffered>>
  BY DEF Disconnect, sessionVars
<1>2. NextId' = NextId /\ \A i, role : LastOf(i, role)' <=> LastOf(i, role)
  BY <1>1, LatestKept, LastOfKept
<1>3. ASSUME NEW id, NEW role, Begun(id, role, Len(stream) + 1)
      PROVE  \/ id \in lost'
             \/ role \in DOMAIN buffered' /\ id \in buffered'[role]
  BY <1>1, <1>3 DEF Begun, FirstHalf
<1>4. EndsSent'
  BY <1>1 DEF EndsSent
<1>5. session' = "prompting" => Begun(NextId, "user", Len(stream) + 1)'
  BY <1>1, <1>2, <1>3 DEF Sent, HalvesSent, Begun
<1>6. ASSUME session' = "spoken", NEW i \in Ids, LastOf(i, "assistant")'
      PROVE  Begun(i, "assistant", Len(stream) + 1)'
  BY <1>1, <1>2, <1>3, <1>6 DEF Sent, HalvesSent, Begun
<1> QED
  BY <1>1, <1>2, <1>4, <1>5, <1>6 DEF Sent, HalvesSent

LEMMA SentNext == ASSUME Types, Hosting, Sent, Kept, [Next]_vars PROVE Sent'
<1>1. CASE Host
  BY <1>1, SentBegin, SentStartStep, SentEnd DEF Host
<1>2. CASE Run \/ RunFails
  BY <1>2, SentKept DEF Run, RunFails, sessionVars, eventVars
<1>3. CASE BeginHook
  BY <1>3, SentKept DEF BeginHook, sessionVars, eventVars
<1>4. CASE Reconnect \/ SkipHook \/ Drain \/ DrainTimeout \/ LoadPlan \/ PlanFails \/ ApplyPlan
  BY <1>4, SentKept DEF Reconnect, SkipHook, Drain, DrainTimeout, LoadPlan, PlanFails, ApplyPlan, Send,
                        sessionVars, eventVars
<1>5. CASE UNCHANGED vars
  BY <1>5, SentKept DEF vars, sessionVars, eventVars
<1> QED
  BY <1>1, <1>2, <1>3, <1>4, <1>5, SentHandle, SentDisconnect DEF Next

(***************************************************************************)
(* No loss without a failure                                               *)
(***************************************************************************)
\* A command that has run leaves its message stored or lost.
LEMMA HeadSettled ==
    ASSUME Types, Run \/ RunFails
    PROVE  /\ queue # <<>> /\ queue' = Tail(queue) /\ Head(queue) \in Commands
           /\ stored' \in Seq(Ids) /\ ToSet(stored) \subseteq ToSet(stored') /\ lost \subseteq lost'
           /\ Head(queue) # Doctor => Head(queue) \in ToSet(stored') \cup lost'
<1>1. queue # <<>> /\ queue' = Tail(queue)
  BY DEF Run, RunFails
<1>2. Head(queue) \in Commands
  BY <1>1, HeadFacts DEF Types
<1>3. StoreId(Head(queue)) \/ (stored' = stored /\ RunFails)
  BY DEF Run, RunFails
<1>4. /\ stored' \in Seq(Ids) /\ ToSet(stored) \subseteq ToSet(stored') /\ lost \subseteq lost'
      /\ StoreId(Head(queue)) /\ Head(queue) # Doctor => Head(queue) \in ToSet(stored')
  BY <1>2, <1>3, StoreFacts DEF Types, QueueOK, Run, RunFails
<1>5. Head(queue) # Doctor => Head(queue) \in ToSet(stored') \cup lost'
  <2>1. CASE Run
    BY <1>4, <2>1 DEF Run
  <2>2. CASE RunFails
    <3>1. lost' = IF Contains(stored', Head(queue)) THEN lost ELSE lost \cup ({Head(queue)} \ {Doctor})
      BY <2>2 DEF RunFails
    <3>2. Contains(stored', Head(queue)) => Head(queue) \in ToSet(stored')
      BY <1>4 DEF Contains, ToSet
    <3> QED
      BY <3>1, <3>2
  <2> QED
    BY <2>1, <2>2
<1> QED
  BY <1>1, <1>2, <1>4, <1>5

LEMMA PlacedRun ==
    ASSUME Types, Run \/ RunFails, NEW id \in Ids, Placed(id)
    PROVE  Placed(id)'
<1>1. queue # <<>> /\ queue' = Tail(queue)
  BY HeadSettled
<1>2. /\ Head(queue) = queue[1]
      /\ \A i \in DOMAIN queue : i > 1 => i - 1 \in DOMAIN queue' /\ queue'[i - 1] = queue[i]
  BY <1>1, HeadFacts DEF Types
<1>3. CASE id \in ToSet(stored) \/ id \in lost
  BY <1>3, HeadSettled DEF Placed
<1>4. CASE \E i \in DOMAIN queue : queue[i] = id
  <2>1. PICK i \in DOMAIN queue : queue[i] = id
    BY <1>4
  <2>2. i \in Nat /\ i >= 1
    BY DEF Types, QueueOK
  <2>3. CASE i = 1
    <3>1. Head(queue) = id /\ id # Doctor
      BY <1>2, <2>1, <2>3 DEF Doctor, Ids
    <3> QED
      BY <3>1, HeadSettled DEF Placed
  <2>4. CASE i > 1
    <3>1. i - 1 \in DOMAIN queue' /\ queue'[i - 1] = id
      BY <1>2, <2>1, <2>4
    <3>2. \E k \in DOMAIN queue' : queue'[k] = id
      BY <3>1
    <3> QED
      BY <3>2 DEF Placed
  <2> QED
    BY <2>2, <2>3, <2>4
<1> QED
  BY <1>3, <1>4 DEF Placed

\* A message that is queued, stored or lost stays so.
LEMMA PlacedNext ==
    ASSUME Types, Hosting, [Next]_vars, NEW id \in Ids, Placed(id)
    PROVE  Placed(id)'
<1>1. CASE Run \/ RunFails
  BY <1>1, PlacedRun
<1>2. CASE ~(Run \/ RunFails)
  <2>1. /\ stored' = stored /\ lost \subseteq lost'
        /\ \A i \in DOMAIN queue : i \in DOMAIN queue' /\ queue'[i] = queue[i]
    <3>1. CASE Host \/ Handle \/ Disconnect \/ Reconnect
      BY <3>1, EventSteps
    <3>2. CASE BeginHook
      <4>1. Anchor \in Ids /\ Ingest(Anchor) /\ stored' = stored /\ lost \subseteq lost'
        BY <3>2, AnchorFacts DEF BeginHook, InTurn
      <4> QED
        BY <4>1, IngestFacts DEF Types
    <3>3. CASE SkipHook \/ Drain \/ DrainTimeout \/ LoadPlan \/ PlanFails \/ ApplyPlan \/ UNCHANGED vars
      BY <3>3 DEF SkipHook, Drain, DrainTimeout, LoadPlan, PlanFails, ApplyPlan, vars
    <3> QED
      BY <1>2, <3>1, <3>2, <3>3 DEF Next
  <2> QED
    BY <2>1 DEF Placed
<1> QED
  BY <1>1, <1>2

\* What ingest is asked to queue is queued afterwards, or was dropped.
LEMMA IngestPlaces ==
    ASSUME Types, NEW id \in Ids, id \in worded, Ingest(id),
           Dropped(id) => id \in ToSet(stored') \cup lost'
    PROVE  Placed(id)'
<1>1. queue' \in Seq(Commands)
  BY IngestFacts DEF Types
<1> QED
  BY <1>1 DEF Dropped, Contains, Placed

LEMMA SomewhereHandled ==
    ASSUME Types, Hosting, Sent, Handle, NEW id \in worded, Somewhere(id)
    PROVE  Somewhere(id)'
<1> DEFINE event == Head(stream)
<1>1. stream # <<>> /\ stream' = Tail(stream)
  BY DEF Handle, HandleFirst, HandleLast, Receive
<1>2. /\ event = stream[1] /\ event \in Emitted /\ 1 \in DOMAIN stream
      /\ \A i \in DOMAIN stream : i > 1 => i - 1 \in DOMAIN stream' /\ stream'[i - 1] = stream[i]
  BY <1>1, StreamFacts DEF Types
<1>3. lost \subseteq lost' /\ id \in Ids
  BY EventSteps DEF Types, HostOK
<1>4. CASE Placed(id)
  BY <1>3, <1>4, PlacedNext DEF Somewhere, Next
<1>5. CASE \E i \in DOMAIN stream : stream[i].id = id /\ Completes(i)
  <2>1. PICK i \in DOMAIN stream : stream[i].id = id /\ Completes(i)
    BY <1>5
  <2>2. i \in Nat /\ i >= 1
    BY DEF Types, StreamOK
  <2>3. CASE i > 1
    <3>1. i - 1 \in DOMAIN stream' /\ stream'[i - 1] = stream[i]
      BY <1>2, <2>3
    <3>2. stream'[i - 1].id = id /\ stream'[i - 1].half = "last"
      BY <2>1, <3>1 DEF Completes
    <3>3. \E k \in DOMAIN stream' : stream'[k].id = id /\ stream'[k].half = "last"
      BY <3>1, <3>2
    <3> QED
      BY <3>3 DEF Somewhere, Completes
  <2>4. CASE i = 1
    <3>1. event.id = id /\ event.half = "last" /\ event.role \in Roles
      BY <1>2, <2>1, <2>4 DEF Completes, Emitted, Event
    <3>2. HandleLast
      BY <3>1 DEF Handle, HandleFirst
    <3>3. CASE Whole(event)
      <4>1. Ingest(id) /\ lost' = IF Dropped(id) THEN lost \cup {id} ELSE lost
        BY <3>1, <3>2, <3>3 DEF HandleLast
      <4>2. Placed(id)'
        BY <1>3, <4>1, IngestPlaces
      <4> QED
        BY <4>2 DEF Somewhere
    <3>4. CASE ~Whole(event)
      <4>1. event.role # "tool" /\ id \notin buffered[event.role]
        BY <3>1, <3>4 DEF Whole
      <4>2. Begun(id, event.role, 1)
        BY <1>2, <2>1, <2>4, <3>1, <4>1 DEF Sent, EndsSent
      <4>3. ~ \E k \in DOMAIN stream : k < 1 /\ stream[k] = FirstHalf(id, event.role)
        BY DEF Types, StreamOK
      <4>4. id \in lost
        BY <4>1, <4>2, <4>3 DEF Begun
      <4> QED
        BY <1>3, <4>4 DEF Somewhere, Placed
    <3> QED
      BY <3>3, <3>4
  <2> QED
    BY <2>2, <2>3, <2>4
<1> QED
  BY <1>4, <1>5 DEF Somewhere

LEMMA SomewhereNext ==
    ASSUME Types, Hosting, Sent, [Next]_vars, NEW id \in worded, Somewhere(id)
    PROVE  Somewhere(id)'
<1>1. id \in Ids
  BY DEF Types, HostOK
<1>2. CASE Placed(id)
  BY <1>1, <1>2, PlacedNext DEF Somewhere
<1>3. CASE \E i \in DOMAIN stream : stream[i].id = id /\ Completes(i)
  <2>1. CASE Handle
    BY <2>1, SomewhereHandled
  <2>2. CASE Disconnect
    <3>1. id \in lost'
      BY <1>3, <2>2 DEF Disconnect
    <3> QED
      BY <3>1 DEF Somewhere, Placed
  <2>3. CASE ~(Handle \/ Disconnect)
    <3>1. \A i \in DOMAIN stream : i \in DOMAIN stream' /\ stream'[i] = stream[i]
      <4>1. CASE Host
        BY <4>1, HostShape
      <4>2. CASE ~Host
        BY <2>3, <4>2 DEF Next, Reconnect, Run, RunFails, BeginHook, SkipHook, Drain, DrainTimeout,
                          LoadPlan, PlanFails, ApplyPlan, vars, eventVars
      <4> QED
        BY <4>1, <4>2
    <3>2. \E i \in DOMAIN stream' : stream'[i].id = id /\ stream'[i].half = "last"
      BY <1>3, <3>1 DEF Completes
    <3> QED
      BY <3>2 DEF Somewhere, Completes
  <2> QED
    BY <2>1, <2>2, <2>3
<1> QED
  BY <1>2, <1>3 DEF Somewhere

\* What only the host changes.
LEMMA OthersKeep ==
    ASSUME [Next]_vars, ~Host
    PROVE  /\ UNCHANGED <<transcript, worded, ended, clock>>
           /\ session' = session \/ (session = "requesting" /\ hook.at = "idle" /\ SkipHook)
              \/ (session' = "answering" /\ hook.at # "idle" /\ hook' = Idle)
  BY DEF Next, Handle, HandleFirst, HandleLast, Disconnect, Reconnect, Run, RunFails, BeginHook, SkipHook,
         Drain, DrainTimeout, LoadPlan, PlanFails, ApplyPlan, Planning, Send, vars, sessionVars

LEMMA TextInSession == ASSUME Types, Hosting, Kept, Host
                       PROVE  /\ worded' \subseteq DOMAIN transcript' \cup {NextId'}
                              /\ session' # "prompting" => worded' \subseteq DOMAIN transcript'
<1>1. /\ worded \subseteq DOMAIN transcript \cup {NextId}
      /\ session # "prompting" => worded \subseteq DOMAIN transcript
  BY DEF Kept
<1>2. CASE BeginPrompt
  <2>1. transcript' = transcript /\ worded' \subseteq worded \cup {NextId} /\ session' = "prompting"
    BY <1>2 DEF BeginPrompt
  <2>2. NextId' = NextId
    BY <2>1, LatestKept
  <2> QED
    BY <1>1, <2>1, <2>2
<1>3. CASE SayText
  <2>1. /\ transcript' = transcript /\ worded' \subseteq worded \cup {Step} /\ session = "silent"
    BY <1>3 DEF SayText
  <2>2. Step \in DOMAIN transcript
    BY <2>1, StepFacts DEF InStep
  <2> QED
    BY <1>1, <2>1, <2>2
<1>4. CASE EndStep
  BY <1>1, <1>4 DEF EndStep
<1>5. CASE EndPrompt \/ EndTool \/ StartStep
  <2>1. \E role \in Roles : transcript' = Append(transcript, role)
    BY <1>5 DEF EndPrompt, EndTool, StartStep, Roles
  <2>2. DOMAIN transcript \subseteq DOMAIN transcript' /\ NextId \in DOMAIN transcript'
    BY <2>1, ArrayFacts
  <2>3. worded' \subseteq worded \cup {NextId}
    BY <1>5 DEF EndPrompt, EndTool, StartStep
  <2> QED
    BY <1>1, <2>2, <2>3
<1> QED
  BY <1>2, <1>3, <1>4, <1>5 DEF Host

LEMMA KeptNext == ASSUME Types, Hosting, Sent, Kept, [Next]_vars PROVE Kept'
<1>1. CASE Host
  <2>1. ASSUME NEW id \in worded', ended'[id] > 0
        PROVE  Somewhere(id)'
    <3>1. /\ id \in Ids /\ ended[id] \in Nat
          /\ id \in worded \/ ended[id] = 0
          /\ ended'[id] # ended[id] =>
              \/ id \in lost'
              \/ \E i \in DOMAIN stream' : stream'[i].id = id /\ stream'[i].half = "last"
      BY <1>1, <2>1, HostShape DEF Types, HostOK
    <3>2. CASE ended[id] > 0
      <4>1. id \in worded /\ Somewhere(id)
        BY <3>1, <3>2 DEF Kept
      <4> QED
        BY <4>1, SomewhereNext
    <3>3. CASE ~(ended[id] > 0)
      <4>1. ended'[id] # ended[id]
        BY <2>1, <3>3
      <4> QED
        BY <3>1, <4>1 DEF Somewhere, Placed, Completes
    <3> QED
      BY <3>2, <3>3
  <2> QED
    BY <1>1, <2>1, TextInSession DEF Kept
<1>2. CASE ~Host
  <2>1. UNCHANGED <<transcript, worded, ended>>
    BY <1>2, OthersKeep
  <2>2. NextId' = NextId
    BY <2>1, LatestKept
  <2>3. session' # "prompting" => session # "prompting"
    BY <1>2, OthersKeep DEF Hosting
  <2>4. \A id \in worded : ended[id] > 0 => Somewhere(id)'
    BY SomewhereNext DEF Kept
  <2> QED
    BY <2>1, <2>2, <2>3, <2>4 DEF Kept
<1> QED
  BY <1>1, <1>2

\* The prompt of the turn is handed on by the hook.
LEMMA HandedHost == ASSUME Types, Hosting, Handed, Host PROVE Handed'
<1> SUFFICES ASSUME NEW p \in Ids, InTurn', (Len(transcript) <= MaxTransform)', LastOf(p, "user")', p \in worded'
             PROVE  \/ Placed(p)'
                    \/ /\ session' = "requesting" /\ hook'.at = "idle"
                       /\ \A id \in Ids : id # p => ended'[id] < ended'[p]
  BY DEF Handed
<1>1. ended \in [Ids -> Nat] /\ clock \in Nat /\ \A id \in Ids : ended[id] <= clock
  BY DEF Types, HostOK, Hosting
<1>2. CASE EndPrompt
  <2>1. /\ transcript' = Append(transcript, "user") /\ "user" \in Roles /\ Complete(NextId)
        /\ session' = "requesting"
    BY <1>2 DEF EndPrompt, Roles
  <2>2. p = NextId
    BY <2>1, LastAppended
  <2>3. /\ ended'[p] = clock + 1 /\ \A x \in Ids : x # p => ended'[x] = ended[x]
    BY <2>1, <2>2, CompleteFacts
  <2>4. hook'.at = "idle"
    BY HostKinds
  <2> QED
    BY <1>1, <2>1, <2>3, <2>4
<1>3. CASE ~EndPrompt
  <2>1. /\ InTurn /\ session # "requesting"
        /\ transcript' = transcript \/ \E role \in Roles : role # "user" /\ transcript' = Append(transcript, role)
    BY <1>3 DEF Host, BeginPrompt, StartStep, SayText, EndTool, EndStep, InTurn, Roles
  <2>2. LastOf(p, "user") /\ Len(transcript) <= MaxTransform
    <3>1. CASE transcript' = transcript
      BY <3>1, LastOfKept
    <3>2. CASE \E role \in Roles : role # "user" /\ transcript' = Append(transcript, role)
      <4>1. PICK role \in Roles : role # "user" /\ transcript' = Append(transcript, role)
        BY <3>2
      <4>2. LastOf(p, "user")
        BY <4>1, LastAppended
      <4>3. Len(transcript') = Len(transcript) + 1 /\ Len(transcript) \in Nat
        BY <4>1, ArrayFacts
      <4> QED
        BY <4>2, <4>3, LimitAssumption
    <3> QED
      BY <2>1, <3>1, <3>2
  <2>3. p \in worded
    <3>1. p \in DOMAIN transcript /\ ~LastOf(p, "assistant")
      BY <2>2 DEF LastOf
    <3>2. ended[p] > 0
      BY <3>1 DEF Hosting
    <3> QED
      BY <3>2, HostShape
  <2>4. Placed(p)
    BY <2>1, <2>2, <2>3 DEF Handed
  <2> QED
    BY <2>4, PlacedNext DEF Next
<1> QED
  BY <1>2, <1>3

LEMMA HandedNext == ASSUME Types, Hosting, Handed, [Next]_vars PROVE Handed'
<1>1. CASE Host
  BY <1>1, HandedHost
<1>2. CASE ~Host
  <2> SUFFICES ASSUME NEW p \in Ids, InTurn', (Len(transcript) <= MaxTransform)', LastOf(p, "user")', p \in worded'
               PROVE  \/ Placed(p)'
                      \/ /\ session' = "requesting" /\ hook'.at = "idle"
                         /\ \A id \in Ids : id # p => ended'[id] < ended'[p]
    BY DEF Handed
  <2>1. UNCHANGED <<transcript, worded, ended>>
    BY <1>2, OthersKeep
  <2>2. LastOf(p, "user") /\ Len(transcript) <= MaxTransform /\ p \in worded
    BY <2>1, LastOfKept
  <2>3. ~SkipHook
    BY <2>2, ArrayFacts, LimitAssumption DEF SkipHook
  <2>4. InTurn
    BY <1>2, OthersKeep DEF InTurn, Hosting
  <2>5. CASE Placed(p)
    BY <2>5, PlacedNext
  <2>6. CASE ~Placed(p)
    <3>1. /\ session = "requesting" /\ hook.at = "idle"
          /\ \A id \in Ids : id # p => ended[id] < ended[p]
      BY <2>2, <2>4, <2>6 DEF Handed
    <3>2. CASE BeginHook
      <4>1. p = Anchor /\ Ingest(Anchor) /\ stored' = stored
        BY <2>2, <3>2, LatestIs DEF Types, Anchor, BeginHook
      <4>2. Dropped(p) /\ ~Contains(stored, p) => p \in lost'
        BY <3>2, <4>1 DEF BeginHook
      <4>3. Contains(stored, p) => p \in ToSet(stored)
        BY DEF Contains, ToSet, Types, QueueOK
      <4> QED
        BY <2>2, <4>1, <4>2, <4>3, IngestPlaces
    <3>3. CASE ~BeginHook
      <4>1. hook'.at = hook.at
        BY <1>2, <2>3, <3>1, <3>3
        DEF Next, Handle, HandleFirst, HandleLast, Disconnect, Reconnect, Run, RunFails, Advance, Drain,
            DrainTimeout, LoadPlan, PlanFails, ApplyPlan, Planning, vars, hookVars, Types, HookOK
      <4>2. session' = session
        BY <1>2, <2>3, <3>1, OthersKeep
      <4> QED
        BY <2>1, <3>1, <4>1, <4>2
    <3> QED
      BY <3>2, <3>3
  <2> QED
    BY <2>5, <2>6
<1> QED
  BY <1>1, <1>2

(***************************************************************************)
(* The order of the store                                                  *)
(***************************************************************************)
LEMMA RolesKept ==
    ASSUME UNCHANGED <<transcript, ended>>
    PROVE  \A id : /\ IsReply(id)' <=> IsReply(id)
                   /\ IsPrompt(id)' <=> IsPrompt(id)
                   /\ Completed(id)' <=> Completed(id)
  BY DEF IsReply, IsPrompt, Completed

\* What has ended keeps its role and its place in time.
LEMMA CompletedKept ==
    ASSUME Types, Hosting, Host
    PROVE  \A id : Completed(id) =>
               /\ Completed(id)' /\ ended'[id] = ended[id]
               /\ IsReply(id)' <=> IsReply(id)
               /\ IsPrompt(id)' <=> IsPrompt(id)
<1>1. /\ \A i \in DOMAIN transcript : i \in DOMAIN transcript' /\ transcript'[i] = transcript[i]
      /\ \A id \in Ids : ended[id] > 0 => ended'[id] = ended[id]
      /\ DOMAIN transcript \subseteq Ids
  BY HostShape, ArrayFacts
<1> QED
  BY <1>1 DEF Completed, IsReply, IsPrompt

LEMMA OrderedHost == ASSUME Types, Hosting, Ordered, Host PROVE Ordered'
<1>1. stored' = stored /\ queue' = queue
  BY HostKinds
<1>2. /\ lost \subseteq lost'
      /\ \A i \in DOMAIN stream : i \in DOMAIN stream' /\ stream'[i] = stream[i]
      /\ \A i \in DOMAIN stream' : i \notin DOMAIN stream /\ stream'[i].half = "last" =>
           ended'[stream'[i].id] = clock + 1
  BY HostShape
<1>3. \A id : Completed(id) =>
        /\ Completed(id)' /\ ended'[id] = ended[id]
        /\ IsReply(id)' <=> IsReply(id)
        /\ IsPrompt(id)' <=> IsPrompt(id)
  BY CompletedKept
<1>4. /\ \A i \in DOMAIN stored : Completed(stored[i])
      /\ \A i \in DOMAIN queue : queue[i] # Doctor => Completed(queue[i])
  BY DEF Ordered
<1>5. \A id : Completed(id) => ended[id] < clock + 1
  <2>1. clock \in Nat /\ ended \in [Ids -> Nat] /\ DOMAIN transcript \subseteq Ids
    BY ArrayFacts DEF Types, HostOK
  <2>2. \A id \in Ids : ended[id] \in Nat /\ ended[id] <= clock
    BY <2>1 DEF Hosting
  <2>3. \A id \in Ids : ended[id] < clock + 1
    BY <2>1, <2>2
  <2> QED
    BY <2>1, <2>3 DEF Completed
<1>6. ASSUME NEW j \in DOMAIN stream', Completes(j)', NEW id, Completed(id),
             j \in DOMAIN stream => ended[id] < ended[stream[j].id]
      PROVE  ended'[id] < ended'[stream'[j].id]
  <2>1. ended'[id] = ended[id]
    BY <1>3, <1>6
  <2>2. CASE j \in DOMAIN stream
    <3>1. stream'[j] = stream[j] /\ ended[stream[j].id] > ended[id] /\ stream[j].id \in Ids
      BY <1>2, <1>6, <2>2 DEF Types, StreamOK, Emitted, Event
    <3>2. id \in Ids /\ ended \in [Ids -> Nat]
      BY <1>6, ArrayFacts DEF Completed, Types, HostOK
    <3>3. ended[stream[j].id] > 0
      BY <3>1, <3>2
    <3>4. ended'[stream[j].id] = ended[stream[j].id]
      BY <3>1, <3>3, HostShape
    <3> QED
      BY <2>1, <3>1, <3>4
  <2>3. CASE j \notin DOMAIN stream
    <3>1. ended'[stream'[j].id] = clock + 1
      BY <1>2, <1>6, <2>3 DEF Completes
    <3> QED
      BY <1>5, <1>6, <2>1, <3>1
  <2> QED
    BY <2>2, <2>3
<1>7. \A j \in DOMAIN stream' : Completes(j)' /\ j \in DOMAIN stream => Completes(j)
  BY <1>2 DEF Completes
<1>8. /\ \A i \in DOMAIN stored' : Completed(stored[i])'
      /\ \A i \in DOMAIN queue' : queue'[i] # Doctor => Completed(queue[i])'
  <2>1. \A i \in DOMAIN stored' : stored'[i] = stored[i] /\ Completed(stored[i])
    BY <1>1, <1>4
  <2>2. \A i \in DOMAIN queue' : queue'[i] = queue[i] /\ (queue[i] # Doctor => Completed(queue[i]))
    BY <1>1, <1>4
  <2>3. \A id : Completed(id) => id \in DOMAIN transcript' /\ ended'[id] > 0
    BY <1>3 DEF Completed
  <2> QED
    BY <2>1, <2>2, <2>3 DEF Completed
<1>9. /\ \A i \in DOMAIN stored : IsReply(stored[i])' <=> IsReply(stored[i])
      /\ \A i \in DOMAIN stored : IsPrompt(stored[i])' <=> IsPrompt(stored[i])
      /\ \A i \in DOMAIN stored : ended'[stored[i]] = ended[stored[i]]
  BY <1>1, <1>3, <1>4 DEF IsReply, IsPrompt
<1>10. \A i \in DOMAIN queue :
         /\ IsReply(queue[i])' <=> IsReply(queue[i])
         /\ IsPrompt(queue[i])' <=> IsPrompt(queue[i])
         /\ queue[i] # Doctor => ended'[queue[i]] = ended[queue[i]]
  BY <1>1, <1>3, <1>4 DEF IsReply, IsPrompt
<1>11. \A i, j \in DOMAIN stored' : i < j /\ IsReply(stored[i])' =>
         \/ ended'[stored'[i]] < ended'[stored'[j]]
         \/ IsPrompt(stored[j])' /\ stored'[j] \in lost'
  BY <1>1, <1>2, <1>9 DEF Ordered
<1>12. \A i \in DOMAIN stored' : \A j \in DOMAIN queue' :
         IsReply(stored[i])' /\ queue'[j] # Doctor =>
         \/ ended'[stored'[i]] < ended'[queue'[j]]
         \/ IsPrompt(queue[j])' /\ queue'[j] \in lost' \cup ToSet(stored')
  BY <1>1, <1>2, <1>9, <1>10 DEF Ordered
<1>13. ASSUME NEW i \in DOMAIN queue', NEW j \in DOMAIN queue',
              i < j, IsReply(queue[i])', queue'[j] # Doctor
       PROVE  \/ ended'[queue'[i]] < ended'[queue'[j]]
              \/ IsPrompt(queue[j])' /\ queue'[j] \in lost' \cup ToSet(stored')
              \/ IsPrompt(queue[j])' /\ \E k \in DOMAIN queue' : k < i /\ queue'[k] = queue'[j]
  <2>1. IsReply(queue[i]) /\ queue[i] # Doctor /\ queue[j] # Doctor
    BY <1>1, <1>10, <1>13 DEF IsReply
  <2>2. \/ ended[queue[i]] < ended[queue[j]]
        \/ IsPrompt(queue[j]) /\ queue[j] \in lost \cup ToSet(stored)
        \/ IsPrompt(queue[j]) /\ \E k \in DOMAIN queue : k < i /\ queue[k] = queue[j]
    BY <1>1, <1>13, <2>1 DEF Ordered
  <2> QED
    BY <1>1, <1>2, <1>10, <2>1, <2>2
<1>14. \A i \in DOMAIN stored' : \A j \in DOMAIN stream' :
         IsReply(stored[i])' /\ Completes(j)' => ended'[stored'[i]] < ended'[stream'[j].id]
  <2> SUFFICES ASSUME NEW i \in DOMAIN stored', NEW j \in DOMAIN stream', IsReply(stored[i])', Completes(j)'
               PROVE  ended'[stored'[i]] < ended'[stream'[j].id]
    OBVIOUS
  <2>1. Completed(stored[i]) /\ stored'[i] = stored[i]
    BY <1>1, <1>4
  <2>2. j \in DOMAIN stream => ended[stored[i]] < ended[stream[j].id]
    BY <1>1, <1>7, <1>9 DEF Ordered
  <2> QED
    BY <1>6, <2>1, <2>2
<1>15. \A i \in DOMAIN queue' : \A j \in DOMAIN stream' :
         IsReply(queue[i])' /\ Completes(j)' => ended'[queue'[i]] < ended'[stream'[j].id]
  <2> SUFFICES ASSUME NEW i \in DOMAIN queue', NEW j \in DOMAIN stream', IsReply(queue[i])', Completes(j)'
               PROVE  ended'[queue'[i]] < ended'[stream'[j].id]
    OBVIOUS
  <2>1. IsReply(queue[i]) /\ queue'[i] = queue[i]
    BY <1>1, <1>10
  <2>2. Completed(queue[i])
    BY <1>1, <1>4, <2>1 DEF IsReply
  <2>3. j \in DOMAIN stream => ended[queue[i]] < ended[stream[j].id]
    BY <1>1, <1>7, <2>1 DEF Ordered
  <2> QED
    BY <1>6, <2>1, <2>2, <2>3
<1> QED
  BY <1>8, <1>11, <1>12, <1>13, <1>14, <1>15 DEF Ordered

\* The queue may get a doctor, and a message behind all that it has.
LEMMA OrderedIngest ==
    ASSUME Types, Ordered, NEW id \in Ids, Ingest(id), Completed(id),
           UNCHANGED <<transcript, ended, stored>>, lost \subseteq lost',
           \A j \in DOMAIN stream' : Completes(j)' =>
               \E k \in DOMAIN stream : stream'[j] = stream[k] /\ Completes(k),
           \A i \in DOMAIN stored : IsReply(stored[i]) =>
               ended[stored[i]] < ended[id] \/ (IsPrompt(id) /\ id \in lost \cup ToSet(stored)),
           \A i \in DOMAIN queue : IsReply(queue[i]) =>
               \/ ended[queue[i]] < ended[id]
               \/ IsPrompt(id) /\ id \in lost \cup ToSet(stored)
               \/ IsPrompt(id) /\ \E k \in DOMAIN queue : k < i /\ queue[k] = id,
           IsReply(id) => \A j \in DOMAIN stream' : Completes(j)' => ended[id] < ended[stream'[j].id]
    PROVE  Ordered'
<1>1. /\ queue' \in Seq(Commands)
      /\ \A i \in DOMAIN queue : i \in DOMAIN queue' /\ queue'[i] = queue[i]
      /\ \A i \in DOMAIN queue' : i \notin DOMAIN queue =>
           queue'[i] = Doctor \/ (queue'[i] = id /\ i = Len(queue'))
  BY IngestFacts DEF Types
<1>2. \A n : /\ IsReply(n)' <=> IsReply(n)
             /\ IsPrompt(n)' <=> IsPrompt(n)
             /\ Completed(n)' <=> Completed(n)
  BY RolesKept
<1>3. DOMAIN queue' = 1..Len(queue') /\ Len(queue') \in Nat
  BY <1>1
<1>4. \A i \in DOMAIN queue' : queue'[i] # Doctor =>
        \/ i \in DOMAIN queue /\ queue[i] # Doctor /\ queue'[i] = queue[i]
        \/ i \notin DOMAIN queue /\ queue'[i] = id /\ i = Len(queue')
  BY <1>1
<1>5. \A i \in DOMAIN queue' : IsReply(queue'[i]) => queue'[i] # Doctor
  BY DEF IsReply
<1>6. \A i \in DOMAIN queue' : queue'[i] # Doctor => Completed(queue'[i])
  BY <1>4 DEF Ordered
<1>7. ASSUME NEW i \in DOMAIN queue', NEW j \in DOMAIN queue',
             i < j, IsReply(queue'[i]), queue'[j] # Doctor
      PROVE  \/ ended[queue'[i]] < ended[queue'[j]]
             \/ IsPrompt(queue'[j]) /\ queue'[j] \in lost' \cup ToSet(stored)
             \/ IsPrompt(queue'[j]) /\ \E k \in DOMAIN queue' : k < i /\ queue'[k] = queue'[j]
  <2>1. i \in DOMAIN queue /\ queue'[i] = queue[i]
    BY <1>3, <1>4, <1>5, <1>7
  <2>2. CASE j \in DOMAIN queue
    <3>1. queue'[j] = queue[j]
      BY <1>1, <2>2
    <3>2. \/ ended[queue[i]] < ended[queue[j]]
          \/ IsPrompt(queue[j]) /\ queue[j] \in lost \cup ToSet(stored)
          \/ IsPrompt(queue[j]) /\ \E k \in DOMAIN queue : k < i /\ queue[k] = queue[j]
      BY <1>7, <2>1, <2>2, <3>1 DEF Ordered
    <3> QED
      BY <1>1, <2>1, <3>1, <3>2
  <2>3. CASE j \notin DOMAIN queue
    <3>1. queue'[j] = id
      BY <1>4, <1>7, <2>3
    <3>2. \/ ended[queue[i]] < ended[id]
          \/ IsPrompt(id) /\ id \in lost \cup ToSet(stored)
          \/ IsPrompt(id) /\ \E k \in DOMAIN queue : k < i /\ queue[k] = id
      BY <1>7, <2>1
    <3> QED
      BY <1>1, <2>1, <3>1, <3>2
  <2> QED
    BY <2>2, <2>3
<1>8. ASSUME NEW i \in DOMAIN stored, NEW j \in DOMAIN queue', IsReply(stored[i]), queue'[j] # Doctor
      PROVE  \/ ended[stored[i]] < ended[queue'[j]]
             \/ IsPrompt(queue'[j]) /\ queue'[j] \in lost' \cup ToSet(stored)
  <2>1. CASE j \in DOMAIN queue
    BY <1>1, <1>8, <2>1 DEF Ordered
  <2>2. CASE j \notin DOMAIN queue
    BY <1>4, <1>8, <2>2
  <2> QED
    BY <2>1, <2>2
<1>9. ASSUME NEW i \in DOMAIN stored, NEW j \in DOMAIN stream', IsReply(stored[i]), Completes(j)'
      PROVE  ended[stored[i]] < ended[stream'[j].id]
  BY <1>9 DEF Ordered
<1>10. ASSUME NEW i \in DOMAIN queue', NEW j \in DOMAIN stream', IsReply(queue'[i]), Completes(j)'
       PROVE  ended[queue'[i]] < ended[stream'[j].id]
  BY <1>4, <1>5, <1>10 DEF Ordered
<1>11. \A i \in DOMAIN stored : /\ IsReply(stored[i])' <=> IsReply(stored[i])
                                /\ IsPrompt(stored[i])' <=> IsPrompt(stored[i])
                                /\ Completed(stored[i])' <=> Completed(stored[i])
  BY DEF IsReply, IsPrompt, Completed
<1>12. \A i \in DOMAIN queue' : /\ IsReply(queue[i])' <=> IsReply(queue'[i])
                                /\ IsPrompt(queue[i])' <=> IsPrompt(queue'[i])
                                /\ Completed(queue[i])' <=> Completed(queue'[i])
  BY DEF IsReply, IsPrompt, Completed
<1>13. \A i, j \in DOMAIN stored' : i < j /\ IsReply(stored[i])' =>
         \/ ended'[stored'[i]] < ended'[stored'[j]]
         \/ IsPrompt(stored[j])' /\ stored'[j] \in lost'
  BY <1>11 DEF Ordered
<1>14. /\ \A i \in DOMAIN stored' : Completed(stored[i])'
       /\ \A i \in DOMAIN queue' : queue'[i] # Doctor => Completed(queue[i])'
  BY <1>6, <1>11, <1>12 DEF Ordered
<1> QED
  BY <1>7, <1>8, <1>9, <1>10, <1>11, <1>12, <1>13, <1>14 DEF Ordered

\* Steps that take events off the stream, or nothing at all.
LEMMA OrderedKept ==
    ASSUME Ordered, UNCHANGED <<transcript, ended, stored, queue>>, lost \subseteq lost',
           \A j \in DOMAIN stream' : Completes(j)' =>
               \E k \in DOMAIN stream : stream'[j] = stream[k] /\ Completes(k)
    PROVE  Ordered'
<1>1. \A i \in DOMAIN stored : /\ IsReply(stored[i])' <=> IsReply(stored[i])
                               /\ IsPrompt(stored[i])' <=> IsPrompt(stored[i])
                               /\ Completed(stored[i])' <=> Completed(stored[i])
  BY DEF IsReply, IsPrompt, Completed
<1>2. \A i \in DOMAIN queue : /\ IsReply(queue[i])' <=> IsReply(queue[i])
                              /\ IsPrompt(queue[i])' <=> IsPrompt(queue[i])
                              /\ Completed(queue[i])' <=> Completed(queue[i])
  BY DEF IsReply, IsPrompt, Completed
<1>3. ASSUME NEW i \in DOMAIN stored, NEW j \in DOMAIN stream', IsReply(stored[i]), Completes(j)'
      PROVE  ended[stored[i]] < ended[stream'[j].id]
  BY <1>3 DEF Ordered
<1>4. ASSUME NEW i \in DOMAIN queue, NEW j \in DOMAIN stream', IsReply(queue[i]), Completes(j)'
      PROVE  ended[queue[i]] < ended[stream'[j].id]
  BY <1>4 DEF Ordered
<1>5. /\ \A i, j \in DOMAIN stored' : i < j /\ IsReply(stored[i])' =>
           \/ ended'[stored'[i]] < ended'[stored'[j]]
           \/ IsPrompt(stored[j])' /\ stored'[j] \in lost'
      /\ \A i \in DOMAIN stored' : \A j \in DOMAIN queue' :
           IsReply(stored[i])' /\ queue'[j] # Doctor =>
           \/ ended'[stored'[i]] < ended'[queue'[j]]
           \/ IsPrompt(queue[j])' /\ queue'[j] \in lost' \cup ToSet(stored')
  BY <1>1, <1>2 DEF Ordered
<1>6. \A i, j \in DOMAIN queue' :
        i < j /\ IsReply(queue[i])' /\ queue'[j] # Doctor =>
        \/ ended'[queue'[i]] < ended'[queue'[j]]
        \/ IsPrompt(queue[j])' /\ queue'[j] \in lost' \cup ToSet(stored')
        \/ IsPrompt(queue[j])' /\ \E k \in DOMAIN queue' : k < i /\ queue'[k] = queue'[j]
  BY <1>2 DEF Ordered
<1>7. /\ \A i \in DOMAIN stored' : Completed(stored[i])'
      /\ \A i \in DOMAIN queue' : queue'[i] # Doctor => Completed(queue[i])'
  BY <1>1, <1>2 DEF Ordered
<1> QED
  BY <1>1, <1>2, <1>3, <1>4, <1>5, <1>6, <1>7 DEF Ordered

LEMMA OrderedHandle == ASSUME Types, Sent, Ordered, Handle PROVE Ordered'
<1> DEFINE event == Head(stream)
<1>1. /\ stream # <<>> /\ stream' = Tail(stream) /\ UNCHANGED <<transcript, ended, stored>>
      /\ lost \subseteq lost'
  BY DEF Handle, HandleFirst, HandleLast, Receive, sessionVars
<1>2. /\ event = stream[1] /\ event \in Emitted /\ 1 \in DOMAIN stream
      /\ \A j \in DOMAIN stream' : j + 1 \in DOMAIN stream /\ stream'[j] = stream[j + 1]
  BY <1>1, StreamFacts DEF Types
<1>3. \A j \in DOMAIN stream' : 1 < j + 1
  BY <1>1, StreamFacts DEF Types
<1>4. \A j \in DOMAIN stream' : Completes(j)' =>
        j + 1 \in DOMAIN stream /\ stream'[j] = stream[j + 1] /\ Completes(j + 1)
  BY <1>2 DEF Completes
<1>5. \A j \in DOMAIN stream' : Completes(j)' =>
        \E k \in DOMAIN stream : stream'[j] = stream[k] /\ Completes(k)
  BY <1>4
<1>6. CASE queue' = queue
  BY <1>1, <1>5, <1>6, OrderedKept
<1>7. CASE queue' # queue
  <2>1. Ingest(event.id) /\ event.half = "last"
    BY <1>7 DEF Handle, HandleFirst, HandleLast
  <2>2. PICK id \in Ids : id = event.id /\ Completes(1) /\ Ingest(id)
    BY <1>2, <2>1 DEF Completes, Emitted, Event
  <2>3. Completed(id)
    BY <1>2, <2>2 DEF Sent, EndsSent, Completed
  <2>4. /\ \A i \in DOMAIN stored : IsReply(stored[i]) => ended[stored[i]] < ended[id]
        /\ \A i \in DOMAIN queue : IsReply(queue[i]) => ended[queue[i]] < ended[id]
    BY <1>2, <2>2 DEF Ordered
  <2>5. \A j \in DOMAIN stream' : Completes(j)' => ended[id] < ended[stream'[j].id]
    BY <1>2, <1>3, <1>4, <2>2 DEF Sent, EndsSent
  <2> QED
    BY <1>1, <1>5, <2>2, <2>3, <2>4, <2>5, OrderedIngest
<1> QED
  BY <1>6, <1>7

LEMMA OrderedRun == ASSUME Types, Ordered, Run \/ RunFails PROVE Ordered'
<1>1. /\ queue # <<>> /\ queue' = Tail(queue) /\ UNCHANGED <<transcript, ended, stream>>
  BY DEF Run, RunFails, sessionVars, eventVars
<1>2. /\ Head(queue) \in Commands /\ Head(queue) = queue[1] /\ 1 \in DOMAIN queue
      /\ \A i \in DOMAIN queue' : i + 1 \in DOMAIN queue /\ queue'[i] = queue[i + 1]
      /\ \A i \in DOMAIN queue : i > 1 => i - 1 \in DOMAIN queue' /\ queue'[i - 1] = queue[i]
  BY <1>1, HeadFacts DEF Types
<1>3. /\ \A i \in DOMAIN queue' : i \in Nat /\ i >= 1
      /\ \A i \in DOMAIN queue : i \in Nat /\ i >= 1
  BY <1>1, HeadFacts DEF Types, QueueOK
<1>4. StoreId(Head(queue)) \/ stored' = stored
  BY DEF Run, RunFails
<1>5. /\ stored' \in Seq(Ids)
      /\ \A i \in DOMAIN stored : i \in DOMAIN stored' /\ stored'[i] = stored[i]
      /\ \A i \in DOMAIN stored' : i \notin DOMAIN stored =>
           i = Len(stored') /\ stored'[i] = queue[1] /\ queue[1] # Doctor /\ queue[1] \notin ToSet(stored)
  BY <1>2, <1>4, StoreFacts DEF Types, QueueOK
<1>6. /\ ToSet(stored) \subseteq ToSet(stored') /\ lost \subseteq lost'
      /\ queue[1] # Doctor => queue[1] \in ToSet(stored') \cup lost'
  BY <1>2, HeadSettled
<1>7. DOMAIN stored' = 1..Len(stored') /\ Len(stored') \in Nat
  BY <1>5
<1>8. /\ \A i \in DOMAIN stored' : /\ IsReply(stored[i])' <=> IsReply(stored'[i])
                                   /\ IsPrompt(stored[i])' <=> IsPrompt(stored'[i])
      /\ \A i \in DOMAIN queue' : /\ IsReply(queue[i])' <=> IsReply(queue'[i])
                                  /\ IsPrompt(queue[i])' <=> IsPrompt(queue'[i])
  BY <1>1 DEF IsReply, IsPrompt
<1>9. \A j \in DOMAIN stream' : Completes(j)' => j \in DOMAIN stream /\ Completes(j) /\ stream'[j] = stream[j]
  BY <1>1 DEF Completes
<1>10. /\ \A i \in DOMAIN stored' : Completed(stored[i])'
       /\ \A i \in DOMAIN queue' : queue'[i] # Doctor => Completed(queue[i])'
  <2>1. \A i \in DOMAIN stored' : Completed(stored'[i])
    BY <1>2, <1>5 DEF Ordered
  <2>2. \A i \in DOMAIN queue' : queue'[i] # Doctor => Completed(queue'[i])
    BY <1>2 DEF Ordered
  <2> QED
    BY <1>1, <2>1, <2>2 DEF Completed
<1>11. ASSUME NEW i \in DOMAIN stored', NEW j \in DOMAIN stored', i < j, IsReply(stored'[i])
       PROVE  \/ ended[stored'[i]] < ended[stored'[j]]
              \/ IsPrompt(stored'[j]) /\ stored'[j] \in lost'
  <2>1. CASE i \in DOMAIN stored /\ j \in DOMAIN stored
    BY <1>5, <1>6, <1>11, <2>1 DEF Ordered
  <2>2. CASE i \in DOMAIN stored /\ j \notin DOMAIN stored
    <3>1. stored'[i] = stored[i] /\ stored'[j] = queue[1] /\ queue[1] # Doctor /\ queue[1] \notin ToSet(stored)
      BY <1>5, <2>2
    <3>2. \/ ended[stored[i]] < ended[queue[1]]
          \/ IsPrompt(queue[1]) /\ queue[1] \in lost \cup ToSet(stored)
      BY <1>2, <1>11, <2>2, <3>1 DEF Ordered
    <3> QED
      BY <1>6, <3>1, <3>2
  <2>3. CASE i \notin DOMAIN stored
    BY <1>5, <1>7, <1>11, <2>3
  <2> QED
    BY <2>1, <2>2, <2>3
<1>12. ASSUME NEW i \in DOMAIN queue', NEW j \in DOMAIN queue', i < j, IsReply(queue'[i]), queue'[j] # Doctor
       PROVE  \/ ended[queue'[i]] < ended[queue'[j]]
              \/ IsPrompt(queue'[j]) /\ queue'[j] \in lost' \cup ToSet(stored')
              \/ IsPrompt(queue'[j]) /\ \E k \in DOMAIN queue' : k < i /\ queue'[k] = queue'[j]
  <2>1. /\ i + 1 \in DOMAIN queue /\ queue'[i] = queue[i + 1]
        /\ j + 1 \in DOMAIN queue /\ queue'[j] = queue[j + 1] /\ i + 1 < j + 1
    BY <1>2, <1>3, <1>12
  <2>2. \/ ended[queue[i + 1]] < ended[queue[j + 1]]
        \/ IsPrompt(queue[j + 1]) /\ queue[j + 1] \in lost \cup ToSet(stored)
        \/ IsPrompt(queue[j + 1]) /\ \E k \in DOMAIN queue : k < i + 1 /\ queue[k] = queue[j + 1]
    BY <1>12, <2>1 DEF Ordered
  <2>3. CASE \E k \in DOMAIN queue : k < i + 1 /\ queue[k] = queue[j + 1] /\ IsPrompt(queue[j + 1])
    <3>1. PICK k \in DOMAIN queue : k < i + 1 /\ queue[k] = queue[j + 1] /\ IsPrompt(queue[j + 1])
      BY <2>3
    <3>2. CASE k = 1
      BY <1>6, <1>12, <2>1, <3>1, <3>2
    <3>3. CASE k > 1
      <4>1. k - 1 \in DOMAIN queue' /\ queue'[k - 1] = queue'[j] /\ k - 1 < i
        BY <1>2, <1>3, <2>1, <3>1, <3>3
      <4> QED
        BY <2>1, <3>1, <4>1
    <3> QED
      BY <1>3, <3>2, <3>3
  <2> QED
    BY <1>6, <2>1, <2>2, <2>3
<1>13. ASSUME NEW i \in DOMAIN stored', NEW j \in DOMAIN queue', IsReply(stored'[i]), queue'[j] # Doctor
       PROVE  \/ ended[stored'[i]] < ended[queue'[j]]
              \/ IsPrompt(queue'[j]) /\ queue'[j] \in lost' \cup ToSet(stored')
  <2>1. j + 1 \in DOMAIN queue /\ queue'[j] = queue[j + 1] /\ 1 < j + 1
    BY <1>2, <1>3
  <2>2. CASE i \in DOMAIN stored
    BY <1>5, <1>6, <1>13, <2>1, <2>2 DEF Ordered
  <2>3. CASE i \notin DOMAIN stored
    <3>1. stored'[i] = queue[1]
      BY <1>5, <2>3
    <3>2. \/ ended[queue[1]] < ended[queue[j + 1]]
          \/ IsPrompt(queue[j + 1]) /\ queue[j + 1] \in lost \cup ToSet(stored)
          \/ \E k \in DOMAIN queue : k < 1
      BY <1>2, <1>13, <2>1, <3>1 DEF Ordered
    <3> QED
      BY <1>3, <1>6, <2>1, <3>1, <3>2
  <2> QED
    BY <2>2, <2>3
<1>14. ASSUME NEW i \in DOMAIN stored', NEW j \in DOMAIN stream', IsReply(stored'[i]), Completes(j)'
       PROVE  ended[stored'[i]] < ended[stream'[j].id]
  BY <1>2, <1>5, <1>9, <1>14 DEF Ordered
<1>15. ASSUME NEW i \in DOMAIN queue', NEW j \in DOMAIN stream', IsReply(queue'[i]), Completes(j)'
       PROVE  ended[queue'[i]] < ended[stream'[j].id]
  BY <1>2, <1>9, <1>15 DEF Ordered
<1> QED
  BY <1>1, <1>8, <1>10, <1>11, <1>12, <1>13, <1>14, <1>15 DEF Ordered

\* The hook's prompt is the newest message, or one that was queued, stored or lost.
LEMMA OrderedBeginHook ==
    ASSUME Types, Hosting, Ordered, Handed, BeginHook
    PROVE  Ordered'
<1>1. /\ Ingest(Anchor) /\ UNCHANGED <<transcript, ended, stored, stream>> /\ lost \subseteq lost'
      /\ session = "requesting" /\ Len(transcript) <= MaxTransform
  BY DEF BeginHook, sessionVars, eventVars
<1>2. PICK p \in Ids : p = Anchor /\ LastOf(p, "user")
  BY <1>1, AnchorFacts DEF InTurn
<1>3. \A j \in DOMAIN stream' : Completes(j)' =>
        \E k \in DOMAIN stream : stream'[j] = stream[k] /\ Completes(k)
  BY <1>1 DEF Completes
<1>4. IsPrompt(p) /\ ~IsReply(p) /\ Completed(p)
  <2>1. p \in DOMAIN transcript /\ transcript[p] = "user" /\ p # Doctor
    BY <1>2 DEF LastOf, Doctor, Ids
  <2>2. ended[p] > 0
    BY <1>1, <2>1 DEF Hosting, InStep
  <2> QED
    BY <2>1, <2>2 DEF IsPrompt, IsReply, Completed
<1>5. CASE p \notin worded
  <2>1. queue' = queue
    BY <1>1, <1>2, <1>5 DEF Ingest
  <2> QED
    BY <1>1, <1>3, <2>1, OrderedKept
<1>6. CASE p \in worded
  <2>1. Placed(p) \/ \A id \in Ids : id # p => ended[id] < ended[p]
    BY <1>1, <1>2, <1>6 DEF Handed, InTurn
  <2>2. /\ \A i \in DOMAIN stored : stored[i] \in Ids
        /\ \A i \in DOMAIN queue : IsReply(queue[i]) => queue[i] \in Ids
    BY DEF Types, QueueOK, Commands, IsReply
  <2>3. ASSUME NEW i \in DOMAIN stored, IsReply(stored[i])
        PROVE  ended[stored[i]] < ended[p] \/ (IsPrompt(p) /\ p \in lost \cup ToSet(stored))
    <3>1. stored[i] # p
      BY <1>4, <2>3
    <3>2. CASE \E k \in DOMAIN queue : queue[k] = p
      <4>1. PICK k \in DOMAIN queue : queue[k] = p
        BY <3>2
      <4>2. queue[k] # Doctor
        BY <1>4, <4>1 DEF IsPrompt
      <4>3. \/ ended[stored[i]] < ended[queue[k]]
            \/ IsPrompt(queue[k]) /\ queue[k] \in lost \cup ToSet(stored)
        BY <2>3, <4>2 DEF Ordered
      <4> QED
        BY <4>1, <4>3
    <3> QED
      BY <1>4, <2>1, <2>2, <2>3, <3>1, <3>2 DEF Placed
  <2>4. ASSUME NEW i \in DOMAIN queue, IsReply(queue[i])
        PROVE  \/ ended[queue[i]] < ended[p]
               \/ IsPrompt(p) /\ p \in lost \cup ToSet(stored)
               \/ IsPrompt(p) /\ \E k \in DOMAIN queue : k < i /\ queue[k] = p
    <3>1. queue[i] # p
      BY <1>4, <2>4
    <3>2. CASE \E k \in DOMAIN queue : queue[k] = p
      <4>1. PICK k \in DOMAIN queue : queue[k] = p
        BY <3>2
      <4>2. queue[k] # Doctor /\ k # i /\ k \in Nat /\ i \in Nat
        BY <1>4, <3>1, <4>1 DEF IsPrompt, Types, QueueOK
      <4>3. CASE k < i
        BY <1>4, <4>1, <4>3
      <4>4. CASE i < k
        <5>1. \/ ended[queue[i]] < ended[queue[k]]
              \/ IsPrompt(queue[k]) /\ queue[k] \in lost \cup ToSet(stored)
              \/ IsPrompt(queue[k]) /\ \E m \in DOMAIN queue : m < i /\ queue[m] = queue[k]
          BY <2>4, <4>2, <4>4 DEF Ordered
        <5> QED
          BY <4>1, <5>1
      <4> QED
        BY <4>2, <4>3, <4>4
    <3> QED
      BY <1>4, <2>1, <2>2, <2>4, <3>1, <3>2 DEF Placed
  <2> QED
    BY <1>1, <1>2, <1>3, <1>4, <2>3, <2>4, OrderedIngest
<1> QED
  BY <1>5, <1>6

LEMMA OrderedNext == ASSUME Types, Hosting, Sent, Ordered, Handed, [Next]_vars PROVE Ordered'
<1>1. CASE Disconnect
  BY <1>1, OrderedKept DEF Disconnect, sessionVars
<1>2. CASE Reconnect \/ SkipHook \/ Drain \/ DrainTimeout \/ LoadPlan \/ PlanFails \/ ApplyPlan \/ UNCHANGED vars
  <2>1. UNCHANGED <<transcript, ended, stored, queue, stream, lost>>
    BY <1>2 DEF Reconnect, SkipHook, Drain, DrainTimeout, LoadPlan, PlanFails, ApplyPlan, vars, sessionVars, eventVars
  <2>2. \A j \in DOMAIN stream' : Completes(j)' =>
          \E k \in DOMAIN stream : stream'[j] = stream[k] /\ Completes(k)
    BY <2>1 DEF Completes
  <2> QED
    BY <2>1, <2>2, OrderedKept
<1> QED
  BY <1>1, <1>2, OrderedHost, OrderedHandle, OrderedRun, OrderedBeginHook DEF Next

LEMMA OrderedStore == ASSUME Types, Ordered PROVE StoredInOrder
<1> SUFFICES ASSUME NEW i \in DOMAIN stored, NEW j \in DOMAIN stored, i < j,
                    ended[stored[j]] < ended[stored[i]], transcript[stored[i]] # "user"
             PROVE  transcript[stored[j]] = "user" /\ stored[j] \in lost
  BY DEF StoredInOrder
<1>1. stored[i] \in Ids /\ stored[j] \in Ids
  BY DEF Types, QueueOK
<1>2. ended[stored[i]] \in Nat /\ ended[stored[j]] \in Nat
  BY <1>1 DEF Types, HostOK
<1>3. IsReply(stored[i])
  BY <1>1 DEF IsReply, Ids, Doctor
<1>4. IsPrompt(stored[j]) /\ stored[j] \in lost
  BY <1>2, <1>3 DEF Ordered
<1> QED
  BY <1>4 DEF IsPrompt

(***************************************************************************)
(* What a request elides                                                   *)
(***************************************************************************)
LEMMA SomewhereAccounted ==
    ASSUME Types, NEW id \in Ids, Somewhere(id)
    PROVE  id \in ToSet(stored) \cup UnderWay \cup lost
<1>1. id # Doctor
  BY DEF Ids, Doctor
<1>2. (\E i \in DOMAIN queue : queue[i] = id) => id \in ToSet(queue)
  BY DEF ToSet, Types, QueueOK
<1> QED
  BY <1>1, <1>2 DEF Somewhere, Placed, Completes, UnderWay

LEMMA PlannedLoad ==
    ASSUME Types, Hosting, Kept, Draining, Planned, LoadPlan
    PROVE  Planned'
<1>1. /\ UNCHANGED <<transcript, worded, ended, elided, lost, hook.due>>
      /\ plan'.fresh \cup plan'.covered = FreshOf(stored) \cup ToSet(stored)
      /\ plan'.unseen = UnderWay \ (IF hook.at = "drained" THEN hook.due ELSE {})
      /\ hook'.at = "applying" /\ hook.at # "idle"
  BY DEF LoadPlan, Planning, sessionVars, Types, HookOK
<1>2. \A id \in DOMAIN transcript : id \in Ids /\ ended[id] > 0
  <2>1. session = "requesting" /\ DOMAIN transcript \subseteq Ids
    BY <1>1, ArrayFacts DEF Hosting
  <2> QED
    BY <2>1 DEF Hosting, InStep
<1>3. ASSUME NEW id \in DOMAIN transcript, id \in worded
      PROVE  id \in plan'.fresh \cup plan'.covered \cup plan'.unseen \cup lost
  <2>1. id \in ToSet(stored) \cup UnderWay \cup lost
    BY <1>2, <1>3, SomewhereAccounted DEF Kept
  <2>2. hook.at = "drained" /\ id \in hook.due => id \in ToSet(stored) \cup lost
    BY DEF Draining, DrainedBeforePlan
  <2> QED
    BY <1>1, <2>1, <2>2
<1> QED
  BY <1>1, <1>3 DEF Planned, ElisionExcused

LEMMA PlannedApply ==
    ASSUME Types, Hosting, Planned, ApplyPlan
    PROVE  Planned'
<1>1. /\ UNCHANGED <<transcript, worded, ended, plan, lost>> /\ hook.at = "applying"
      /\ hook' = Idle /\ elided' \subseteq DOMAIN transcript \ plan.fresh
  BY DEF ApplyPlan, Send
<1>2. \A id \in DOMAIN transcript : ended[id] > 0
  <2>1. session = "requesting" /\ DOMAIN transcript \subseteq Ids
    BY <1>1, ArrayFacts DEF Hosting
  <2> QED
    BY <2>1 DEF Hosting, InStep
<1>3. hook'.at # "applying"
  BY <1>1 DEF Idle
<1>4. (elided' \cap worded) \ plan.covered \subseteq lost \cup plan.unseen
  BY <1>1 DEF Planned
<1> QED
  BY <1>1, <1>2, <1>3, <1>4 DEF Planned, ElisionExcused

LEMMA PlannedNext ==
    ASSUME Types, Hosting, Kept, Draining, Planned, [Next]_vars
    PROVE  Planned'
<1>1. CASE Host
  <2>1. /\ UNCHANGED <<hook, plan, elided>> /\ hook.at = "idle" /\ lost \subseteq lost'
        /\ \A id \in Ids : ended[id] > 0 => ended'[id] = ended[id]
        /\ \A id \in worded' : id \in worded \/ ended[id] = 0
    BY <1>1, HostKinds, HostShape
  <2>2. elided \subseteq Ids
    BY DEF Types, HookOK
  <2>3. \A id \in elided' : ended'[id] > 0
    BY <2>1, <2>2 DEF Planned
  <2>4. elided \cap worded' \subseteq worded
    <3>1. \A id \in elided : ended[id] > 0
      BY DEF Planned
    <3> QED
      BY <2>1, <3>1
  <2> QED
    BY <2>1, <2>3, <2>4 DEF Planned, ElisionExcused
<1>2. CASE LoadPlan
  BY <1>2, PlannedLoad
<1>3. CASE ApplyPlan
  BY <1>3, PlannedApply
<1>4. CASE SkipHook \/ PlanFails
  <2>1. elided' = {} /\ hook' = Idle
    BY <1>4 DEF SkipHook, PlanFails, Send
  <2> QED
    BY <2>1 DEF Planned, ElisionExcused, Idle
<1>5. CASE ~(Host \/ LoadPlan \/ ApplyPlan \/ SkipHook \/ PlanFails)
  <2>1. UNCHANGED <<transcript, worded, ended, plan, elided>>
    BY <1>5 DEF Next, Handle, HandleFirst, HandleLast, Disconnect, Reconnect, Run, RunFails, BeginHook,
                Drain, DrainTimeout, vars, sessionVars, hookVars
  <2>2. lost \subseteq lost'
    BY <1>5 DEF Next, Handle, HandleFirst, HandleLast, Disconnect, Reconnect, Run, RunFails, BeginHook,
                Drain, DrainTimeout, vars
  <2>3. hook'.at = "applying" <=> hook.at = "applying"
    <3>1. CASE Run \/ RunFails
      <4>1. hook' = [hook EXCEPT !.ahead = IF @ > 0 THEN @ - 1 ELSE 0]
        BY <3>1 DEF Run, RunFails, Advance
      <4> QED
        BY <4>1 DEF Types, HookOK
    <3>2. CASE BeginHook
      BY <3>2 DEF BeginHook
    <3>3. CASE Drain \/ DrainTimeout
      <4>1. hook.at = "draining" /\ \E at \in {"drained", "timed out"} : hook' = [hook EXCEPT !.at = at]
        BY <3>3 DEF Drain, DrainTimeout
      <4> QED
        BY <4>1 DEF Types, HookOK
    <3>4. CASE ~(Run \/ RunFails \/ BeginHook \/ Drain \/ DrainTimeout)
      <4>1. hook' = hook
        BY <1>5, <3>4 DEF Next, Handle, HandleFirst, HandleLast, Disconnect, Reconnect, vars, hookVars
      <4> QED
        BY <4>1
    <3> QED
      BY <3>1, <3>2, <3>3, <3>4
  <2> QED
    BY <2>1, <2>2, <2>3 DEF Planned, ElisionExcused
<1> QED
  BY <1>1, <1>2, <1>3, <1>4, <1>5

(***************************************************************************)
(* The theorems                                                            *)
(***************************************************************************)
LEMMA InitIInv == ASSUME Init PROVE IInv
<1>1. Types
  <2>1. \A role \in {"user", "assistant"} : Cardinality(buffered[role]) <= MaxTracked + 1
    BY FS_EmptySet, LimitAssumption DEF Init
  <2>2. BufferOK
    BY <2>1 DEF Init, BufferOK
  <2>3. HostOK
    BY LimitAssumption DEF Init, HostOK
  <2>4. StreamOK
    BY LimitAssumption DEF Init, StreamOK
  <2>5. QueueOK
    BY LimitAssumption DEF Init, QueueOK
  <2>6. HookOK
    BY LimitAssumption DEF Init, HookOK, Idle, NoPlan
  <2>7. FlagOK
    BY DEF Init, FlagOK
  <2> QED
    BY <2>2, <2>3, <2>4, <2>5, <2>6, <2>7 DEF Types
<1>2. Hosting
  BY DEF Init, Hosting, InTurn, InStep, Idle
<1>3. Sent /\ Ordered
  BY DEF Init, Sent, EndsSent, HalvesSent, Ordered
<1>4. Handed /\ Kept
  BY DEF Init, Handed, InTurn, Kept
<1>5. Draining
  BY DEF Init, Draining, DrainedBeforePlan, Idle
<1>6. Planned
  BY DEF Init, Planned, ElisionExcused, Idle
<1> QED
  BY <1>1, <1>2, <1>3, <1>4, <1>5, <1>6 DEF IInv

LEMMA NextIInv == ASSUME IInv, [Next]_vars PROVE IInv'
  BY TypesNext, HostingNext, SentNext, OrderedNext, HandedNext, KeptNext, DrainingNext, PlannedNext DEF IInv

LEMMA SpecIInv == Spec => []IInv
<1>1. Init => IInv
  BY InitIInv
<1>2. IInv /\ [Next]_vars => IInv'
  BY NextIInv
<1> QED
  BY <1>1, <1>2, PTL DEF Spec

\* The variables keep their types, the plugin's collections their limits: the
\* queue, the buffers of halves, and the failures in a row.
THEOREM OpenCodeTypeCorrect == Spec => []TypeOK
<1>1. IInv => TypeOK
  <2> SUFFICES ASSUME IInv PROVE TypeOK
    OBVIOUS
  <2>1. /\ \A i \in DOMAIN stream : stream[i] \in Event
        /\ failures \in 0..MaxReconnects
    BY DEF IInv, Types, StreamOK, Emitted
  <2>2. /\ ToSet(queue) \subseteq Ids \cup {Doctor} /\ ToSet(stored) \subseteq Ids
    BY DEF IInv, Types, QueueOK, Commands, ToSet
  <2>3. /\ hook.ahead \in 0..MaxQueued /\ hook.due \subseteq Ids
        /\ hook.at \in {"idle", "draining", "drained", "timed out", "applying"}
        /\ elided \cup plan.fresh \cup plan.covered \cup plan.unseen \cup lost \subseteq Ids
    BY DEF IInv, Types, HookOK, HostOK
  <2>4. \A role \in DOMAIN buffered :
          buffered[role] \subseteq Ids /\ Cardinality(buffered[role]) <= MaxTracked + 1
    BY DEF IInv, Types, BufferOK
  <2> QED
    BY <2>1, <2>2, <2>3, <2>4 DEF IInv, Types, HostOK, StreamOK, QueueOK, FlagOK, TypeOK
<1> QED
  BY <1>1, SpecIInv, PTL

\* Messages are stored in the order of their completion but for the prompts the
\* context hook put elsewhere, whichever of them are lost on the way.
THEOREM AlwaysStoredInOrder == Spec => []StoredInOrder
<1>1. IInv => StoredInOrder
  BY OrderedStore DEF IInv
<1> QED
  BY <1>1, SpecIInv, PTL

\* A message that has text and has ended is stored, on its way to the store, or
\* lost to one of the failures the plugin tolerates.
THEOREM AlwaysAccounted == Spec => []Accounted
<1>1. IInv => Accounted
  <2> SUFFICES ASSUME IInv, NEW id \in worded, ended[id] > 0
               PROVE  id \in ToSet(stored) \cup UnderWay \cup lost
    BY DEF Accounted
  <2>1. id \in Ids /\ Somewhere(id)
    BY DEF IInv, Kept, Types, HostOK
  <2> QED
    BY <2>1, SomewhereAccounted DEF IInv
<1> QED
  BY <1>1, SpecIInv, PTL

\* A plan made after a full drain knows all that was queued when the hook began.
THEOREM AlwaysDrainedBeforePlan == Spec => []DrainedBeforePlan
<1>1. IInv => DrainedBeforePlan
  BY DEF IInv, Draining
<1> QED
  BY <1>1, SpecIInv, PTL

\* What a request elides without a summary was lost, or on its way when the plan
\* was made and not among what the hook had waited for.
THEOREM AlwaysElisionExcused == Spec => []ElisionExcused
<1>1. IInv => ElisionExcused
  BY DEF IInv, Planned
<1> QED
  BY <1>1, SpecIInv, PTL
=============================================================================
