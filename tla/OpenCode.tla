----------------------------- MODULE OpenCode -----------------------------
(***************************************************************************)
(* The OpenCode plugin (internal/install/assets/opencode-acm.ts) between   *)
(* an OpenCode session and the acm binary.                                 *)
(*                                                                         *)
(* The session emits events on a stream that is not replayed after a       *)
(* disconnect; the plugin buffers the halves of a message and queues an    *)
(* `acm ingest` for each whole one.  Before each model request the context *)
(* hook queues the current prompt, waits a while for the queue, asks       *)
(* `acm opencode-context` for a plan and elides the older messages of the  *)
(* outgoing array.  Commands run one at a time but can fail, and the plan  *)
(* does not go through the queue.                                          *)
(*                                                                         *)
(* A message is its position in the session's array, in which a step of    *)
(* the model comes before its tool results; their events come in the order *)
(* of completion, in which the step is last.  The plan archives all that   *)
(* is stored but the fresh tail, which Compaction models; the token floor  *)
(* of the tail, recall text, prompts sent while the model works and the    *)
(* messages the plugin leaves alone for their provider data are left out.  *)
(***************************************************************************)
EXTENDS Integers, Sequences, FiniteSets, SequencesExt

CONSTANTS
    FreshTail,       \* the plan's fresh_tail_messages
    MaxQueued,       \* MAX_QUEUED_COMMANDS
    MaxTracked,      \* MAX_TRACKED
    MaxReconnects,   \* MAX_CONSECUTIVE_RECONNECTS
    MaxTransform,    \* MAX_TRANSFORM_MESSAGES
    MaxMessages,     \* bound: messages of the session
    MaxFaults        \* bound: disconnects, failed reconnects, failed commands

ASSUME LimitAssumption ==
    /\ FreshTail \in Nat /\ MaxQueued \in Nat \ {0} /\ MaxTracked \in Nat
    /\ MaxReconnects \in Nat \ {0} /\ MaxTransform \in Nat
    /\ MaxMessages \in Nat /\ MaxFaults \in Nat

VARIABLES
    session,      \* what the host does
    transcript,   \* its messages, by role
    worded,       \* those with a text of their own, neither empty nor acm's
    ended,        \* ghost: when a message was completed, 0 before
    clock,        \* ghost: messages completed so far
    stream,       \* events emitted and not handled yet
    connection,   \* of the plugin to the stream
    failures,     \* reconnects since the last event
    buffered,     \* prompts and texts: messages whose first half was handled
    initialized,  \* the sink has queued `acm doctor`
    queue,        \* commands, the running one first
    stored,       \* messages in the store, in sequence order
    hook,         \* the context hook
    plan,         \* the last plan: messages kept raw and messages under summaries;
                  \* ghost: what it could not know
    elided,       \* messages replaced by the placeholder in the last request
    lost,         \* ghost: messages one of whose events or commands was lost
    faults        \* bound: faults so far

sessionVars == <<session, transcript, worded, ended, clock>>
eventVars   == <<stream, connection, failures, buffered>>
hookVars    == <<hook, plan, elided>>
vars == <<sessionVars, eventVars, initialized, queue, stored, hookVars, lost, faults>>

Roles == {"user", "assistant", "tool"}

Ids == 1..MaxMessages

\* The second half of a message completes it; a tool result has no first half
\* that its capture needs.
Event == [id : Ids, role : Roles, half : {"first", "last"}]

Doctor == 0

\* The hook knows how many commands it waits for; ghost: the messages they carry.
Idle == [at |-> "idle", ahead |-> 0, due |-> {}]

NoPlan == [fresh |-> {}, covered |-> {}, unseen |-> {}]

Init ==
    /\ session = "waiting" /\ transcript = <<>> /\ worded = {}
    /\ ended = [id \in Ids |-> 0] /\ clock = 0
    /\ stream = <<>> /\ connection = "open" /\ failures = 0
    /\ buffered = [role \in {"user", "assistant"} |-> {}]
    /\ initialized = FALSE /\ queue = <<>> /\ stored = <<>>
    /\ hook = Idle /\ plan = NoPlan /\ elided = {}
    /\ lost = {} /\ faults = 0

Fault == faults < MaxFaults /\ faults' = faults + 1

(***************************************************************************)
(* The session                                                             *)
(***************************************************************************)
NextId == Len(transcript) + 1

Latest(role) == SelectLastInSeq(transcript, LAMBDA r : r = role)

\* An event reaches the plugin only while it is connected.
Emit(id, role, half) ==
    IF connection = "open"
      THEN stream' = Append(stream, [id |-> id, role |-> role, half |-> half]) /\ UNCHANGED lost
      ELSE lost' = lost \cup {id} /\ UNCHANGED stream

\* Every host action leaves the plugin and the store alone.
Outside == <<connection, failures, buffered, initialized, queue, stored, hookVars, faults>>

Complete(id) == ended' = [ended EXCEPT ![id] = clock + 1] /\ clock' = clock + 1

\* The step the model is at.
Step == Latest("assistant")

\* The user's prompt is put in the inbox.
BeginPrompt ==
    /\ session = "waiting" /\ NextId <= MaxMessages
    /\ session' = "prompting"
    /\ worded' \in {worded, worded \cup {NextId}}
    /\ Emit(NextId, "user", "first")
    /\ UNCHANGED <<transcript, ended, clock, Outside>>

\* It is delivered to the session.
EndPrompt ==
    /\ session = "prompting"
    /\ session' = "requesting"
    /\ transcript' = Append(transcript, "user")
    /\ Complete(NextId)
    /\ Emit(NextId, "user", "last")
    /\ UNCHANGED <<worded, Outside>>

StartStep ==
    /\ session = "answering" /\ NextId <= MaxMessages
    /\ session' = "silent"
    /\ transcript' = Append(transcript, "assistant")
    /\ UNCHANGED <<worded, ended, clock, stream, lost, Outside>>

\* A step has text, or none.
SayText ==
    /\ session = "silent"
    /\ session' = "spoken"
    /\ worded' \in {worded, worded \cup {Step}}
    /\ Emit(Step, "assistant", "first")
    /\ UNCHANGED <<transcript, ended, clock, Outside>>

\* A tool call has ended; its message always has text.
EndTool ==
    /\ session \in {"silent", "spoken"} /\ NextId <= MaxMessages
    /\ transcript' = Append(transcript, "tool")
    /\ worded' = worded \cup {NextId}
    /\ Complete(NextId)
    /\ Emit(NextId, "tool", "last")
    /\ UNCHANGED <<session, Outside>>

\* A step that called tools is followed by another request, unless the user stops it.
EndStep ==
    /\ session \in {"silent", "spoken"}
    /\ session' \in {"waiting"} \cup (IF Last(transcript) = "tool" THEN {"requesting"} ELSE {})
    /\ Complete(Step)
    /\ Emit(Step, "assistant", "last")
    /\ UNCHANGED <<transcript, worded, Outside>>

(***************************************************************************)
(* The command queue                                                       *)
(***************************************************************************)
\* Seeded fault: nothing limits the queue.
PushUnbounded(commands, command) == Append(commands, command)

\* push drops a command when MaxQueued are pending.
Push(commands, command) ==
    IF Len(commands) >= MaxQueued THEN commands ELSE Append(commands, command)

\* createSink: nothing is queued for an empty or synthetic text, and the first
\* use queues `acm doctor` before its message.
Ingest(id) ==
    IF id \in worded
      THEN /\ queue' = Push(IF initialized THEN queue ELSE Push(queue, Doctor), id)
           /\ initialized' = TRUE
      ELSE UNCHANGED <<queue, initialized>>

\* A full queue has dropped the message.
Dropped(id) == id \in worded /\ ~Contains(queue', id)

\* The hook waits for the commands that were queued when it began to.
Advance == hook' = [hook EXCEPT !.ahead = IF @ > 0 THEN @ - 1 ELSE 0]

\* AppendMessage does nothing for an external ID that is stored.
StoreId(id) ==
    stored' = IF id = Doctor \/ Contains(stored, id) THEN stored ELSE Append(stored, id)

\* Seeded fault: commands are started without waiting for one another.
RunAny ==
    /\ \E i \in DOMAIN queue :
        /\ StoreId(queue[i])
        /\ queue' = RemoveAt(queue, i)
    /\ Advance
    /\ UNCHANGED <<sessionVars, eventVars, initialized, plan, elided, lost, faults>>

Run ==
    /\ queue # <<>>
    /\ StoreId(Head(queue))
    /\ queue' = Tail(queue)
    /\ Advance
    /\ UNCHANGED <<sessionVars, eventVars, initialized, plan, elided, lost, faults>>

\* The command exits with an error or is killed at its timeout, before or after
\* its transaction; it is not tried again.
RunFails ==
    /\ Fault
    /\ queue # <<>>
    /\ StoreId(Head(queue)) \/ UNCHANGED stored
    /\ queue' = Tail(queue)
    /\ lost' = IF Contains(stored', Head(queue)) THEN lost ELSE lost \cup ({Head(queue)} \ {Doctor})
    /\ Advance
    /\ UNCHANGED <<sessionVars, eventVars, initialized, plan, elided>>

(***************************************************************************)
(* The event stream                                                        *)
(***************************************************************************)
\* A map above MaxTracked is emptied before the next entry.
Track(ids, id) == (IF Cardinality(ids) > MaxTracked THEN {} ELSE ids) \cup {id}

Receive ==
    /\ connection = "open" /\ stream # <<>>
    /\ stream' = Tail(stream) /\ failures' = 0

HandleFirst ==
    /\ Receive
    /\ LET event == Head(stream)
       IN  /\ event.half = "first"
           /\ buffered' = [buffered EXCEPT ![event.role] = Track(@, event.id)]
           /\ lost' = lost \cup (buffered[event.role] \ buffered'[event.role])
    /\ UNCHANGED <<sessionVars, connection, initialized, queue, stored, hookVars, faults>>

\* Seeded fault: the buffer is deleted before it is read.
WholeAfterDelete(event) == event.role = "tool"

\* The second half finds the first one: flushStep does nothing for a step of
\* which no text is buffered, be it that it had none or that it was lost.
Whole(event) == event.role = "tool" \/ event.id \in buffered[event.role]

HandleLast ==
    /\ Receive
    /\ LET event == Head(stream)
       IN  /\ event.half = "last"
           /\ buffered' = [role \in DOMAIN buffered |-> buffered[role] \ {event.id}]
           /\ IF Whole(event)
                THEN Ingest(event.id) /\ lost' = IF Dropped(event.id) THEN lost \cup {event.id} ELSE lost
                ELSE UNCHANGED <<queue, initialized, lost>>
    /\ UNCHANGED <<sessionVars, connection, stored, hookVars, faults>>

\* What is on the stream is lost; too many failures in a row end the capture.
Disconnect ==
    /\ Fault
    /\ connection \in {"open", "broken"}
    /\ lost' = lost \cup {stream[i].id : i \in DOMAIN stream}
    /\ stream' = <<>>
    /\ failures' = failures + 1
    /\ connection' = IF failures' < MaxReconnects THEN "broken" ELSE "closed"
    /\ UNCHANGED <<sessionVars, buffered, initialized, queue, stored, hookVars>>

Reconnect ==
    /\ connection = "broken"
    /\ connection' = "open"
    /\ UNCHANGED <<sessionVars, stream, failures, buffered, initialized, queue, stored, hookVars,
                   lost, faults>>

(***************************************************************************)
(* The context hook                                                        *)
(***************************************************************************)
\* latestUserIndex.
Anchor == Latest("user")

\* The prompt is queued, whether or not its event has been handled.
BeginHook ==
    /\ session = "requesting" /\ hook.at = "idle"
    /\ Len(transcript) <= MaxTransform
    /\ Ingest(Anchor)
    /\ lost' = IF Dropped(Anchor) /\ ~Contains(stored, Anchor) THEN lost \cup {Anchor} ELSE lost
    /\ hook' = [at |-> "draining", ahead |-> Len(queue'), due |-> ToSet(queue') \ {Doctor}]
    /\ UNCHANGED <<sessionVars, eventVars, stored, plan, elided, faults>>

\* Seeded fault: drain returns before the last command has ended.
DrainShort ==
    /\ hook.at = "draining" /\ hook.ahead <= 1
    /\ hook' = [hook EXCEPT !.at = "drained"]
    /\ UNCHANGED <<sessionVars, eventVars, initialized, queue, stored, plan, elided, lost, faults>>

\* drain: every command that was queued has ended.
Drain ==
    /\ hook.at = "draining" /\ hook.ahead = 0
    /\ hook' = [hook EXCEPT !.at = "drained"]
    /\ UNCHANGED <<sessionVars, eventVars, initialized, queue, stored, plan, elided, lost, faults>>

\* QUEUE_DRAIN_TIMEOUT_MS has passed first.
DrainTimeout ==
    /\ hook.at = "draining" /\ hook.ahead > 0
    /\ hook' = [hook EXCEPT !.at = "timed out"]
    /\ UNCHANGED <<sessionVars, eventVars, initialized, queue, stored, plan, elided, lost, faults>>

\* The protected tail of what is stored: its last FreshTail conversational messages.
FreshOf(ids) ==
    LET turns == {i \in DOMAIN ids : transcript[ids[i]] # "tool"}
    IN  {ids[i] : i \in {j \in turns : Cardinality({k \in turns : k > j}) < FreshTail}}

Planning == hook.at \in {"drained", "timed out"}

\* Messages that have ended and are on their way to the store.
UnderWay ==
    (ToSet(queue) \ {Doctor}) \cup
        {stream[i].id : i \in {k \in DOMAIN stream : stream[k].half = "last"}}

\* buildOpenCodeContextPlan: everything stored but the tail is archived.  What is
\* on its way is unknown to the plan, but for what a full drain waited for.
LoadPlan ==
    /\ Planning
    /\ LET fresh == FreshOf(stored)
           awaited == IF hook.at = "drained" THEN hook.due ELSE {}
       IN  plan' = [fresh |-> fresh, covered |-> ToSet(stored) \ fresh,
                    unseen |-> UnderWay \ awaited]
    /\ hook' = [hook EXCEPT !.at = "applying"]
    /\ UNCHANGED <<sessionVars, eventVars, initialized, queue, stored, elided, lost, faults>>

\* The request goes out, with the messages of the set replaced.
Send(set) ==
    /\ elided' = set
    /\ hook' = Idle
    /\ session' = "answering"

\* The hook leaves a longer array alone and ingests nothing.
SkipHook ==
    /\ session = "requesting" /\ hook.at = "idle"
    /\ Len(transcript) > MaxTransform
    /\ Send({})
    /\ UNCHANGED <<transcript, worded, ended, clock, eventVars, initialized, queue, stored, plan,
                   lost, faults>>

\* Seeded fault: without a plan the hook waits for the queue and asks again.
PlanRetries ==
    /\ Planning
    /\ hook' = [hook EXCEPT !.at = "draining"]
    /\ UNCHANGED <<sessionVars, eventVars, initialized, queue, stored, plan, elided, lost, faults>>

\* No plan, or none that is valid: the request goes out as it is.
PlanFails ==
    /\ Planning
    /\ Send({})
    /\ UNCHANGED <<transcript, worded, ended, clock, eventVars, initialized, queue, stored, plan,
                   lost, faults>>

\* Seeded fault: the IDs of the plan's tail are not looked at.
ApplyPlanByCount ==
    /\ hook.at = "applying"
    /\ LET recent == {i \in DOMAIN transcript : i >= Anchor \/ i > Len(transcript) - FreshTail}
       IN  Send(IF plan.covered = {} THEN {} ELSE DOMAIN transcript \ recent)
    /\ UNCHANGED <<transcript, worded, ended, clock, eventVars, initialized, queue, stored, plan,
                   lost, faults>>

\* applyPlan: what is before the prompt and before the last FreshTail messages
\* of the array is elided unless the plan names it fresh; a plan without
\* summaries has no placeholder to put in.
ApplyPlan ==
    /\ hook.at = "applying"
    /\ LET recent == {i \in DOMAIN transcript : i >= Anchor \/ i > Len(transcript) - FreshTail}
       IN  Send(IF plan.covered = {} THEN {} ELSE DOMAIN transcript \ (recent \cup plan.fresh))
    /\ UNCHANGED <<transcript, worded, ended, clock, eventVars, initialized, queue, stored, plan,
                   lost, faults>>

Host == BeginPrompt \/ EndPrompt \/ StartStep \/ SayText \/ EndTool \/ EndStep

Handle == HandleFirst \/ HandleLast

\* The compaction hook only reads the last plan.
Next ==
    \/ Host
    \/ Handle \/ Disconnect \/ Reconnect
    \/ Run \/ RunFails
    \/ BeginHook \/ SkipHook \/ Drain \/ DrainTimeout \/ LoadPlan \/ PlanFails \/ ApplyPlan

Spec == Init /\ [][Next]_vars

\* The event loop runs every callback that is due, a command ends by its timeout
\* at the latest, and the hook's own waits are bounded; the host owes nothing.
FairSpec ==
    /\ Spec
    /\ WF_vars(Handle)
    /\ WF_vars(Run)
    /\ WF_vars(Drain \/ DrainTimeout)
    /\ WF_vars(LoadPlan \/ PlanFails)
    /\ WF_vars(ApplyPlan)

(***************************************************************************)
(* Properties                                                              *)
(***************************************************************************)
\* The variables have their types and the plugin's collections their limits.
TypeOK ==
    /\ session \in {"waiting", "prompting", "requesting", "answering", "silent", "spoken"}
    /\ transcript \in Seq(Roles) /\ Len(transcript) <= MaxMessages
    /\ worded \subseteq Ids /\ ended \in [Ids -> Nat] /\ clock \in Nat
    /\ \A i \in DOMAIN stream : stream[i] \in Event
    /\ connection \in {"open", "broken", "closed"} /\ failures \in 0..MaxReconnects
    /\ \A role \in DOMAIN buffered :
        buffered[role] \subseteq Ids /\ Cardinality(buffered[role]) <= MaxTracked + 1
    /\ Len(queue) <= MaxQueued /\ ToSet(queue) \subseteq Ids \cup {Doctor}
    /\ ToSet(stored) \subseteq Ids
    /\ hook.ahead \in 0..MaxQueued /\ hook.due \subseteq Ids
    /\ hook.at \in {"idle", "draining", "drained", "timed out", "applying"}
    /\ elided \cup plan.fresh \cup plan.covered \cup plan.unseen \cup lost \subseteq Ids
    /\ initialized \in BOOLEAN /\ faults \in 0..MaxFaults

\* Messages are stored in the order in which their events completed them, a
\* step after the tools it called, however many are lost on the way.  Only the
\* context hook can put a prompt elsewhere: before turns whose events are late, or,
\* when a command for the prompt was lost, at a later request.
StoredInOrder ==
    \A i, j \in DOMAIN stored :
        i < j /\ ended[stored[j]] < ended[stored[i]] =>
            \/ transcript[stored[i]] = "user"
            \/ transcript[stored[j]] = "user" /\ stored[j] \in lost

\* No message with a text disappears without one of the failures the plugin
\* tolerates: from its completion on it is stored, on its way, or a loss happened to
\* it.  Prompts and steps without a text have no row, as createSink and flushStep
\* return without a word.
Accounted ==
    \A id \in worded : ended[id] > 0 => id \in ToSet(stored) \cup UnderWay \cup lost

\* A plan that is asked for after a full drain knows every message that was
\* queued when the hook began, the current prompt among them, or has lost it.
DrainedBeforePlan == hook.at = "drained" => hook.due \subseteq ToSet(stored) \cup lost

\* A text that a request shows as archived without a summary of it was lost, or
\* was still on its way when the plan was made and not among what the hook had
\* waited for: the hook never drops what the plan knows.
ElisionExcused ==
    hook.at # "applying" => (elided \cap worded) \ plan.covered \subseteq lost \cup plan.unseen

\* The context hook always lets the request go.
HookReturns == hook.at # "idle" ~> hook.at = "idle"

\* docs/architecture.md: the outgoing array is represented by summary roots and
\* the protected raw tail.
ElidedRepresented == hook.at # "applying" => elided \cap worded \subseteq plan.covered
=============================================================================
