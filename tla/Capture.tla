------------------------------ MODULE Capture ------------------------------
(***************************************************************************)
(* Capture of one Codex or Claude Code session: the hook processes the     *)
(* host starts (internal/cli/hook.go, internal/agents), the transcript     *)
(* they read, the privacy policy, Service.Ingest with one transaction per  *)
(* message, and "acm backfill", which compares a rollout with the store.   *)
(*                                                                         *)
(* The host is external.  Every payload it has emitted may be delivered    *)
(* any number of times, late, in any order or never, to a process that may *)
(* fail or die between any two steps.                                      *)
(***************************************************************************)
EXTENDS Integers, FiniteSets, Sequences

CONSTANTS
    Agents,      \* the hosts to consider, a subset of {"codex", "claude-code"}
    Modes,       \* the session modes to consider
    Processes,   \* acm processes that may run at the same time
    Turns,       \* bound: turns of the session
    MaxTexts,    \* bound: assistant texts of a turn
    MaxStarts,   \* bound: acm processes started
    MaxFaults,   \* bound: failed or killed processes
    Excluded,    \* the contents, as <<kind, turn>>, the policy excludes
    Secrets      \* the contents, as <<kind, turn>>, with something to redact

ASSUME CaptureAssumption ==
    /\ Agents \subseteq {"codex", "claude-code"}
    /\ Modes \subseteq {"capture", "stateless", "ignore"}
    /\ {Turns, MaxTexts, MaxStarts, MaxFaults} \subseteq Nat

VARIABLES
    agent,       \* the host of the session
    mode,        \* the policy's mode for the session
    host,        \* the host: its current turn, what it does, the texts of the turn
    emitted,     \* the hook payloads the host has emitted
    transcript,  \* the lines of the transcript
    reader,      \* where a reader that has consumed every line so far is
    copy,        \* where the rollout is: its place in the lookup order, or Gone
    session,     \* the conversation row exists
    rows,        \* the messages of the conversation, by seq
    process,     \* the acm processes
    early,       \* history: turns whose reply was read before the turn had ended
    starts,
    faults

hostVars == <<host, emitted, transcript, reader, copy>>
storeVars == <<session, rows>>
fixed == <<agent, mode>>
vars == <<fixed, hostVars, storeVars, process, early, starts, faults>>

Places == 1 .. 4   \* recorded path, its .zst, archived, archived .zst
Gone == 0

-----------------------------------------------------------------------------
(* Messages.  A label stands for the text of a content, for an external ID *)
(* and for a raw payload alike.                                            *)

Label(kind, turn, n) == [kind |-> kind, turn |-> turn, n |-> n]
NoLabel == Label("none", 0, 0)

Message(role, content, id, raw) ==
    [role |-> role, content |-> content, id |-> id, raw |-> raw, redacted |-> FALSE]

NoMessage == Message("none", NoLabel, NoLabel, NoLabel)

\* IdentityHash: the source's ID, else the raw payload, else role and content.
Identity(m) ==
    IF m.id # NoLabel THEN <<"ext", m.id>>
    ELSE IF m.raw # NoLabel THEN <<"raw", m.raw>>
    ELSE <<m.role, m.content>>

Elements(s) == {s[i] : i \in DOMAIN s}
IdentitiesAt(s, positions) == {Identity(s[i]) : i \in positions}
Identities(s) == IdentitiesAt(s, DOMAIN s)

TurnID(t) == Label("reply", t, 0)

\* The ID of a hook event: Codex sends turn and tool IDs, Claude Code none.
HookID(kind, t) == IF agent = "codex" THEN Label(kind, t, 0) ELSE NoLabel

HookMessage(role, kind, t) ==
    Message(role, Label(kind, t, 0), HookID(kind, t), Label(kind, t, 0))

-----------------------------------------------------------------------------
(* Transcripts *)

\* A reader consumes a transcript from its first line, so its state is kept here
\* line by line, as the host writes them: the messages found so far and, for
\* Codex, the task and its last text.
Reading(turn, pending, out) == [turn |-> turn, pending |-> pending, out |-> out]

Reply(line, id) == Message("assistant", Label("reply", line.turn, line.n), id, NoLabel)
LineID(line) == Label("reply", line.turn, line.n)

Under(turn, m) == IF turn = 0 THEN m ELSE [m EXCEPT !.id = TurnID(turn)]

FinishAlways(state) == Reading(0, NoMessage, Append(state.out, Under(state.turn, state.pending)))

FinishUnderItem(state) ==
    IF state.pending = NoMessage THEN state
    ELSE Reading(0, NoMessage, Append(state.out, state.pending))

\* A pending reply is finished under the ID of its turn, if one is known.
Finish(state) ==
    IF state.pending = NoMessage THEN state
    ELSE Reading(0, NoMessage, Append(state.out, Under(state.turn, state.pending)))

ConsumeKeepingPending(state, line) ==
    CASE line.kind = "task_started" -> Reading(line.turn, state.pending, state.out)
      [] line.kind = "task_complete" -> Finish(state)
      [] line.kind = "response_item" ->
             IF agent = "codex" THEN Reading(state.turn, Reply(line, LineID(line)), state.out)
             ELSE Reading(0, NoMessage, Append(state.out, Reply(line, LineID(line))))

\* One line: Claude Code's are messages, Codex's a task's events and its texts.
Consume(state, line) ==
    CASE line.kind = "task_started" -> Reading(line.turn, NoMessage, state.out)
      [] line.kind = "task_complete" -> Finish(state)
      [] line.kind = "response_item" ->
             IF agent = "codex" THEN Reading(state.turn, Reply(line, LineID(line)), state.out)
             ELSE Reading(0, NoMessage, Append(state.out, Reply(line, LineID(line))))

\* The assistant messages of the transcript: for Claude Code every assistant
\* line, for Codex the last text of every task, at the end of the file too.
Reconcile == Finish(reader).out

-----------------------------------------------------------------------------
(* The host *)

Working == host.at = "working"
Line(kind, n) == [kind |-> kind, turn |-> host.turn, n |-> n]

\* Claude Code's transcript has no lines for the start and the end of a turn.
Write(line) ==
    IF agent = "codex" \/ line.kind = "response_item"
    THEN /\ transcript' = Append(transcript, line)
         /\ reader' = Consume(reader, line)
    ELSE UNCHANGED <<transcript, reader>>

Emit(event, n) == emitted' = emitted \cup {[event |-> event, turn |-> host.turn, n |-> n]}

HostStep == UNCHANGED <<fixed, storeVars, process, early, starts, faults>>

Prompt ==
    /\ host.at = "idle" /\ host.turn < Turns
    /\ copy = 1
    /\ host' = [turn |-> host.turn + 1, at |-> "working", texts |-> 0]
    /\ Write([kind |-> "task_started", turn |-> host.turn + 1, n |-> 0])
    /\ emitted' = emitted \cup {[event |-> "UserPromptSubmit", turn |-> host.turn + 1, n |-> 0]}
    /\ UNCHANGED copy /\ HostStep

UseTool ==
    /\ Working
    /\ Emit("PostToolUse", 0) /\ emitted' # emitted
    /\ UNCHANGED <<host, transcript, reader, copy>> /\ HostStep

Say ==
    /\ Working /\ host.texts < MaxTexts
    /\ host' = [host EXCEPT !.texts = @ + 1]
    /\ Write(Line("response_item", host.texts + 1))
    /\ UNCHANGED <<emitted, copy>> /\ HostStep

\* The turn has its final text: the host fires Stop.
EndTurn ==
    /\ Working
    /\ host' = [host EXCEPT !.at = "stopped"]
    /\ UNCHANGED <<emitted, transcript, reader, copy>> /\ HostStep

Complete ==
    /\ host.at = "stopped"
    /\ host' = [host EXCEPT !.at = "idle"]
    /\ Write(Line("task_complete", 0))
    /\ IF agent = "codex" THEN Emit("agent-turn-complete", host.texts)
       ELSE UNCHANGED emitted
    /\ UNCHANGED copy /\ HostStep

\* The user interrupts the turn.
Abort ==
    /\ Working
    /\ host' = [host EXCEPT !.at = "idle"]
    /\ UNCHANGED <<emitted, transcript, reader, copy>> /\ HostStep

\* Codex compresses and archives the rollout of an ended session: each copy is
\* complete before the one before it goes.  The file may also be deleted.
Move ==
    /\ agent = "codex" /\ host.at = "idle" /\ host.turn = Turns
    /\ copy # Gone
    /\ \E place \in {Gone} \cup {q \in Places : q > copy} : copy' = place
    /\ UNCHANGED <<host, emitted, transcript, reader>> /\ HostStep

-----------------------------------------------------------------------------
(* acm processes *)

\* A request, and the positions of it that are still to be stored.
Idle == [at |-> "idle", request |-> <<>>, todo |-> {}, known |-> {}, place |-> 0, due |-> {}]

Set(p, record) == process' = [process EXCEPT ![p] = record]

Ended == {"idle", "ended", "unavailable"}

Begin(p) ==
    /\ process[p].at \in Ended
    /\ starts < MaxStarts
    /\ starts' = starts + 1

excludeMessage(m) == <<m.content.kind, m.content.turn>> \in Excluded

redactMessage(m) ==
    [m EXCEPT !.redacted = <<m.content.kind, m.content.turn>> \in Secrets]

\* Policy.Apply drops what is excluded and redacts the rest.
Kept(request, todo) == {i \in todo : ~ excludeMessage(request[i])}

RedactedPrompts(request) ==
    [i \in DOMAIN request |-> IF request[i].raw = NoLabel THEN request[i] ELSE redactMessage(request[i])]

Redacted(request) == [i \in DOMAIN request |-> redactMessage(request[i])]

\* Capture: the messages of a hook payload.
Captured(payload) ==
    CASE payload.event = "UserPromptSubmit" -> <<HookMessage("user", "prompt", payload.turn)>>
      [] payload.event = "PostToolUse" -> <<HookMessage("tool", "tool", payload.turn)>>
      [] payload.event = "agent-turn-complete" ->
             <<Message("user", Label("prompt", payload.turn, 0),
                       Label("prompt", payload.turn, 0), NoLabel)>>
             \o (IF payload.n = 0 THEN <<>>
                 ELSE <<Reply(payload, TurnID(payload.turn))>>)

Ingesting(request) ==
    [Idle EXCEPT !.at = "ensuring", !.request = request, !.todo = DOMAIN request]

\* A hook process parses the payload it was given.
Hook(p) ==
    \E payload \in emitted :
        /\ Begin(p)
        /\ Set(p, Ingesting(Captured(payload)))
        /\ UNCHANGED <<fixed, hostVars, storeVars, early, faults>>

\* A Stop hook reads the whole transcript; the host waits for it.
StopHook(p) ==
    /\ host.at = "stopped"
    /\ Begin(p)
    /\ Reconcile # <<>>
    /\ Set(p, Ingesting(Reconcile))
    /\ UNCHANGED <<fixed, hostVars, storeVars, early, faults>>

\* Ingest applies the policy and ensures the conversation.
Ensure(p) ==
    /\ process[p].at = "ensuring"
    /\ LET kept == Kept(process[p].request, process[p].todo)
           request == Redacted(process[p].request)
       IN  IF mode # "capture" \/ kept = {}
           THEN Set(p, Idle) /\ UNCHANGED session
           ELSE /\ Set(p, [process[p] EXCEPT !.at = "appending", !.request = request, !.todo = kept,
                                             !.due = @ \cup IdentitiesAt(request, kept)])
                /\ session' = TRUE
    /\ UNCHANGED <<fixed, hostVars, rows, early, starts, faults>>

Insert(m) == rows' = Append(rows, m)

\* One transaction probes for the identity and inserts.
AppendOne(m) == IF Identity(m) \in Identities(rows) THEN UNCHANGED rows ELSE Insert(m)

\* A process that has appended its last message reports success.
AppendMessage(p) ==
    /\ process[p].at = "appending"
    /\ \E i \in process[p].todo :
          /\ \A j \in process[p].todo : i <= j
          /\ AppendOne(process[p].request[i])
          /\ Set(p, [process[p] EXCEPT !.todo = @ \ {i},
                                       !.at = IF process[p].todo = {i} THEN "ended" ELSE @])
    /\ UNCHANGED <<fixed, hostVars, session, early, starts, faults>>

\* An error is returned, or the process dies; what was committed stays.
Fail(p) ==
    /\ process[p].at \notin Ended
    /\ faults < MaxFaults
    /\ faults' = faults + 1
    /\ Set(p, Idle)
    /\ UNCHANGED <<fixed, hostVars, storeVars, early, starts>>

-----------------------------------------------------------------------------
(* acm backfill --apply *)

\* The hook payloads, kept raw with a message, name the rollout.
transcriptPaths == {r \in Elements(rows) : r.raw # NoLabel}

AssistantIDs(s) == {m.id : m \in {r \in Elements(s) : r.role = "assistant"}}

\* The conversation's messages are read first.
ListMessages(p) ==
    /\ agent = "codex" /\ session
    /\ transcriptPaths # {}
    /\ Begin(p)
    /\ Set(p, [Idle EXCEPT !.at = "probing", !.place = 1, !.known = AssistantIDs(rows)])
    /\ UNCHANGED <<fixed, hostVars, storeVars, early, faults>>

\* What a scan finds that was not stored when the messages were listed.
MissingByCount(known, found) == {i \in DOMAIN found : found[i].content.turn > Cardinality(known)}

Missing(known, found) == {i \in DOMAIN found : found[i].id \notin known}

\* The replies of turns that have completed, under the policy.
Completed ==
    {m \in Elements(Reconcile) :
        /\ \E line \in Elements(transcript) :
               line.kind = "task_complete" /\ line.turn = m.content.turn
        /\ mode = "capture" /\ ~ excludeMessage(m)}

\* The rollout is read in one piece: what is appended later is not seen.
Scan(p) ==
    LET missing == Missing(process[p].known, Reconcile)
    IN  /\ early' = early \cup (IF Working THEN {host.turn} ELSE {})
        /\ Set(p, [process[p] EXCEPT
                      !.at = IF missing = {} THEN "ended" ELSE "ensuring",
                      !.request = Reconcile, !.todo = missing,
                      !.due = {Identity(m) : m \in Completed}])

FollowingPlain(place) == place + 2

Following(place) == place + 1

\* openTranscript tries the places a rollout can be at, in order.
Probe(p) ==
    /\ process[p].at = "probing"
    /\ IF copy = process[p].place THEN Scan(p)
       ELSE /\ Set(p, IF Following(process[p].place) \in Places
                      THEN [process[p] EXCEPT !.place = Following(@)]
                      ELSE [Idle EXCEPT !.at = "unavailable"])
            /\ UNCHANGED early
    /\ UNCHANGED <<fixed, hostVars, storeVars, starts, faults>>

-----------------------------------------------------------------------------

Init ==
    /\ agent \in Agents
    /\ mode \in Modes
    /\ host = [turn |-> 0, at |-> "idle", texts |-> 0]
    /\ emitted = {}
    /\ transcript = <<>>
    /\ reader = Reading(0, NoMessage, <<>>)
    /\ copy = 1
    /\ session = FALSE
    /\ rows = <<>>
    /\ process = [p \in Processes |-> Idle]
    /\ early = {}
    /\ starts = 0
    /\ faults = 0

Host == Prompt \/ UseTool \/ Say \/ EndTurn \/ Complete \/ Abort \/ Move

Acm(p) ==
    \/ Hook(p) \/ StopHook(p) \/ Ensure(p) \/ AppendMessage(p)
    \/ Fail(p)
    \/ ListMessages(p) \/ Probe(p)

Next == Host \/ \E p \in Processes : Acm(p)

Spec == Init /\ [][Next]_vars

-----------------------------------------------------------------------------
(* Properties *)

Kinds == {"none", "prompt", "tool", "reply"}
Labels == [kind : Kinds, turn : 0 .. Turns, n : 0 .. MaxTexts]
Messages ==
    [role : {"user", "tool", "assistant"}, content : Labels, id : Labels,
     raw : Labels, redacted : BOOLEAN]

\* Every variable keeps its type; a process works on a request or on a place.
TypeOK ==
    /\ agent \in Agents /\ mode \in Modes
    /\ host \in [turn : 0 .. Turns, at : {"idle", "working", "stopped"}, texts : 0 .. MaxTexts]
    /\ emitted \subseteq [event : {"UserPromptSubmit", "PostToolUse", "agent-turn-complete"},
                          turn : 1 .. Turns, n : 0 .. MaxTexts]
    /\ copy \in Places \cup {Gone}
    /\ session \in BOOLEAN
    /\ Elements(rows) \subseteq Messages
    /\ \A p \in Processes :
          /\ process[p].at \in Ended \cup {"ensuring", "appending", "probing"}
          /\ Elements(process[p].request) \subseteq Messages
          /\ process[p].todo \subseteq DOMAIN process[p].request
          /\ process[p].place \in 0 .. 4
    /\ early \subseteq 1 .. Turns
    /\ starts \in 0 .. MaxStarts /\ faults \in 0 .. MaxFaults

\* What happened at the host: a prompt, a tool call, a reply.  A Codex turn has
\* one reply, whatever text it was read with.
Event(m) == IF agent = "codex" THEN <<m.role, m.content.turn>> ELSE <<m.role, m.content>>

\* A host event has at most one row, by whatever paths it was delivered: hook,
\* notify, Stop and backfill, twice, late, or beside each other.
OneRowPerEvent ==
    \A i, j \in DOMAIN rows : Event(rows[i]) = Event(rows[j]) => i = j

\* The texts of a turn, as the transcript numbers them, and the last one.
Said(t) == {line.n : line \in {l \in Elements(transcript) :
                                  l.kind = "response_item" /\ l.turn = t}}

LastText(t) == CHOOSE n \in Said(t) : \A k \in Said(t) : k <= n

\* A reply stored under the ID of a Codex turn is a text of that turn, and its
\* last one, unless a backfill read the rollout before the turn had ended.
RepliesFinal ==
    agent = "codex" =>
        \A m \in Elements(rows) : m.role = "assistant" =>
            /\ m.id = TurnID(m.content.turn)
            /\ m.content.n = LastText(m.content.turn) \/ m.content.turn \in early

\* Nothing the policy excludes is stored and every secret is redacted, on each
\* of the paths, and a session that is not captured leaves no trace.
PolicyHolds ==
    /\ mode # "capture" => ~ session /\ rows = <<>>
    /\ \A m \in Elements(rows) :
          /\ <<m.content.kind, m.content.turn>> \notin Excluded
          /\ <<m.content.kind, m.content.turn>> \in Secrets => m.redacted

\* A process that reports success has everything it was given in the store,
\* and a backfill every reply of a turn completed when it read the rollout,
\* though the messages it compared with were listed earlier.
SuccessStored ==
    \A p \in Processes : process[p].at = "ended" => process[p].due \subseteq Identities(rows)

\* A rollout reported unavailable is gone: one that is moved down the lookup
\* order while it is looked for is still found.
RolloutFound ==
    \A p \in Processes : process[p].at = "unavailable" => copy = Gone
=============================================================================
