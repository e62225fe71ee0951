--------------------------- MODULE CaptureProofs ---------------------------
(***************************************************************************)
(* Proofs about Capture for any host, any number of processes, turns and   *)
(* faults: one row per event under the policy, replies that are the last   *)
(* of their turn, success that means stored, and a lookup order that never *)
(* misses a rollout that moves.                                            *)
(*                                                                         *)
(* What is stored comes from a request, a request from a payload or from   *)
(* the transcript, so the invariant says of every message on each of those *)
(* places what it will need to be once it is a row.                        *)
(***************************************************************************)
EXTENDS Capture, TLAPS

Lines == [kind : {"task_started", "response_item", "task_complete"}, turn : 1 .. Turns, n : 0 .. MaxTexts]

Payloads == [event : {"UserPromptSubmit", "PostToolUse", "agent-turn-complete"},
             turn : 1 .. Turns, n : 0 .. MaxTexts]

Readings == [turn : 0 .. Turns, pending : Messages \cup {NoMessage}, out : Seq(Messages)]

Ids == {Identity(m) : m \in Messages}

ProcessStates ==
    [at : Ended \cup {"ensuring", "appending", "probing"}, request : Seq(Messages), todo : SUBSET Nat,
     known : SUBSET Labels, place : 0 .. 4, due : SUBSET Ids]

Typed ==
    /\ agent \in Agents /\ mode \in Modes
    /\ host \in [turn : 0 .. Turns, at : {"idle", "working", "stopped"}, texts : 0 .. MaxTexts]
    /\ emitted \subseteq Payloads
    /\ transcript \in Seq(Lines)
    /\ reader \in Readings
    /\ copy \in Places \cup {Gone}
    /\ session \in BOOLEAN
    /\ rows \in Seq(Messages)
    /\ process \in [Processes -> ProcessStates]
    /\ early \subseteq 1 .. Turns
    /\ starts \in 0 .. MaxStarts /\ faults \in 0 .. MaxFaults

-----------------------------------------------------------------------------
(* Messages on their way to the store *)

\* A turn the host is done with: its texts are settled.
Settled(t) == t < host.turn \/ (t = host.turn /\ ~ Working)

Final(t, n) == t \in early \/ (Settled(t) /\ n = LastText(t))

\* The forms a message of this session has: its event determines its identity.
Shaped(m) ==
    \/ /\ m.role = "user" /\ m.content = Label("prompt", m.content.turn, 0)
       /\ m.id = HookID("prompt", m.content.turn)
       /\ agent # "codex" => m.raw = m.content
    \/ /\ m.role = "tool" /\ m.content = Label("tool", m.content.turn, 0)
       /\ m.id = HookID("tool", m.content.turn)
       /\ agent # "codex" => m.raw = m.content
    \/ /\ m.role = "assistant" /\ m.content = Label("reply", m.content.turn, m.content.n)
       /\ m.id = IF agent = "codex" THEN TurnID(m.content.turn) ELSE m.content
       /\ m.raw = NoLabel

Good(m) ==
    /\ Shaped(m)
    /\ agent = "codex" /\ m.role = "assistant" => Final(m.content.turn, m.content.n)

\* What the policy lets through.
Allowed(m) ==
    /\ ~ excludeMessage(m)
    /\ <<m.content.kind, m.content.turn>> \in Secrets => m.redacted

-----------------------------------------------------------------------------
(* The inductive invariant *)

\* The texts of the current turn are numbered from one.
SaidOK ==
    /\ host.at # "idle" => host.turn > 0
    /\ \A i \in DOMAIN transcript : transcript[i].turn <= host.turn
    /\ Said(host.turn) = 1 .. host.texts

\* A pending text is the current turn's last one, read under that turn.
ReaderOK ==
    /\ \A m \in Elements(reader.out) : Good(m)
    /\ agent # "codex" => reader.pending = NoMessage
    /\ agent = "codex" /\ Working => reader.turn = host.turn
    /\ reader.pending # NoMessage =>
          /\ reader.turn = host.turn /\ host.turn > 0 /\ host.texts > 0
          /\ \E id \in Labels : reader.pending = Message("assistant", Label("reply", host.turn, host.texts), id, NoLabel)

EmittedOK ==
    \A e \in emitted : e.event = "agent-turn-complete" =>
        agent = "codex" /\ (e.n = 0 \/ Final(e.turn, e.n))

RowsOK ==
    /\ \A m \in Elements(rows) : Good(m) /\ Allowed(m)
    /\ \A i, j \in DOMAIN rows : Identity(rows[i]) = Identity(rows[j]) => i = j
    /\ mode # "capture" => ~ session /\ rows = <<>>

\* A process that looks for the rollout has passed only places the rollout was
\* not at any more: it moves down the lookup order only, and so is found at a
\* place still ahead or is gone.
Ahead(p) ==
    /\ process[p].at = "probing" =>
          process[p].place \in Places /\ (copy = Gone \/ process[p].place <= copy)
    /\ process[p].at = "unavailable" => copy = Gone

\* What a process owes is stored or still to be stored by it.
Owes(r) ==
    CASE r.at = "ensuring" -> r.due \subseteq Identities(rows) \cup IdentitiesAt(r.request, Kept(r.request, r.todo))
      [] r.at = "appending" -> r.due \subseteq Identities(rows) \cup IdentitiesAt(r.request, r.todo)
      [] r.at = "ended" -> r.due \subseteq Identities(rows)
      [] OTHER -> TRUE

Held(r) ==
    /\ r.todo \subseteq DOMAIN r.request
    /\ \A m \in Elements(r.request) : Good(m)
    /\ r.at = "appending" => mode = "capture" /\ \A i \in r.todo : Allowed(r.request[i])
    /\ r.at = "probing" => agent = "codex" /\ r.known \subseteq AssistantIDs(rows)
    /\ Owes(r)

IInv ==
    /\ Typed
    /\ SaidOK /\ ReaderOK /\ EmittedOK
    /\ RowsOK
    /\ \A p \in Processes : Held(process[p]) /\ Ahead(p)

-----------------------------------------------------------------------------
(* Sequences and labels *)

LEMMA AppendAt ==
    ASSUME NEW S, NEW s \in Seq(S), NEW x \in S
    PROVE  /\ Append(s, x) \in Seq(S)
           /\ Append(s, x)[Len(s) + 1] = x
           /\ DOMAIN Append(s, x) = DOMAIN s \cup {Len(s) + 1}
           /\ Len(s) + 1 \notin DOMAIN s
           /\ \A i \in DOMAIN s : Append(s, x)[i] = s[i]
<1>1. Len(s) \in Nat /\ DOMAIN s = 1 .. Len(s) /\ Len(Append(s, x)) = Len(s) + 1
  OBVIOUS
<1> QED  BY <1>1

LEMMA AppendElements ==
    ASSUME NEW S, NEW s \in Seq(S), NEW x \in S
    PROVE  Elements(Append(s, x)) = Elements(s) \cup {x}
BY AppendAt DEF Elements

LEMMA Pairs ==
    ASSUME NEW S, NEW a \in S, NEW b \in S
    PROVE  <<a>> \o <<b>> \in Seq(S) /\ Elements(<<a>> \o <<b>>) = {a, b}
<1>1. <<a>> \in Seq(S) /\ <<b>> \in Seq(S) /\ Len(<<a>>) = 1 /\ Len(<<b>>) = 1
  OBVIOUS
<1> DEFINE s == <<a>> \o <<b>>
<1>2. s \in Seq(S) /\ Len(s) = 2 /\ s[1] = a /\ s[2] = b
  BY <1>1
<1> HIDE DEF s
<1>3. DOMAIN s = {1, 2}
  BY <1>2
<1> QED  BY <1>2, <1>3 DEF Elements, s

LEMMA AppendIdentities ==
    ASSUME NEW s \in Seq(Messages), NEW m \in Messages
    PROVE  Identities(Append(s, m)) = Identities(s) \cup {Identity(m)}
BY AppendAt DEF Identities, IdentitiesAt

LEMMA AppendAssistantIDs ==
    ASSUME NEW s \in Seq(Messages), NEW m \in Messages
    PROVE  AssistantIDs(s) \subseteq AssistantIDs(Append(s, m))
BY AppendElements DEF AssistantIDs

LEMMA LabelFields ==
    ASSUME NEW kind, NEW t, NEW n
    PROVE  /\ Label(kind, t, n).kind = kind /\ Label(kind, t, n).turn = t /\ Label(kind, t, n).n = n
           /\ kind \in Kinds /\ t \in 0 .. Turns /\ n \in 0 .. MaxTexts => Label(kind, t, n) \in Labels
           /\ kind # "none" => Label(kind, t, n) # NoLabel
BY DEF Label, Labels, NoLabel

LEMMA Bounds == Turns \in Nat /\ MaxTexts \in Nat /\ NoLabel \in Labels
BY CaptureAssumption DEF NoLabel, Label, Labels, Kinds

LEMMA MessageFields ==
    ASSUME NEW role, NEW content, NEW id, NEW raw
    PROVE  LET m == Message(role, content, id, raw)
           IN  /\ m.role = role /\ m.content = content /\ m.id = id /\ m.raw = raw
               /\ role \in {"user", "tool", "assistant"} /\ {content, id, raw} \subseteq Labels => m \in Messages
               /\ role # "none" => m # NoMessage
BY DEF Message, Messages, NoMessage

\* Redaction changes neither what a message is nor its identity.
LEMMA RedactedSame ==
    ASSUME NEW m \in Messages
    PROVE  /\ redactMessage(m) \in Messages
           /\ Shaped(m) => Shaped(redactMessage(m))
           /\ Good(m) => Good(redactMessage(m))
           /\ Identity(redactMessage(m)) = Identity(m)
           /\ ~ excludeMessage(m) => Allowed(redactMessage(m))
           /\ excludeMessage(redactMessage(m)) = excludeMessage(m)
<1> DEFINE r == redactMessage(m)
<1>1. /\ r \in Messages /\ r.role = m.role /\ r.content = m.content /\ r.id = m.id /\ r.raw = m.raw
      /\ r.redacted = (<<m.content.kind, m.content.turn>> \in Secrets)
  <2> DEFINE secret == <<m.content.kind, m.content.turn>> \in Secrets
  <2>1. secret \in BOOLEAN
    OBVIOUS
  <2>2. r = [m EXCEPT !.redacted = secret]
    BY DEF redactMessage
  <2> HIDE DEF secret, r
  <2>3. /\ r \in Messages /\ r.role = m.role /\ r.content = m.content /\ r.id = m.id /\ r.raw = m.raw
        /\ r.redacted = secret
    BY <2>1, <2>2 DEF Messages
  <2> QED  BY <2>3 DEF secret
<1> HIDE DEF r
<1>2. Shaped(m) => Shaped(r)
  BY <1>1 DEF Shaped
<1>3. Good(m) => Good(r)
  BY <1>1, <1>2 DEF Good
<1>4. Identity(r) = Identity(m)
  BY <1>1 DEF Identity
<1>5. (excludeMessage(r) = excludeMessage(m)) /\ (~ excludeMessage(m) => Allowed(r))
  BY <1>1 DEF excludeMessage, Allowed
<1> QED  BY <1>1, <1>2, <1>3, <1>4, <1>5 DEF r

\* The identity of a message says which host event it stands for.
LEMMA EventIdentity ==
    ASSUME NEW a \in Messages, NEW b \in Messages, Shaped(a), Shaped(b), Event(a) = Event(b)
    PROVE  Identity(a) = Identity(b)
<1>1. a.role = b.role
  BY DEF Event
<1>2. CASE agent = "codex"
  <2>1. a.content.turn = b.content.turn
    BY <1>2 DEF Event
  <2>2. a.id = b.id /\ a.id # NoLabel
    BY <1>1, <1>2, <2>1 DEF Shaped, HookID, TurnID, Label, NoLabel
  <2> QED  BY <2>2 DEF Identity
<1>3. CASE agent # "codex"
  <2>1. a.content = b.content
    BY <1>3 DEF Event
  <2>2. CASE a.role = "assistant"
    <3>1. a.id = b.id
      BY <1>1, <1>3, <2>1, <2>2 DEF Shaped
    <3>2. a.id # NoLabel
      BY <1>3, <2>2 DEF Shaped, Label, NoLabel
    <3> QED  BY <3>1, <3>2 DEF Identity
  <2>3. CASE a.role # "assistant"
    <3>1. a.id = NoLabel /\ b.id = NoLabel
      BY <1>1, <1>3, <2>3 DEF Shaped, HookID
    <3>2. a.raw = b.raw /\ a.raw # NoLabel
      BY <1>1, <1>3, <2>1, <2>3 DEF Shaped, Label, NoLabel
    <3> QED  BY <3>1, <3>2 DEF Identity
  <2> QED  BY <2>2, <2>3
<1> QED  BY <1>2, <1>3

-----------------------------------------------------------------------------
(* What the host can change *)

\* A line adds its number to the texts of its turn, if it is a text.
LEMMA SaidAppend ==
    ASSUME transcript \in Seq(Lines), NEW line \in Lines, transcript' = Append(transcript, line), NEW t
    PROVE  Said(t)' = Said(t) \cup (IF line.kind = "response_item" /\ line.turn = t THEN {line.n} ELSE {})
<1>1. Elements(transcript)' = Elements(transcript) \cup {line}
  BY AppendElements DEF Elements
<1> QED  BY <1>1 DEF Said

LEMMA TranscriptLines ==
    ASSUME Typed
    PROVE  \A j \in DOMAIN transcript : transcript[j] \in Lines /\ transcript[j].turn \in 1 .. Turns
<1>1. \A j \in DOMAIN transcript : transcript[j] \in Lines
  BY DEF Typed
<1> QED  BY <1>1 DEF Lines

LEMMA SaidSame == ASSUME UNCHANGED transcript, NEW t PROVE Said(t)' = Said(t)
BY DEF Said, Elements

\* The number of a turn's texts so far is that of its last one.
LEMMA LastTextIs ==
    ASSUME Typed, SaidOK, host.texts > 0
    PROVE  LastText(host.turn) = host.texts
<1>1. host.texts \in Nat
  BY Bounds DEF Typed
<1>2. Said(host.turn) = 1 .. host.texts
  BY DEF SaidOK
<1>3. \E n \in Said(host.turn) : \A k \in Said(host.turn) : k <= n
  BY <1>1, <1>2
<1>4. LastText(host.turn) \in Said(host.turn) /\ \A k \in Said(host.turn) : k <= LastText(host.turn)
  BY <1>3 DEF LastText
<1> QED  BY <1>1, <1>2, <1>4

\* What a step of the host changes of its state, and nothing else.
HostMoves ==
    /\ host' \in [turn : 0 .. Turns, at : {"idle", "working", "stopped"}, texts : 0 .. MaxTexts]
    /\ host'.turn = host.turn \/ host'.turn > host.turn
    /\ host'.at = "working" /\ host'.turn = host.turn => Working
    /\ \A t \in 0 .. Turns : Settled(t) => Said(t)' = Said(t)
    /\ UNCHANGED early

LEMMA FinalKept ==
    ASSUME Typed, HostMoves, agent' = agent, NEW t \in 0 .. Turns, NEW n, Final(t, n)
    PROVE  Final(t, n)'
<1>1. CASE t \in early
  BY <1>1 DEF Final, HostMoves
<1>2. CASE Settled(t) /\ n = LastText(t)
  <2>1. Settled(t)'
    BY <1>2 DEF Settled, HostMoves, Working, Typed
  <2>2. LastText(t)' = LastText(t)
    BY <1>2 DEF HostMoves, LastText
  <2> QED  BY <1>2, <2>1, <2>2 DEF Final
<1> QED  BY <1>1, <1>2 DEF Final

LEMMA GoodKept ==
    ASSUME Typed, HostMoves, agent' = agent, NEW m \in Messages, Good(m)
    PROVE  Good(m)'
<1>1. m.content.turn \in 0 .. Turns
  BY DEF Messages, Labels
<1>2. Shaped(m)'
  BY DEF Good, Shaped, HookID
<1> QED  BY <1>1, <1>2, FinalKept DEF Good

\* Steps that leave the host alone, but for more turns read early.
LEMMA FinalQuiet ==
    ASSUME UNCHANGED <<agent, host, transcript>>, early \subseteq early', NEW t, NEW n, Final(t, n)
    PROVE  Final(t, n)'
<1>1. LastText(t)' = LastText(t)
  BY SaidSame DEF LastText
<1>2. Settled(t) => Settled(t)'
  BY DEF Settled, Working
<1> QED  BY <1>1, <1>2 DEF Final

LEMMA GoodQuiet ==
    ASSUME UNCHANGED <<agent, host, transcript>>, early \subseteq early', NEW m, Good(m)
    PROVE  Good(m)'
<1>1. Shaped(m)'
  BY DEF Good, Shaped, HookID
<1>2. agent = "codex" /\ m.role = "assistant" => Final(m.content.turn, m.content.n)'
  BY FinalQuiet DEF Good
<1> QED  BY <1>1, <1>2 DEF Good

-----------------------------------------------------------------------------
(* What a reader finds *)

\* The pending text under its turn's ID is the reply of the current turn.
LEMMA PendingReply ==
    ASSUME Typed, SaidOK, ReaderOK, reader.pending # NoMessage
    PROVE  LET m == Under(reader.turn, reader.pending)
           IN  /\ agent = "codex"
               /\ m \in Messages /\ Shaped(m) /\ m.role = "assistant"
               /\ m.content = Label("reply", host.turn, host.texts)
               /\ ~ Working => Good(m)
<1> DEFINE m == Under(reader.turn, reader.pending)
           content == Label("reply", host.turn, host.texts)
<1>1. /\ agent = "codex" /\ reader.turn = host.turn /\ host.turn > 0 /\ host.texts > 0
      /\ host.turn \in 0 .. Turns /\ host.texts \in 0 .. MaxTexts
  BY DEF ReaderOK, Typed
<1>2. PICK id \in Labels : reader.pending = Message("assistant", content, id, NoLabel)
  BY DEF ReaderOK
<1>3. content \in Labels /\ content.turn = host.turn /\ content.n = host.texts /\ content.kind = "reply"
      /\ TurnID(host.turn) \in Labels
  BY <1>1, Bounds, LabelFields DEF Kinds, TurnID
<1>4. m = [reader.pending EXCEPT !.id = TurnID(host.turn)]
  BY <1>1 DEF Under
<1>5. /\ reader.pending \in Messages /\ reader.pending.role = "assistant"
      /\ reader.pending.content = content /\ reader.pending.raw = NoLabel
  BY <1>2, <1>3, MessageFields, Bounds
<1> HIDE DEF m, content
<1>6. m \in Messages /\ m.role = "assistant" /\ m.content = content /\ m.id = TurnID(host.turn) /\ m.raw = NoLabel
  BY <1>3, <1>4, <1>5 DEF Messages
<1> USE DEF content
<1>7. Shaped(m)
  BY <1>1, <1>3, <1>6 DEF Shaped
<1>8. ~ Working => Good(m)
  <2> SUFFICES ASSUME ~ Working PROVE Final(host.turn, host.texts)
    BY <1>3, <1>6, <1>7 DEF Good
  <2> QED  BY <1>1, LastTextIs DEF Final, Settled
<1> QED  BY <1>1, <1>6, <1>7, <1>8 DEF m

LEMMA FinishLaw ==
    ASSUME Typed, SaidOK, ReaderOK
    PROVE  /\ Finish(reader) \in Readings
           /\ Finish(reader).pending = NoMessage
           /\ \A m \in Elements(Finish(reader).out) :
                 Good(m) \/ (Shaped(m) /\ agent = "codex" /\ Working /\ m.content.turn = host.turn)
<1>1. reader \in Readings /\ reader.out \in Seq(Messages)
  BY DEF Typed, Readings
<1>2. CASE reader.pending = NoMessage
  BY <1>1, <1>2 DEF Finish, ReaderOK
<1>3. CASE reader.pending # NoMessage
  <2> DEFINE m == Under(reader.turn, reader.pending)
             out == Append(reader.out, m)
  <2>1. /\ agent = "codex" /\ m \in Messages /\ Shaped(m) /\ m.content = Label("reply", host.turn, host.texts)
        /\ ~ Working => Good(m)
    BY <1>3, PendingReply
  <2>2. m.content.turn = host.turn
    BY <2>1, LabelFields
  <2> HIDE DEF m
  <2>3. out \in Seq(Messages) /\ Elements(out) = Elements(reader.out) \cup {m}
    BY <1>1, <2>1, AppendAt, AppendElements
  <2>4. Finish(reader) = Reading(0, NoMessage, out)
    BY <1>3 DEF Finish, m
  <2> HIDE DEF out
  <2>5. Finish(reader) \in Readings /\ Finish(reader).pending = NoMessage /\ Finish(reader).out = out
    BY <2>3, <2>4, Bounds DEF Reading, Readings
  <2>6. \A r \in Elements(reader.out) : Good(r)
    BY DEF ReaderOK
  <2> QED  BY <2>1, <2>2, <2>3, <2>5, <2>6
<1> QED  BY <1>2, <1>3

\* A line leaves the types alone and counts as a text of its turn only.
LEMMA WriteLaw ==
    ASSUME Typed, SaidOK, ReaderOK, NEW line \in Lines, Write(line)
    PROVE  /\ transcript' \in Seq(Lines) /\ reader' \in Readings
           /\ \A t : Said(t)' = Said(t) \cup (IF line.kind = "response_item" /\ line.turn = t THEN {line.n} ELSE {})
           /\ \A i \in DOMAIN transcript' : transcript'[i] = line \/ \E j \in DOMAIN transcript : transcript'[i] = transcript[j]
<1>1. CASE ~ (agent = "codex" \/ line.kind = "response_item")
  <2>1. UNCHANGED <<transcript, reader>>
    BY <1>1 DEF Write
  <2> QED  BY <1>1, <2>1, SaidSame DEF Typed
<1>2. CASE agent = "codex" \/ line.kind = "response_item"
  <2>1. transcript' = Append(transcript, line) /\ reader' = Consume(reader, line)
    BY <1>2 DEF Write
  <2>2. transcript \in Seq(Lines) /\ reader \in Readings /\ reader.out \in Seq(Messages)
    BY DEF Typed, Readings
  <2>3. transcript' \in Seq(Lines) /\ DOMAIN transcript' = DOMAIN transcript \cup {Len(transcript) + 1}
        /\ transcript'[Len(transcript) + 1] = line /\ \A i \in DOMAIN transcript : transcript'[i] = transcript[i]
    BY <2>1, <2>2, AppendAt
  <2>4. \A t : Said(t)' = Said(t) \cup (IF line.kind = "response_item" /\ line.turn = t THEN {line.n} ELSE {})
    BY <2>1, <2>2, SaidAppend
  <2>5. line.turn \in 0 .. Turns /\ line.n \in 0 .. MaxTexts /\ line.turn \in 1 .. Turns
    BY Bounds DEF Lines
  <2>6. Reply(line, LineID(line)) \in Messages
    BY <2>5, LabelFields, MessageFields, Bounds DEF Reply, LineID, Kinds
  <2>7. Append(reader.out, Reply(line, LineID(line))) \in Seq(Messages)
    BY <2>2, <2>6, AppendAt
  <2>8. reader' \in Readings
    <3>1. CASE line.kind = "task_started"
      BY <2>1, <2>2, <2>5, <3>1 DEF Consume, Reading, Readings
    <3>2. CASE line.kind = "task_complete"
      BY <2>1, <3>2, FinishLaw DEF Consume
    <3>3. CASE line.kind = "response_item" /\ agent = "codex"
      BY <2>1, <2>2, <2>6, <3>3 DEF Consume, Reading, Readings
    <3>4. CASE line.kind = "response_item" /\ agent # "codex"
      <4>1. reader' = Reading(0, NoMessage, Append(reader.out, Reply(line, LineID(line))))
        BY <2>1, <3>4 DEF Consume
      <4>2. 0 \in 0 .. Turns
        BY Bounds
      <4> QED  BY <2>7, <4>1, <4>2 DEF Reading, Readings
    <3> QED  BY <3>1, <3>2, <3>3, <3>4 DEF Lines
  <2> QED  BY <2>3, <2>4, <2>8
<1> QED  BY <1>1, <1>2

-----------------------------------------------------------------------------
(* The host's steps *)

LEMMA HostIInv ==
    ASSUME IInv, HostMoves, HostStep, Typed', SaidOK', ReaderOK', EmittedOK',
           copy' = copy \/ copy' = Gone \/ (copy # Gone /\ copy' > copy)
    PROVE  IInv'
<1>1. UNCHANGED <<agent, mode, session, rows, process>>
  BY DEF HostStep, fixed, storeVars
<1>2. \A m \in Messages : Good(m) => Good(m)'
  BY <1>1, GoodKept DEF IInv
<1>3. RowsOK'
  <2>1. Elements(rows) \subseteq Messages
    BY DEF IInv, Typed, Elements
  <2> QED  BY <1>1, <1>2, <2>1 DEF IInv, RowsOK, Allowed, excludeMessage, Elements
<1>4. ASSUME NEW p \in Processes PROVE Held(process[p])' /\ Ahead(p)'
  <2>1. process[p] \in ProcessStates /\ Held(process[p]) /\ Ahead(p) /\ copy \in Places \cup {Gone}
        /\ copy' \in Places \cup {Gone}
    BY DEF IInv, Typed
  <2>2. Elements(process[p].request) \subseteq Messages
    BY <2>1 DEF ProcessStates, Elements
  <2>3. Owes(process[p])'
    BY <1>1, <2>1 DEF Held, Owes, Kept, excludeMessage, Identities, IdentitiesAt
  <2>4. Held(process[p])'
    BY <1>1, <1>2, <2>1, <2>2, <2>3 DEF Held, Allowed, excludeMessage, Elements, AssistantIDs
  <2>5. Ahead(p)'
    BY <1>1, <2>1 DEF Ahead, Places, Gone, ProcessStates
  <2> QED  BY <2>4, <2>5
<1> QED  BY <1>3, <1>4 DEF IInv

LEMMA EmittedKept ==
    ASSUME Typed, EmittedOK, HostMoves, agent' = agent, emitted' \subseteq Payloads,
           \A e \in emitted' : \/ e \in emitted \/ e.event # "agent-turn-complete"
                               \/ agent = "codex" /\ (e.n = 0 \/ Final(e.turn, e.n)')
    PROVE  EmittedOK'
<1> SUFFICES ASSUME NEW e \in Payloads, e \in emitted', e.event = "agent-turn-complete", e \in emitted
             PROVE  agent = "codex" /\ (e.n = 0 \/ Final(e.turn, e.n)')
  BY DEF EmittedOK
<1>1. e.turn \in 0 .. Turns
  BY Bounds DEF Payloads
<1> QED  BY <1>1, FinalKept DEF EmittedOK

LEMMA FoundKept ==
    ASSUME Typed, ReaderOK, HostMoves, agent' = agent
    PROVE  \A m \in Elements(reader.out) : m \in Messages /\ Good(m)'
<1>1. Elements(reader.out) \subseteq Messages
  BY DEF Typed, Readings, Elements
<1> QED  BY <1>1, GoodKept DEF ReaderOK

\* Steps that leave the transcript alone and, if they end the work, the turn.
LEMMA StillHost ==
    ASSUME IInv, HostStep, UNCHANGED <<transcript, reader>>, Typed',
           host'.turn = host.turn, host'.texts = host.texts,
           host'.at = "working" => Working, host'.at = "stopped" => host.at # "idle",
           \A e \in emitted' : e \in emitted \/ e.event # "agent-turn-complete",
           copy' = copy \/ copy' = Gone \/ (copy # Gone /\ copy' > copy)
    PROVE  IInv'
<1>1. UNCHANGED <<agent, mode, session, rows, process, early>>
  BY DEF HostStep, fixed, storeVars
<1>2. HostMoves
  BY <1>1, SaidSame DEF HostMoves, Typed
<1>3. SaidOK'
  BY SaidSame DEF IInv, SaidOK, Typed, Working
<1>4. ReaderOK'
  BY <1>1, <1>2, FoundKept DEF IInv, ReaderOK, Working
<1>5. EmittedOK'
  BY <1>1, <1>2, EmittedKept DEF IInv, Typed
<1> QED  BY <1>2, <1>3, <1>4, <1>5, HostIInv

LEMMA PromptIInv == ASSUME IInv, Prompt PROVE IInv'
<1> DEFINE line == [kind |-> "task_started", turn |-> host.turn + 1, n |-> 0]
           payload == [event |-> "UserPromptSubmit", turn |-> host.turn + 1, n |-> 0]
<1>1. Typed /\ SaidOK /\ ReaderOK /\ EmittedOK
  BY DEF IInv
<1>2. /\ host.turn \in 0 .. Turns /\ host.turn < Turns /\ host.at = "idle"
      /\ host' = [turn |-> host.turn + 1, at |-> "working", texts |-> 0]
      /\ Write(line) /\ emitted' = emitted \cup {payload} /\ copy' = copy /\ HostStep
  BY <1>1 DEF Prompt, Typed
<1>3. line \in Lines /\ payload \in Payloads /\ host.turn + 1 \in 1 .. Turns
  BY <1>2, Bounds DEF Lines, Payloads
<1>4. UNCHANGED <<agent, mode, session, rows, process, early, starts, faults>>
  BY <1>2 DEF HostStep, fixed, storeVars
<1>5. /\ transcript' \in Seq(Lines) /\ reader' \in Readings
      /\ \A t : Said(t)' = Said(t)
      /\ \A i \in DOMAIN transcript' : transcript'[i] = line \/ \E j \in DOMAIN transcript : transcript'[i] = transcript[j]
  <2>1. line.kind # "response_item"
    OBVIOUS
  <2> HIDE DEF line
  <2> QED  BY <1>1, <1>2, <1>3, <2>1, WriteLaw
<1>6. Typed'
  BY <1>1, <1>2, <1>3, <1>4, <1>5, Bounds DEF Typed
<1>7. HostMoves
  BY <1>1, <1>2, <1>4, <1>5, <1>6 DEF HostMoves, Typed, Working
<1>8. SaidOK'
  <2>1. \A j \in DOMAIN transcript : transcript[j].turn <= host.turn /\ transcript[j].turn \in 1 .. Turns
    BY <1>1, TranscriptLines DEF SaidOK
  <2>2. \A i \in DOMAIN transcript' : transcript'[i].turn <= host.turn + 1
    BY <1>2, <1>5, <2>1, Bounds
  <2>3. PICK t : t = host.turn + 1
    OBVIOUS
  <2>4. Said(t) = {}
    <3>1. \A j \in DOMAIN transcript : transcript[j].turn # t
      BY <1>2, <2>1, <2>3, Bounds
    <3> QED  BY <3>1 DEF Said, Elements
  <2>5. Said(t)' = {} /\ t = host'.turn
    BY <1>2, <1>5, <2>3, <2>4
  <2>6. Said(host.turn)' = {}
    BY <2>5 DEF Said
  <2>7. (1 .. host.texts)' = {}
    BY <1>2
  <2> QED  BY <1>2, <1>3, <2>2, <2>6, <2>7, Bounds DEF SaidOK
<1>9. ReaderOK'
  <2>1. \A m \in Elements(reader.out) : Good(m)'
    BY <1>1, <1>4, <1>7, FoundKept
  <2>2. CASE agent = "codex"
    <3>1. reader' = Reading(host.turn + 1, NoMessage, reader.out)
      BY <1>2, <2>2 DEF Write, Consume
    <3> QED  BY <1>2, <1>4, <2>1, <2>2, <3>1 DEF ReaderOK, Reading
  <2>3. CASE agent # "codex"
    <3>1. reader' = reader /\ reader.pending = NoMessage
      BY <1>1, <1>2, <2>3 DEF Write, ReaderOK
    <3> QED  BY <1>4, <2>1, <2>3, <3>1 DEF ReaderOK
  <2> QED  BY <2>2, <2>3
<1>10. EmittedOK'
  BY <1>1, <1>2, <1>3, <1>4, <1>6, <1>7, EmittedKept DEF Typed
<1> QED  BY <1>2, <1>6, <1>7, <1>8, <1>9, <1>10, HostIInv

LEMMA SayIInv == ASSUME IInv, Say PROVE IInv'
<1> DEFINE line == [kind |-> "response_item", turn |-> host.turn, n |-> host.texts + 1]
<1>1. Typed /\ SaidOK /\ ReaderOK /\ EmittedOK
  BY DEF IInv
<1>2. /\ host.turn \in 0 .. Turns /\ host.at = "working" /\ host.texts \in 0 .. MaxTexts /\ host.texts < MaxTexts
      /\ host' = [host EXCEPT !.texts = @ + 1]
      /\ Write(line) /\ emitted' = emitted /\ copy' = copy /\ HostStep
  BY <1>1 DEF Say, Typed, Line, Working
<1>3. host' = [turn |-> host.turn, at |-> "working", texts |-> host.texts + 1]
  BY <1>1, <1>2 DEF Typed
<1>4. UNCHANGED <<agent, mode, session, rows, process, early, starts, faults>>
  BY <1>2 DEF HostStep, fixed, storeVars
<1>5. host.turn > 0
  BY <1>1, <1>2 DEF SaidOK
<1>6. QED
  <2>1. line \in Lines /\ host.texts + 1 \in 1 .. MaxTexts
    BY <1>2, <1>5, Bounds DEF Lines
  <2>2. /\ transcript' \in Seq(Lines) /\ reader' \in Readings
        /\ \A t : Said(t)' = Said(t) \cup (IF host.turn = t THEN {host.texts + 1} ELSE {})
        /\ \A i \in DOMAIN transcript' : transcript'[i] = line \/ \E j \in DOMAIN transcript : transcript'[i] = transcript[j]
    BY <1>1, <1>2, <2>1, WriteLaw
  <2>3. Typed'
    BY SMTT(30), <1>1, <1>2, <1>3, <1>4, <2>1, <2>2, Bounds DEF Typed
  <2>4. HostMoves
    <3>1. host.turn \in 0 .. Turns /\ host'.turn = host.turn /\ Working
      BY <1>2, <1>3 DEF Working
    <3>2. \A t \in 0 .. Turns : Settled(t) => Said(t)' = Said(t)
      <4>1. \A t : Settled(t) => t # host.turn
        BY <3>1 DEF Settled
      <4> QED  BY <2>2, <4>1
    <3> QED  BY <1>4, <2>3, <3>1, <3>2 DEF HostMoves, Typed
  <2>5. SaidOK'
    <3>1. \A i \in DOMAIN transcript' : transcript'[i].turn <= host.turn
      BY <1>1, <1>2, <2>2, TranscriptLines, Bounds DEF SaidOK
    <3>2. PICK t : t = host.turn
      OBVIOUS
    <3>3. Said(t)' = (1 .. host.texts) \cup {host.texts + 1}
      BY <1>1, <2>2, <3>2 DEF SaidOK
    <3>4. Said(host.turn)' = (1 .. host.texts) \cup {host.texts + 1}
      BY <1>3, <3>2, <3>3 DEF Said
    <3>5. (1 .. host.texts) \cup {host.texts + 1} = 1 .. host.texts + 1
      BY <1>2, Bounds
    <3> QED  BY <1>3, <1>5, <3>1, <3>4, <3>5 DEF SaidOK
  <2>6. ReaderOK'
    <3>1. \A m \in Elements(reader.out) : m \in Messages /\ Good(m)'
      BY <1>1, <1>4, <2>4, FoundKept
    <3> DEFINE m == Reply(line, LineID(line))
    <3>2. /\ m = Message("assistant", Label("reply", host.turn, host.texts + 1),
                         Label("reply", host.turn, host.texts + 1), NoLabel)
          /\ Label("reply", host.turn, host.texts + 1) \in Labels
      BY <1>2, <1>5, <2>1, LabelFields, Bounds DEF Reply, LineID, Kinds
    <3>3. CASE agent = "codex"
      <4>1. reader' = Reading(reader.turn, m, reader.out) /\ reader.turn = host.turn
        BY <1>1, <1>2, <3>3 DEF Write, Consume, ReaderOK, Working
      <4>2. reader'.turn = host'.turn /\ host'.turn > 0 /\ host'.texts > 0 /\ reader'.pending = m /\ reader'.out = reader.out
        BY <1>2, <1>3, <1>5, <4>1 DEF Reading
      <4>3. \E id \in Labels : reader'.pending = Message("assistant", Label("reply", host'.turn, host'.texts), id, NoLabel)
        BY <1>3, <3>2, <4>2
      <4> HIDE DEF m
      <4> QED  BY <1>4, <3>1, <3>3, <4>2, <4>3 DEF ReaderOK, Message, Label, NoLabel
    <3>4. CASE agent # "codex"
      <4>1. reader' = Reading(0, NoMessage, Append(reader.out, m))
        BY <1>2, <3>4 DEF Write, Consume
      <4>2. m \in Messages /\ m.role = "assistant" /\ m.content = Label("reply", host.turn, host.texts + 1)
            /\ m.id = m.content /\ m.raw = NoLabel
        BY <3>2, MessageFields, Bounds
      <4>3. PICK c : c = m
        OBVIOUS
      <4>4. Good(c)'
        BY <1>4, <3>4, <4>2, <4>3, LabelFields DEF Good, Shaped
      <4> HIDE DEF m
      <4>5. Elements(reader.out)' = Elements(reader.out) \cup {c} /\ reader'.pending = NoMessage
        <5>1. reader.out \in Seq(Messages)
          BY <1>1 DEF Typed, Readings
        <5>2. reader'.out = Append(reader.out, c) /\ reader'.pending = NoMessage
          BY <4>1, <4>3 DEF Reading
        <5> QED  BY SMTT(30), <4>2, <4>3, <5>1, <5>2, AppendElements DEF Elements
      <4> QED  BY <1>4, <3>1, <3>4, <4>4, <4>5 DEF ReaderOK
    <3> QED  BY <3>3, <3>4
  <2>7. EmittedOK'
    BY <1>1, <1>2, <1>4, <2>3, <2>4, EmittedKept DEF Typed
  <2> QED  BY <1>2, <2>3, <2>4, <2>5, <2>6, <2>7, HostIInv

LEMMA CompleteIInv == ASSUME IInv, Complete PROVE IInv'
<1> DEFINE line == [kind |-> "task_complete", turn |-> host.turn, n |-> 0]
           payload == [event |-> "agent-turn-complete", turn |-> host.turn, n |-> host.texts]
<1>1. Typed /\ SaidOK /\ ReaderOK /\ EmittedOK
  BY DEF IInv
<1>2. /\ host.turn \in 0 .. Turns /\ host.at = "stopped" /\ host.texts \in 0 .. MaxTexts
      /\ host' = [host EXCEPT !.at = "idle"]
      /\ Write(line) /\ copy' = copy /\ HostStep
      /\ IF agent = "codex" THEN emitted' = emitted \cup {payload} ELSE UNCHANGED emitted
  BY <1>1 DEF Complete, Typed, Line, Emit
<1>3. host' = [turn |-> host.turn, at |-> "idle", texts |-> host.texts] /\ host.turn > 0 /\ ~ Working
  BY <1>1, <1>2 DEF Typed, SaidOK, Working
<1>4. UNCHANGED <<agent, mode, session, rows, process, early, starts, faults>>
  BY <1>2 DEF HostStep, fixed, storeVars
<1>5. line \in Lines /\ payload \in Payloads
  BY <1>2, <1>3, Bounds DEF Lines, Payloads
<1>6. /\ transcript' \in Seq(Lines) /\ reader' \in Readings
      /\ \A t : Said(t)' = Said(t)
      /\ \A i \in DOMAIN transcript' : transcript'[i] = line \/ \E j \in DOMAIN transcript : transcript'[i] = transcript[j]
  <2>1. line.kind # "response_item"
    OBVIOUS
  <2> HIDE DEF line
  <2> QED  BY <1>1, <1>2, <1>5, <2>1, WriteLaw
<1>7. emitted' \subseteq Payloads
  BY <1>1, <1>2, <1>5 DEF Typed
<1>8. Typed'
  BY <1>1, <1>2, <1>3, <1>4, <1>6, <1>7, Bounds DEF Typed
<1>9. HostMoves
  BY <1>1, <1>2, <1>3, <1>4, <1>6, <1>8 DEF HostMoves, Typed
<1>10. SaidOK'
  <2>1. \A i \in DOMAIN transcript' : transcript'[i].turn <= host.turn
    BY <1>1, <1>2, <1>6, TranscriptLines, Bounds DEF SaidOK
  <2>2. PICK t : t = host.turn
    OBVIOUS
  <2>3. Said(t)' = 1 .. host.texts
    BY <1>1, <1>6, <2>2 DEF SaidOK
  <2>4. Said(host.turn)' = 1 .. host.texts
    BY <1>3, <2>2, <2>3 DEF Said
  <2> QED  BY <1>3, <2>1, <2>4 DEF SaidOK
<1>11. ReaderOK'
  <2>1. CASE agent = "codex"
    <3>1. reader' = Finish(reader)
      BY <1>2, <2>1 DEF Write, Consume
    <3>2. reader'.pending = NoMessage /\ \A m \in Elements(Finish(reader).out) : Good(m)
      BY <1>1, <1>3, <3>1, FinishLaw
    <3>3. Elements(Finish(reader).out) \subseteq Messages
      BY <1>1, FinishLaw DEF Readings, Elements
    <3>4. \A m \in Elements(Finish(reader).out) : Good(m)'
      BY <1>1, <1>4, <1>9, <3>2, <3>3, GoodKept
    <3>5. Elements(reader.out)' = Elements(Finish(reader).out)
      BY <3>1 DEF Elements
    <3> QED  BY <1>3, <1>4, <2>1, <3>2, <3>4, <3>5 DEF ReaderOK, Working
  <2>2. CASE agent # "codex"
    <3>1. reader' = reader /\ reader.pending = NoMessage
      BY <1>1, <1>2, <2>2 DEF Write, ReaderOK
    <3>2. \A m \in Elements(reader.out) : Good(m)'
      BY <1>1, <1>4, <1>9, FoundKept
    <3> QED  BY <1>4, <2>2, <3>1, <3>2 DEF ReaderOK
  <2> QED  BY <2>1, <2>2
<1>12. EmittedOK'
  <2>1. PICK t \in 0 .. Turns, n \in 0 .. MaxTexts : t = host.turn /\ n = host.texts
    BY <1>2
  <2>2. n # 0 => Final(t, n)
    BY <1>1, <1>2, <1>3, <2>1, LastTextIs DEF Final, Settled
  <2>3. \A e \in emitted' : e \in emitted \/ (agent = "codex" /\ e.turn = t /\ e.n = n)
    BY <1>2, <2>1
  <2>4. ASSUME NEW e \in emitted'
        PROVE  \/ e \in emitted \/ e.event # "agent-turn-complete"
               \/ agent = "codex" /\ (e.n = 0 \/ Final(e.turn, e.n)')
    <3>1. CASE e \in emitted \/ e.n = 0
      BY <2>3, <3>1
    <3>2. CASE e \notin emitted /\ e.n # 0
      <4>1. agent = "codex" /\ e.turn \in 0 .. Turns /\ Final(e.turn, e.n)
        BY <2>2, <2>3, <3>2
      <4>2. Final(e.turn, e.n)'
        BY <1>1, <1>4, <1>9, <4>1, FinalKept
      <4> QED  BY <4>1, <4>2
    <3> QED  BY <3>1, <3>2
  <2> QED  BY <1>1, <1>4, <1>7, <1>9, <2>4, EmittedKept
<1> QED  BY <1>2, <1>8, <1>9, <1>10, <1>11, <1>12, HostIInv

LEMMA OtherHostIInv == ASSUME IInv, UseTool \/ EndTurn \/ Abort \/ Move PROVE IInv'
<1>1. Typed /\ SaidOK
  BY DEF IInv
<1>2. HostStep /\ UNCHANGED <<transcript, reader>>
  BY DEF UseTool, EndTurn, Abort, Move
<1>3. UNCHANGED <<agent, mode, session, rows, process, early, starts, faults>>
  BY <1>2 DEF HostStep, fixed, storeVars
<1>4. CASE UseTool
  <2> DEFINE payload == [event |-> "PostToolUse", turn |-> host.turn, n |-> 0]
  <2>1. host' = host /\ copy' = copy /\ emitted' = emitted \cup {payload} /\ Working
    BY <1>4 DEF UseTool, Emit
  <2>2. payload \in Payloads /\ payload.event # "agent-turn-complete"
    BY <1>1, <2>1, Bounds DEF Payloads, Typed, SaidOK, Working
  <2>3. Typed'
    BY <1>1, <1>2, <1>3, <2>1, <2>2 DEF Typed
  <2> QED  BY <1>2, <2>1, <2>2, <2>3, StillHost
<1>5. CASE EndTurn \/ Abort
  <2>1. copy' = copy /\ emitted' = emitted /\ Working
        /\ (host' = [host EXCEPT !.at = "stopped"] \/ host' = [host EXCEPT !.at = "idle"])
    BY <1>5 DEF EndTurn, Abort
  <2>2. host'.turn = host.turn /\ host'.texts = host.texts /\ host'.at \in {"stopped", "idle"}
        /\ host' \in [turn : 0 .. Turns, at : {"idle", "working", "stopped"}, texts : 0 .. MaxTexts]
    BY <1>1, <2>1 DEF Typed
  <2>3. Typed'
    BY <1>1, <1>2, <1>3, <2>1, <2>2 DEF Typed
  <2> QED  BY <1>2, <2>1, <2>2, <2>3, StillHost DEF Working
<1>6. CASE Move
  <2>1. host' = host /\ emitted' = emitted /\ copy # Gone
        /\ (copy' = Gone \/ (copy' \in Places /\ copy' > copy))
    BY <1>6 DEF Move
  <2>2. Typed'
    BY <1>1, <1>2, <1>3, <2>1 DEF Typed
  <2> QED  BY <1>2, <2>1, <2>2, StillHost DEF Working
<1> QED  BY <1>4, <1>5, <1>6

-----------------------------------------------------------------------------
(* The acm processes' steps *)

LEMMA ElementsIn == ASSUME NEW S, NEW s \in Seq(S) PROVE Elements(s) \subseteq S
BY DEF Elements

\* What one process is set to is all that changes of them; the store only grows.
LEMMA AcmIInv ==
    ASSUME IInv, UNCHANGED <<fixed, hostVars>>,
           NEW p \in Processes, NEW r \in ProcessStates, Set(p, r), Held(r)',
           r.at = "probing" => r.place \in Places /\ (copy = Gone \/ r.place <= copy),
           r.at = "unavailable" => copy = Gone,
           early \subseteq early', early' \subseteq 1 .. Turns,
           starts' \in 0 .. MaxStarts, faults' \in 0 .. MaxFaults,
           session' \in BOOLEAN, rows' \in Seq(Messages), RowsOK',
           Identities(rows) \subseteq Identities(rows)', AssistantIDs(rows) \subseteq AssistantIDs(rows)'
    PROVE  IInv'
<1>1. Typed /\ SaidOK /\ ReaderOK /\ EmittedOK
  BY DEF IInv
<1>2. UNCHANGED <<agent, mode, host, emitted, transcript, reader, copy>>
  BY DEF fixed, hostVars
<1>3. /\ process' \in [Processes -> ProcessStates] /\ process'[p] = r
      /\ \A q \in Processes : q # p => process'[q] = process[q]
  BY <1>1 DEF Set, Typed
<1>4. Typed'
  BY <1>1, <1>2, <1>3 DEF Typed
<1>5. SaidOK'
  BY <1>1, <1>2, SaidSame DEF SaidOK
<1>6. ReaderOK'
  <2>1. \A m \in Elements(reader.out) : Good(m)'
    BY <1>1, <1>2, GoodQuiet DEF ReaderOK
  <2> QED  BY <1>1, <1>2, <2>1 DEF ReaderOK, Working
<1>7. EmittedOK'
  <2>1. \A e \in emitted : e.event = "agent-turn-complete" => agent = "codex" /\ (e.n = 0 \/ Final(e.turn, e.n)')
    BY <1>1, <1>2, FinalQuiet DEF EmittedOK
  <2> QED  BY <1>2, <2>1 DEF EmittedOK
<1>8. ASSUME NEW q \in Processes PROVE Held(process[q])' /\ Ahead(q)'
  <2>1. CASE q = p
    <3>1. Held(process[q])'
      BY <1>3, <2>1 DEF Held, Owes
    <3>2. Ahead(q)'
      BY <1>2, <1>3, <2>1 DEF Ahead
    <3> QED  BY <3>1, <3>2
  <2>2. CASE q # p
    <3>1. PICK h \in ProcessStates : h = process[q] /\ Held(h)
      BY <1>1 DEF IInv, Typed
    <3>2. process'[q] = h
      BY <1>3, <2>2, <3>1
    <3>3. Owes(h)'
      <4>1. Owes(h)
        BY <3>1 DEF Held
      <4>2. h.at \in {"ensuring", "appending", "ended"} \/ h.at \notin {"ensuring", "appending", "ended"}
        OBVIOUS
      <4> QED  BY <1>2, <4>1, <4>2 DEF Owes
    <3>4. Held(h)'
      <4>1. \A m \in Elements(h.request) : Good(m)'
        BY <1>2, <3>1, GoodQuiet DEF Held
      <4> QED  BY <1>2, <3>1, <3>3, <4>1 DEF Held
    <3>5. Held(process[q])'
      BY <3>2, <3>4 DEF Held, Owes
    <3>6. Ahead(q)'
      BY <1>2, <1>3, <2>2 DEF IInv, Ahead
    <3> QED  BY <3>5, <3>6
  <2> QED  BY <2>1, <2>2
<1> QED  BY <1>4, <1>5, <1>6, <1>7, <1>8 DEF IInv

\* A step that stores nothing.
LEMMA RowsSame ==
    ASSUME IInv, UNCHANGED <<fixed, hostVars, rows>>, early \subseteq early',
           session' = session \/ mode = "capture"
    PROVE  RowsOK' /\ Identities(rows)' = Identities(rows) /\ AssistantIDs(rows)' = AssistantIDs(rows)
<1>1. \A m \in Elements(rows) : Good(m)' /\ Allowed(m)
  BY GoodQuiet DEF IInv, RowsOK, fixed, hostVars
<1> QED  BY <1>1 DEF IInv, RowsOK, fixed, Elements, Identities, IdentitiesAt, AssistantIDs, Allowed

LEMMA IdleHeld == Idle \in ProcessStates /\ Idle.at = "idle" /\ Held(Idle)
<1>1. /\ Idle \in ProcessStates /\ Idle.at = "idle" /\ Idle.request = <<>> /\ Idle.todo = {}
  BY DEF Idle, ProcessStates, Ended
<1>2. Elements(Idle.request) = {}
  BY <1>1 DEF Elements
<1> QED  BY <1>1, <1>2 DEF Held, Owes

\* A process that ends without success, or begins with a request.
LEMMA IdleIInv ==
    ASSUME IInv, NEW p \in Processes, Set(p, Idle), UNCHANGED <<fixed, hostVars, storeVars, early>>,
           starts' \in 0 .. MaxStarts, faults' \in 0 .. MaxFaults
    PROVE  IInv'
<1>1. PICK r : r = Idle
  OBVIOUS
<1>2. r \in ProcessStates /\ r.at = "idle" /\ Held(r)'
  <2>1. r \in ProcessStates /\ r.at = "idle" /\ r.request = <<>> /\ r.todo = {}
    BY <1>1, IdleHeld DEF Idle
  <2>2. Elements(r.request) = {}
    BY <2>1 DEF Elements
  <2> QED  BY <2>1, <2>2 DEF Held, Owes
<1>3. Set(p, r)
  BY <1>1 DEF Set
<1>4. RowsOK' /\ Identities(rows)' = Identities(rows) /\ AssistantIDs(rows)' = AssistantIDs(rows)
  BY RowsSame DEF storeVars
<1>5. UNCHANGED <<session, rows>> /\ rows \in Seq(Messages) /\ session \in BOOLEAN /\ early \subseteq 1 .. Turns
  BY DEF IInv, Typed, storeVars
<1> QED  BY <1>2, <1>3, <1>4, <1>5, AcmIInv

LEMMA IngestIInv ==
    ASSUME IInv, NEW p \in Processes, NEW request \in Seq(Messages), Set(p, Ingesting(request)),
           \A m \in Elements(request) : Good(m),
           UNCHANGED <<fixed, hostVars, storeVars, early, faults>>, Begin(p)
    PROVE  IInv'
<1>1. PICK r : r = Ingesting(request)
  OBVIOUS
<1>2. /\ r \in ProcessStates /\ r.at = "ensuring" /\ r.request = request /\ r.todo = DOMAIN request /\ r.due = {}
  <2>1. Idle \in ProcessStates /\ Idle.due = {}
    BY IdleHeld DEF Idle
  <2>2. DOMAIN request \in SUBSET Nat
    OBVIOUS
  <2>3. r = [Idle EXCEPT !.at = "ensuring", !.request = request, !.todo = DOMAIN request]
    BY <1>1 DEF Ingesting
  <2> QED  BY <2>1, <2>2, <2>3 DEF ProcessStates
<1>3. Held(r)'
  <2>1. \A m \in Elements(request) : Good(m)'
    BY GoodQuiet DEF fixed, hostVars
  <2> QED  BY <1>2, <2>1 DEF Held, Owes
<1>4. Set(p, r)
  BY <1>1 DEF Set
<1>5. RowsOK' /\ Identities(rows)' = Identities(rows) /\ AssistantIDs(rows)' = AssistantIDs(rows)
  BY RowsSame DEF storeVars
<1>6. UNCHANGED <<session, rows>> /\ rows \in Seq(Messages) /\ session \in BOOLEAN /\ early \subseteq 1 .. Turns
  BY DEF IInv, Typed, storeVars
<1>7. starts' \in 0 .. MaxStarts /\ faults' \in 0 .. MaxFaults
  BY CaptureAssumption DEF IInv, Typed, Begin
<1> QED  BY <1>2, <1>3, <1>4, <1>5, <1>6, <1>7, AcmIInv

\* The messages of a payload are those of its event.
LEMMA CapturedGood ==
    ASSUME Typed, EmittedOK, NEW payload \in emitted
    PROVE  Captured(payload) \in Seq(Messages) /\ \A m \in Elements(Captured(payload)) : Good(m)
<1> DEFINE t == payload.turn
           n == payload.n
<1>1. payload \in Payloads /\ t \in 0 .. Turns /\ n \in 0 .. MaxTexts
  BY Bounds DEF Typed, Payloads
<1>2. ASSUME NEW kind \in {"prompt", "tool"}
      PROVE  /\ Label(kind, t, 0) \in Labels /\ Label(kind, t, 0).turn = t
             /\ HookID(kind, t) \in Labels
  BY <1>1, LabelFields, Bounds DEF Kinds, HookID
<1>3. ASSUME NEW role, NEW kind, <<role, kind>> \in {<<"user", "prompt">>, <<"tool", "tool">>}
      PROVE  HookMessage(role, kind, t) \in Messages /\ Good(HookMessage(role, kind, t))
  <2>1. role \in {"user", "tool"} /\ kind \in {"prompt", "tool"} /\ (role = "user" <=> kind = "prompt")
    BY <1>3
  <2> DEFINE m == HookMessage(role, kind, t)
  <2>2. m \in Messages /\ m.role = role /\ m.content = Label(kind, t, 0) /\ m.id = HookID(kind, t)
        /\ m.raw = m.content
    BY <1>2, <2>1, MessageFields DEF HookMessage
  <2> HIDE DEF m
  <2>3. Good(m)
    BY <1>2, <2>1, <2>2 DEF Good, Shaped
  <2> QED  BY <2>2, <2>3 DEF m
<1>4. CASE payload.event = "UserPromptSubmit"
  <2>1. Captured(payload) = <<HookMessage("user", "prompt", t)>>
    BY <1>4 DEF Captured
  <2> QED  BY <1>3, <2>1 DEF Elements
<1>5. CASE payload.event = "PostToolUse"
  <2>1. Captured(payload) = <<HookMessage("tool", "tool", t)>>
    BY <1>5 DEF Captured
  <2> QED  BY <1>3, <2>1 DEF Elements
<1>6. CASE payload.event = "agent-turn-complete"
  <2> DEFINE a == Message("user", Label("prompt", t, 0), Label("prompt", t, 0), NoLabel)
             b == Reply(payload, TurnID(t))
  <2>1. agent = "codex" /\ (n = 0 \/ Final(t, n))
    BY <1>6 DEF EmittedOK
  <2>2. a \in Messages /\ Good(a)
    <3>1. a \in Messages /\ a.role = "user" /\ a.content = Label("prompt", t, 0) /\ a.id = Label("prompt", t, 0)
      BY <1>2, MessageFields, Bounds
    <3> HIDE DEF a
    <3> QED  BY <1>2, <2>1, <3>1 DEF Good, Shaped, HookID
  <2>3. n # 0 => b \in Messages /\ Good(b)
    <3>1. Label("reply", t, n) \in Labels /\ Label("reply", t, n).turn = t /\ Label("reply", t, n).n = n /\ TurnID(t) \in Labels
      BY <1>1, LabelFields, Bounds DEF Kinds, TurnID
    <3>2. b \in Messages /\ b.role = "assistant" /\ b.content = Label("reply", t, n) /\ b.id = TurnID(t) /\ b.raw = NoLabel
      BY <3>1, MessageFields, Bounds DEF Reply
    <3> HIDE DEF b
    <3> QED  BY <2>1, <3>1, <3>2 DEF Good, Shaped
  <2>4. Captured(payload) = <<a>> \o (IF n = 0 THEN <<>> ELSE <<b>>)
    BY <1>6 DEF Captured
  <2> HIDE DEF a, b
  <2>5. CASE n = 0
    <3>1. Captured(payload) = <<a>>
      BY <2>2, <2>4, <2>5
    <3> QED  BY <2>2, <3>1 DEF Elements
  <2>6. CASE n # 0
    <3>1. Captured(payload) = <<a>> \o <<b>>
      BY <2>4, <2>6
    <3> QED  BY <2>2, <2>3, <2>6, <3>1, Pairs
  <2> QED  BY <2>5, <2>6
<1> QED  BY <1>1, <1>4, <1>5, <1>6 DEF Payloads

LEMMA HookIInv == ASSUME IInv, NEW p \in Processes, Hook(p) PROVE IInv'
<1>1. PICK payload \in emitted : Begin(p) /\ Set(p, Ingesting(Captured(payload)))
      /\ UNCHANGED <<fixed, hostVars, storeVars, early, faults>>
  BY DEF Hook
<1>2. PICK request : request = Captured(payload)
  OBVIOUS
<1>3. request \in Seq(Messages) /\ \A m \in Elements(request) : Good(m)
  BY <1>2, CapturedGood DEF IInv
<1>4. Set(p, Ingesting(request))
  BY <1>1, <1>2
<1> QED  BY <1>1, <1>3, <1>4, IngestIInv

\* The turn has ended: what the reader finds is final.
LEMMA StopIInv == ASSUME IInv, NEW p \in Processes, StopHook(p) PROVE IInv'
<1>1. /\ host.at = "stopped" /\ Begin(p) /\ Set(p, Ingesting(Reconcile))
      /\ UNCHANGED <<fixed, hostVars, storeVars, early, faults>>
  BY DEF StopHook
<1>2. PICK request : request = Reconcile
  OBVIOUS
<1>3. request \in Seq(Messages) /\ \A m \in Elements(request) : Good(m)
  BY <1>1, <1>2, FinishLaw DEF IInv, Reconcile, Working, Readings
<1>4. Set(p, Ingesting(request))
  BY <1>1, <1>2
<1> QED  BY <1>1, <1>3, <1>4, IngestIInv

\* The policy: what is kept is allowed, and owed from here on.
LEMMA EnsureIInv == ASSUME IInv, NEW p \in Processes, Ensure(p) PROVE IInv'
<1> DEFINE kept == Kept(process[p].request, process[p].todo)
           request == Redacted(process[p].request)
<1>1. Typed /\ RowsOK /\ process[p] \in ProcessStates /\ Held(process[p]) /\ process[p].at = "ensuring"
      /\ UNCHANGED <<fixed, hostVars, rows, early, starts, faults>>
  BY DEF IInv, Typed, Ensure
<1>2. CASE Set(p, Idle) /\ UNCHANGED session
  BY <1>1, <1>2, IdleIInv DEF Typed, storeVars
<1>3. CASE /\ mode = "capture"
           /\ Set(p, [process[p] EXCEPT !.at = "appending", !.request = request, !.todo = kept,
                                         !.due = @ \cup IdentitiesAt(request, kept)])
           /\ session' = TRUE
  <2>1. PICK o : o = process[p]
    OBVIOUS
  <2>2. PICK k : k = kept
    OBVIOUS
  <2>3. PICK q : q = request
    OBVIOUS
  <2>4. PICK r : r = [o EXCEPT !.at = "appending", !.request = q, !.todo = k, !.due = o.due \cup IdentitiesAt(q, k)]
    OBVIOUS
  <2>5. /\ o \in ProcessStates /\ o.request \in Seq(Messages) /\ o.todo \subseteq DOMAIN o.request
        /\ \A m \in Elements(o.request) : Good(m)
        /\ o.due \subseteq Identities(rows) \cup IdentitiesAt(o.request, k)
        /\ o.due \subseteq Ids
        /\ k = {i \in o.todo : ~ excludeMessage(o.request[i])}
    BY <1>1, <2>1, <2>2 DEF Held, Owes, ProcessStates, Kept
  <2>6. /\ DOMAIN q = DOMAIN o.request
        /\ \A i \in DOMAIN q : q[i] = redactMessage(o.request[i]) /\ o.request[i] \in Messages
    BY <2>1, <2>3, <2>5 DEF Redacted
  <2>7. ASSUME NEW i \in DOMAIN q
        PROVE  /\ q[i] \in Messages /\ Good(q[i]) /\ Identity(q[i]) = Identity(o.request[i])
               /\ ~ excludeMessage(o.request[i]) => Allowed(q[i])
    <3>1. Good(o.request[i])
      BY <2>5, <2>6 DEF Elements
    <3>2. q[i] = redactMessage(o.request[i]) /\ o.request[i] \in Messages
      BY <2>6
    <3> QED  BY <3>1, <3>2, RedactedSame
  <2>8. q \in Seq(Messages) /\ k \subseteq DOMAIN q /\ \A i \in k : Allowed(q[i])
    <3>1. q = [i \in DOMAIN o.request |-> redactMessage(o.request[i])]
      BY <2>1, <2>3 DEF Redacted
    <3>2. DOMAIN o.request = 1 .. Len(o.request) /\ Len(o.request) \in Nat
      BY <2>5
    <3>3. q \in [1 .. Len(o.request) -> Messages]
      BY <2>7, <3>1, <3>2
    <3>4. q \in Seq(Messages)
      BY <3>2, <3>3
    <3>5. \A i \in k : i \in DOMAIN q /\ ~ excludeMessage(o.request[i])
      BY <2>5, <2>6
    <3> QED  BY <2>7, <3>4, <3>5
  <2>9. IdentitiesAt(q, k) = IdentitiesAt(o.request, k) /\ IdentitiesAt(q, k) \subseteq Ids
    <3>1. \A i \in k : Identity(q[i]) = Identity(o.request[i]) /\ q[i] \in Messages
      BY <2>7, <2>8
    <3> QED  BY <3>1 DEF IdentitiesAt, Ids
  <2>10. /\ r \in ProcessStates /\ r.at = "appending" /\ r.request = q /\ r.todo = k
         /\ r.due = o.due \cup IdentitiesAt(q, k)
    <3>1. k \subseteq Nat /\ o.due \cup IdentitiesAt(q, k) \subseteq Ids
      BY <2>5, <2>9 DEF ProcessStates
    <3> QED  BY <2>4, <2>5, <2>8, <3>1 DEF ProcessStates
  <2>11. RowsOK' /\ Identities(rows)' = Identities(rows) /\ AssistantIDs(rows)' = AssistantIDs(rows)
    BY <1>1, <1>3, RowsSame
  <2>12. Held(r)'
    <3>1. \A m \in Elements(q) : Good(m)'
      <4>1. \A m \in Elements(q) : Good(m)
        BY <2>7 DEF Elements
      <4> QED  BY <1>1, <4>1, GoodQuiet DEF fixed, hostVars
    <3>2. \A i \in k : Allowed(q[i])'
      BY <2>8 DEF Allowed
    <3>3. Owes(r)'
      BY <2>5, <2>9, <2>10, <2>11 DEF Owes
    <3>4. mode' = "capture"
      BY <1>1, <1>3 DEF fixed
    <3> QED  BY <2>8, <2>10, <3>1, <3>2, <3>3, <3>4 DEF Held
  <2>13. Set(p, r)
    BY <1>3, <2>1, <2>2, <2>3, <2>4 DEF Set
  <2>14. rows' = rows /\ session' \in BOOLEAN /\ early' = early /\ starts' = starts /\ faults' = faults
         /\ rows \in Seq(Messages) /\ early \subseteq 1 .. Turns /\ starts \in 0 .. MaxStarts /\ faults \in 0 .. MaxFaults
    BY <1>1, <1>3 DEF Typed
  <2> QED  BY <1>1, <2>10, <2>11, <2>12, <2>13, <2>14, AcmIInv
<1> QED  BY <1>2, <1>3 DEF Ensure

\* One transaction: a row more, unless its identity has one.
LEMMA AppendIInv == ASSUME IInv, NEW p \in Processes, AppendMessage(p) PROVE IInv'
<1>1. Typed /\ RowsOK /\ process[p] \in ProcessStates /\ Held(process[p]) /\ process[p].at = "appending"
      /\ UNCHANGED <<fixed, hostVars, session, early, starts, faults>>
  BY DEF IInv, Typed, AppendMessage
<1>2. PICK o : o = process[p]
  OBVIOUS
<1>3. PICK i \in o.todo : AppendOne(o.request[i])
          /\ Set(p, [o EXCEPT !.todo = o.todo \ {i}, !.at = IF o.todo = {i} THEN "ended" ELSE o.at])
  BY <1>2 DEF AppendMessage
<1>4. /\ o \in ProcessStates /\ o.request \in Seq(Messages) /\ o.todo \subseteq DOMAIN o.request
      /\ o.at = "appending" /\ mode = "capture"
      /\ \A m \in Elements(o.request) : Good(m)
      /\ \A j \in o.todo : Allowed(o.request[j])
      /\ o.due \subseteq Identities(rows) \cup IdentitiesAt(o.request, o.todo)
  BY <1>1, <1>2 DEF Held, Owes, ProcessStates
<1>5. PICK m : m = o.request[i]
  OBVIOUS
<1>6. m \in Messages /\ Good(m) /\ Allowed(m) /\ AppendOne(m)
  BY <1>3, <1>4, <1>5 DEF Elements
<1>7. UNCHANGED <<agent, mode, host, transcript, session>> /\ early' = early
  BY <1>1 DEF fixed, hostVars
<1>8. rows \in Seq(Messages)
  BY <1>1 DEF Typed
<1>9. /\ rows' \in Seq(Messages) /\ RowsOK'
      /\ Identities(rows)' = Identities(rows) \cup {Identity(m)}
      /\ AssistantIDs(rows) \subseteq AssistantIDs(rows)'
  <2>1. CASE Identity(m) \in Identities(rows)
    <3>1. rows' = rows
      BY <1>6, <2>1 DEF AppendOne
    <3>2. RowsOK' /\ Identities(rows)' = Identities(rows) /\ AssistantIDs(rows)' = AssistantIDs(rows)
      BY <1>1, <1>7, <3>1, RowsSame
    <3> QED  BY <1>8, <2>1, <3>1, <3>2
  <2>2. CASE Identity(m) \notin Identities(rows)
    <3>1. rows' = Append(rows, m)
      BY <1>6, <2>2 DEF AppendOne, Insert
    <3>2. /\ rows' \in Seq(Messages) /\ DOMAIN rows' = DOMAIN rows \cup {Len(rows) + 1}
          /\ rows'[Len(rows) + 1] = m /\ \A j \in DOMAIN rows : rows'[j] = rows[j]
      BY <1>6, <1>8, <3>1, AppendAt
    <3>3. Elements(rows)' = Elements(rows) \cup {m}
      BY <1>6, <1>8, <3>1, AppendElements DEF Elements
    <3>4. Identities(rows)' = Identities(rows) \cup {Identity(m)}
      BY <1>6, <1>8, <3>1, AppendIdentities DEF Identities, IdentitiesAt
    <3>5. AssistantIDs(rows) \subseteq AssistantIDs(rows)'
      BY <3>3 DEF AssistantIDs
    <3>6. \A x \in Elements(rows) \cup {m} : Good(x)' /\ Allowed(x)
      <4>1. \A x \in Elements(rows) \cup {m} : Good(x) /\ Allowed(x)
        BY <1>1, <1>6 DEF RowsOK
      <4> QED  BY <1>7, <4>1, GoodQuiet
    <3>7. ASSUME NEW a \in DOMAIN rows', NEW b \in DOMAIN rows', Identity(rows'[a]) = Identity(rows'[b])
          PROVE  a = b
      <4>1. \A j \in DOMAIN rows : Identity(rows'[j]) = Identity(rows[j]) /\ Identity(rows[j]) # Identity(m)
        BY <2>2, <3>2 DEF Identities, IdentitiesAt
      <4>2. \A j, k \in DOMAIN rows : Identity(rows[j]) = Identity(rows[k]) => j = k
        BY <1>1 DEF RowsOK
      <4>3. (a \in DOMAIN rows \/ a = Len(rows) + 1) /\ (b \in DOMAIN rows \/ b = Len(rows) + 1)
        BY <3>2
      <4>4. CASE a \in DOMAIN rows /\ b \in DOMAIN rows
        BY <3>7, <4>1, <4>2, <4>4
      <4>5. CASE a = Len(rows) + 1 /\ b \in DOMAIN rows
        BY <3>2, <3>7, <4>1, <4>5
      <4>6. CASE a \in DOMAIN rows /\ b = Len(rows) + 1
        BY <3>2, <3>7, <4>1, <4>6
      <4> QED  BY <4>3, <4>4, <4>5, <4>6
    <3>8. RowsOK'
      BY <1>4, <1>7, <3>3, <3>6, <3>7 DEF RowsOK, Allowed, Identity
    <3> QED  BY <3>2, <3>4, <3>5, <3>8
  <2> QED  BY <2>1, <2>2
<1>10. PICK r : r = [o EXCEPT !.todo = o.todo \ {i}, !.at = IF o.todo = {i} THEN "ended" ELSE o.at]
  OBVIOUS
<1>11. /\ r \in ProcessStates /\ r.request = o.request /\ r.todo = o.todo \ {i} /\ r.due = o.due
       /\ (r.at = "ended" /\ o.todo = {i}) \/ r.at = "appending"
  <2>1. (IF o.todo = {i} THEN "ended" ELSE o.at) \in Ended \cup {"ensuring", "appending", "probing"}
    BY <1>4 DEF Ended
  <2> QED  BY <1>4, <1>10, <2>1 DEF ProcessStates
<1>12. Held(r)'
  <2>1. \A x \in Elements(r.request) : Good(x)'
    BY <1>4, <1>7, <1>11, GoodQuiet
  <2>2. IdentitiesAt(o.request, o.todo) = IdentitiesAt(o.request, o.todo \ {i}) \cup {Identity(m)}
    BY <1>3, <1>5 DEF IdentitiesAt
  <2>3. r.due \subseteq Identities(rows)' \cup IdentitiesAt(r.request, r.todo)
    BY <1>4, <1>9, <1>11, <2>2
  <2>4. r.at = "ended" => r.due \subseteq Identities(rows)'
    <3>1. IdentitiesAt(o.request, {}) = {}
      BY DEF IdentitiesAt
    <3> QED  BY <1>11, <2>3, <3>1
  <2>5. Owes(r)'
    BY <1>11, <2>3, <2>4 DEF Owes
  <2>6. \A j \in r.todo : Allowed(r.request[j])'
    BY <1>4, <1>11 DEF Allowed
  <2> QED  BY <1>4, <1>7, <1>11, <2>1, <2>5, <2>6 DEF Held
<1>13. Set(p, r)
  BY <1>3, <1>10 DEF Set
<1>14. session' \in BOOLEAN /\ early' = early /\ starts' = starts /\ faults' = faults
       /\ early \subseteq 1 .. Turns /\ starts \in 0 .. MaxStarts /\ faults \in 0 .. MaxFaults
  BY <1>1 DEF Typed
<1> QED  BY <1>1, <1>9, <1>11, <1>12, <1>13, <1>14, AcmIInv

\* Backfill: the replies stored when the messages are listed stay stored.
LEMMA ListIInv == ASSUME IInv, NEW p \in Processes, ListMessages(p) PROVE IInv'
<1>1. Typed /\ agent = "codex" /\ Begin(p) /\ UNCHANGED <<fixed, hostVars, storeVars, early, faults>>
  BY DEF IInv, ListMessages
<1>2. PICK known : known = AssistantIDs(rows)
  OBVIOUS
<1>3. PICK r : r = [Idle EXCEPT !.at = "probing", !.place = 1, !.known = known]
  OBVIOUS
<1>4. known \subseteq Labels
  <2>1. Elements(rows) \subseteq Messages
    BY <1>1, ElementsIn DEF Typed
  <2>2. \A m \in Elements(rows) : m.id \in Labels
    BY <2>1 DEF Messages
  <2> QED  BY <1>2, <2>2 DEF AssistantIDs
<1>5. /\ r \in ProcessStates /\ r.at = "probing" /\ r.place = 1 /\ r.known = known
      /\ r.todo = {} /\ r.request = <<>>
  <2>1. Idle \in ProcessStates /\ Idle.todo = {} /\ Idle.request = <<>>
    BY IdleHeld DEF Idle
  <2>2. "probing" \in Ended \cup {"ensuring", "appending", "probing"} /\ 1 \in 0 .. 4
    OBVIOUS
  <2> QED  BY <1>3, <1>4, <2>1, <2>2 DEF ProcessStates
<1>6. RowsOK' /\ Identities(rows)' = Identities(rows) /\ AssistantIDs(rows)' = AssistantIDs(rows)
  BY <1>1, RowsSame DEF storeVars
<1>7. Held(r)'
  <2>1. Elements(r.request) = {}
    BY <1>5 DEF Elements
  <2>2. agent' = "codex" /\ r.known \subseteq AssistantIDs(rows)'
    BY <1>1, <1>2, <1>5, <1>6 DEF fixed
  <2> QED  BY <1>5, <2>1, <2>2 DEF Held, Owes
<1>8. Set(p, r)
  BY <1>2, <1>3 DEF ListMessages, Set
<1>9. 1 \in Places /\ (copy = Gone \/ 1 <= copy)
  BY <1>1 DEF Typed, Places, Gone
<1>10. UNCHANGED <<session, rows>> /\ rows \in Seq(Messages) /\ session \in BOOLEAN /\ early \subseteq 1 .. Turns
       /\ starts' \in 0 .. MaxStarts /\ faults' \in 0 .. MaxFaults
  BY <1>1, CaptureAssumption DEF Typed, storeVars, Begin
<1> QED  BY <1>1, <1>5, <1>6, <1>7, <1>8, <1>9, <1>10, AcmIInv

\* Backfill reads the rollout: what it finds is final, or of a turn that is now
\* marked as read early, and what it does not ask for is stored already.
LEMMA ScanIInv ==
    ASSUME IInv, NEW p \in Processes, process[p].at = "probing", Scan(p),
           UNCHANGED <<fixed, hostVars, storeVars, starts, faults>>
    PROVE  IInv'
<1>1. Typed /\ SaidOK /\ ReaderOK /\ RowsOK /\ process[p] \in ProcessStates /\ Held(process[p])
  BY DEF IInv, Typed
<1>2. PICK o : o = process[p]
  OBVIOUS
<1>3. PICK found : found = Reconcile
  OBVIOUS
<1>4. PICK missing : missing = Missing(o.known, found)
  OBVIOUS
<1>5. PICK due : due = {Identity(m) : m \in Completed}
  OBVIOUS
<1>6. o \in ProcessStates /\ agent = "codex" /\ o.known \subseteq AssistantIDs(rows)
  BY <1>1, <1>2 DEF Held
<1>7. found \in Seq(Messages)
  BY <1>1, <1>3, FinishLaw DEF Reconcile, Readings
<1>8. missing = {i \in DOMAIN found : found[i].id \notin o.known} /\ missing \subseteq DOMAIN found
  BY <1>4 DEF Missing
<1>9. \A m \in Elements(found) :
          Good(m) \/ (Shaped(m) /\ agent = "codex" /\ Working /\ m.content.turn = host.turn)
  BY <1>1, <1>3, FinishLaw DEF Reconcile
<1>10. early' = early \cup (IF Working THEN {host.turn} ELSE {})
  BY DEF Scan
<1>11. early \subseteq early' /\ early' \subseteq 1 .. Turns
  <2>1. Working => host.turn \in 1 .. Turns
    BY <1>1, Bounds DEF Typed, SaidOK, Working
  <2> QED  BY <1>1, <1>10, <2>1 DEF Typed
<1>12. UNCHANGED <<agent, mode, host, transcript, session, rows, copy>>
  BY DEF fixed, hostVars, storeVars
<1>13. \A m \in Elements(found) : Good(m)'
  <2>1. ASSUME NEW m \in Elements(found) PROVE Good(m)'
    <3>1. CASE Good(m)
      BY <1>11, <1>12, <3>1, GoodQuiet
    <3>2. CASE Shaped(m) /\ agent = "codex" /\ Working /\ m.content.turn = host.turn
      <4>1. Shaped(m)'
        BY <1>12, <3>2 DEF Shaped, HookID
      <4>2. m.content.turn \in early'
        BY <1>10, <3>2
      <4> QED  BY <4>1, <4>2 DEF Good, Final
    <3> QED  BY <1>9, <3>1, <3>2
  <2> QED  BY <2>1
<1>14. \A m \in Completed : m \in Elements(found) /\ ~ excludeMessage(m)
  BY <1>3 DEF Completed
<1>15. due \subseteq Ids
  <2>1. Elements(found) \subseteq Messages
    BY <1>7, ElementsIn
  <2> QED  BY <1>5, <1>14, <2>1 DEF Ids
<1>16. due \subseteq Identities(rows) \cup IdentitiesAt(found, Kept(found, missing))
  <2>1. ASSUME NEW m \in Completed
        PROVE  Identity(m) \in Identities(rows) \cup IdentitiesAt(found, Kept(found, missing))
    <3>1. PICK i \in DOMAIN found : m = found[i]
      BY <1>14 DEF Elements
    <3>2. ~ excludeMessage(m)
      BY <1>14
    <3>3. CASE m.id \in o.known
      <4>1. PICK k \in DOMAIN rows : rows[k].role = "assistant" /\ rows[k].id = m.id
        BY <1>6, <3>3 DEF AssistantIDs, Elements
      <4>2. Shaped(rows[k])
        BY <1>1, <4>1 DEF RowsOK, Good, Elements
      <4>3. rows[k].id # NoLabel
        BY <1>6, <4>1, <4>2 DEF Shaped, TurnID, Label, NoLabel
      <4>4. Identity(rows[k]) = Identity(m)
        BY <4>1, <4>3 DEF Identity
      <4>5. Identity(rows[k]) \in Identities(rows)
        BY <4>1 DEF Identities, IdentitiesAt
      <4> QED  BY <4>4, <4>5
    <3>4. CASE m.id \notin o.known
      <4>1. i \in missing
        BY <1>8, <3>1, <3>4
      <4>2. i \in Kept(found, missing)
        BY <3>1, <3>2, <4>1 DEF Kept
      <4> QED  BY <3>1, <4>2 DEF IdentitiesAt
    <3> QED  BY <3>3, <3>4
  <2> QED  BY <1>5, <2>1
<1>17. PICK r : r = [o EXCEPT !.at = IF missing = {} THEN "ended" ELSE "ensuring",
                              !.request = found, !.todo = missing, !.due = due]
  OBVIOUS
<1>18. /\ r \in ProcessStates /\ r.request = found /\ r.todo = missing /\ r.due = due
       /\ (r.at = "ended" /\ missing = {}) \/ r.at = "ensuring"
  <2>1. (IF missing = {} THEN "ended" ELSE "ensuring") \in Ended \cup {"ensuring", "appending", "probing"}
    BY DEF Ended
  <2>2. missing \in SUBSET Nat
    BY <1>7, <1>8
  <2> QED  BY <1>6, <1>7, <1>15, <1>17, <2>1, <2>2 DEF ProcessStates
<1>19. RowsOK' /\ Identities(rows)' = Identities(rows) /\ AssistantIDs(rows)' = AssistantIDs(rows)
  BY <1>11, RowsSame DEF storeVars
<1>20. Held(r)'
  <2>1. missing = {} => due \subseteq Identities(rows)
    BY <1>16 DEF Kept, IdentitiesAt
  <2>2. Owes(r)'
    <3>1. Kept(r.request, r.todo) = Kept(found, missing)
      BY <1>18
    <3> QED  BY <1>16, <1>18, <1>19, <2>1, <3>1 DEF Owes
  <2> QED  BY <1>8, <1>13, <1>18, <2>2 DEF Held
<1>21. Set(p, r)
  BY <1>2, <1>3, <1>4, <1>5, <1>17 DEF Scan
<1>22. /\ session' = session /\ rows' = rows /\ starts' = starts /\ faults' = faults
       /\ rows \in Seq(Messages) /\ session \in BOOLEAN /\ starts \in 0 .. MaxStarts /\ faults \in 0 .. MaxFaults
  BY <1>1 DEF Typed, storeVars
<1> QED  BY <1>11, <1>18, <1>19, <1>20, <1>21, <1>22, AcmIInv

\* The next place to look at is not above the rollout, and there is one unless
\* the rollout is gone.
LEMMA ProbeIInv == ASSUME IInv, NEW p \in Processes, Probe(p) PROVE IInv'
<1>1. /\ Typed /\ process[p] \in ProcessStates /\ Held(process[p]) /\ Ahead(p) /\ process[p].at = "probing"
      /\ UNCHANGED <<fixed, hostVars, storeVars, starts, faults>>
  BY DEF IInv, Typed, Probe
<1>2. CASE copy = process[p].place
  <2>1. Scan(p)
    BY <1>2 DEF Probe
  <2> QED  BY <1>1, <2>1, ScanIInv
<1>3. CASE copy # process[p].place
  <2>1. PICK o : o = process[p]
    OBVIOUS
  <2>2. PICK r : r = IF Following(o.place) \in Places THEN [o EXCEPT !.place = Following(o.place)]
                     ELSE [Idle EXCEPT !.at = "unavailable"]
    OBVIOUS
  <2>3. Set(p, r) /\ early' = early
    BY <1>3, <2>1, <2>2 DEF Probe
  <2>4. o \in ProcessStates /\ Held(o) /\ o.at = "probing" /\ o.place \in 1 .. 4
        /\ (copy = Gone \/ o.place < copy) /\ copy \in 0 .. 4
    BY <1>1, <1>3, <2>1 DEF Ahead, Places, Gone, Typed
  <2>5. RowsOK' /\ Identities(rows)' = Identities(rows) /\ AssistantIDs(rows)' = AssistantIDs(rows)
    BY <1>1, <2>3, RowsSame DEF storeVars
  <2>6. /\ r \in ProcessStates /\ Held(r)'
        /\ r.at = "probing" => r.place \in Places /\ (copy = Gone \/ r.place <= copy)
        /\ r.at = "unavailable" => copy = Gone
    <3>1. CASE Following(o.place) \in Places
      <4>1. r \in ProcessStates /\ r.at = "probing" /\ r.place = o.place + 1
            /\ r.todo = o.todo /\ r.request = o.request /\ r.known = o.known
        BY <2>2, <2>4, <3>1 DEF ProcessStates, Following, Places
      <4>2. \A m \in Elements(r.request) : Good(m)'
        BY <1>1, <2>3, <2>4, <4>1, GoodQuiet DEF Held, fixed, hostVars
      <4>3. agent' = "codex" /\ r.known \subseteq AssistantIDs(rows)'
        BY <1>1, <2>4, <2>5, <4>1 DEF Held, fixed
      <4>4. r.todo \subseteq DOMAIN r.request
        BY <2>4, <4>1 DEF Held
      <4>5. Held(r)'
        BY <4>1, <4>2, <4>3, <4>4 DEF Held, Owes
      <4> QED  BY <2>4, <3>1, <4>1, <4>5 DEF Following
    <3>2. CASE Following(o.place) \notin Places
      <4>1. r.at = "unavailable" /\ r.request = <<>> /\ r.todo = {} /\ r \in ProcessStates
        <5>1. Idle \in ProcessStates /\ Idle.todo = {} /\ Idle.request = <<>>
          BY IdleHeld DEF Idle
        <5>2. "unavailable" \in Ended \cup {"ensuring", "appending", "probing"}
          BY DEF Ended
        <5> QED  BY <2>2, <3>2, <5>1, <5>2 DEF ProcessStates
      <4>2. Elements(r.request) = {}
        BY <4>1 DEF Elements
      <4>3. copy = Gone
        BY <2>4, <3>2 DEF Following, Places, Gone
      <4>4. Held(r)'
        BY <4>1, <4>2 DEF Held, Owes
      <4> QED  BY <4>1, <4>3, <4>4
    <3> QED  BY <3>1, <3>2
  <2>7. /\ session' = session /\ rows' = rows /\ starts' = starts /\ faults' = faults
        /\ rows \in Seq(Messages) /\ session \in BOOLEAN /\ starts \in 0 .. MaxStarts /\ faults \in 0 .. MaxFaults
        /\ early \subseteq 1 .. Turns
    BY <1>1 DEF Typed, storeVars
  <2> QED  BY <1>1, <2>3, <2>5, <2>6, <2>7, AcmIInv
<1> QED  BY <1>2, <1>3

LEMMA FailIInv == ASSUME IInv, NEW p \in Processes, Fail(p) PROVE IInv'
<1>1. faults' \in 0 .. MaxFaults /\ starts' \in 0 .. MaxStarts
  BY CaptureAssumption DEF IInv, Typed, Fail
<1> QED  BY <1>1, IdleIInv DEF Fail

LEMMA NextIInv == ASSUME IInv, [Next]_vars PROVE IInv'
<1>1. CASE Host
  BY <1>1, PromptIInv, SayIInv, CompleteIInv, OtherHostIInv DEF Host
<1>2. ASSUME NEW p \in Processes, Acm(p) PROVE IInv'
  BY <1>2, HookIInv, StopIInv, EnsureIInv, AppendIInv, FailIInv, ListIInv, ProbeIInv DEF Acm
<1>3. CASE UNCHANGED vars
  <2>1. UNCHANGED <<fixed, hostVars, storeVars, process, early, starts, faults>>
    BY <1>3 DEF vars
  <2>2. Typed' /\ SaidOK'
    BY <2>1, SaidSame DEF IInv, Typed, SaidOK, fixed, hostVars, storeVars
  <2>3. RowsOK' /\ Identities(rows)' = Identities(rows) /\ AssistantIDs(rows)' = AssistantIDs(rows)
    BY <2>1, RowsSame DEF storeVars
  <2>4. UNCHANGED <<agent, mode, host, emitted, transcript, reader, copy, early, process>>
    BY <2>1 DEF fixed, hostVars
  <2>5. ReaderOK'
    <3>1. \A m \in Elements(reader.out) : Good(m)'
      BY <2>4, GoodQuiet DEF IInv, ReaderOK
    <3> QED  BY <2>4, <3>1 DEF IInv, ReaderOK, Working
  <2>6. EmittedOK'
    <3>1. \A e \in emitted : e.event = "agent-turn-complete" => agent = "codex" /\ (e.n = 0 \/ Final(e.turn, e.n)')
      BY <2>4, FinalQuiet DEF IInv, EmittedOK
    <3> QED  BY <2>4, <3>1 DEF EmittedOK
  <2>7. ASSUME NEW q \in Processes PROVE Held(process[q])' /\ Ahead(q)'
    <3>1. PICK h : h = process[q] /\ Held(h)
      BY DEF IInv
    <3>2. process'[q] = h
      BY <2>4, <3>1
    <3>3. Owes(h)'
      BY <2>3, <3>1 DEF Held, Owes
    <3>4. \A m \in Elements(h.request) : Good(m)'
      BY <2>4, <3>1, GoodQuiet DEF Held
    <3>5. Held(h)'
      BY <2>3, <2>4, <3>1, <3>3, <3>4 DEF Held, Allowed, excludeMessage
    <3>6. Held(process[q])'
      BY <3>2, <3>5 DEF Held, Owes
    <3>7. Ahead(q)'
      BY <2>4 DEF IInv, Ahead
    <3> QED  BY <3>6, <3>7
  <2> QED  BY <2>2, <2>3, <2>5, <2>6, <2>7 DEF IInv
<1> QED  BY <1>1, <1>2, <1>3 DEF Next

LEMMA InitIInv == ASSUME Init PROVE IInv
<1>1. Idle \in ProcessStates /\ Idle.at = "idle" /\ Held(Idle)
  BY IdleHeld
<1>2. reader = [turn |-> 0, pending |-> NoMessage, out |-> <<>>] /\ host = [turn |-> 0, at |-> "idle", texts |-> 0]
  BY DEF Init, Reading
<1>3. Typed
  <2>1. process \in [Processes -> ProcessStates]
    BY <1>1 DEF Init
  <2>2. reader \in Readings /\ host \in [turn : 0 .. Turns, at : {"idle", "working", "stopped"}, texts : 0 .. MaxTexts]
    BY <1>2, Bounds DEF Readings
  <2>3. 0 \in 0 .. MaxStarts /\ 0 \in 0 .. MaxFaults
    BY CaptureAssumption
  <2>4. agent \in Agents /\ mode \in Modes /\ emitted \subseteq Payloads /\ copy \in Places \cup {Gone}
        /\ session \in BOOLEAN /\ early \subseteq 1 .. Turns
    <3>1. agent \in Agents /\ mode \in Modes /\ emitted = {} /\ copy = 1 /\ session = FALSE /\ early = {}
      BY DEF Init
    <3>2. session \in BOOLEAN
      BY <3>1, Zenon
    <3>3. copy \in Places \cup {Gone}
      BY <3>1 DEF Places
    <3> QED  BY <3>1, <3>2, <3>3, Zenon
  <2>5. transcript \in Seq(Lines) /\ rows \in Seq(Messages)
    BY DEF Init
  <2>6. starts = 0 /\ faults = 0
    BY DEF Init
  <2> QED  BY <2>1, <2>2, <2>3, <2>4, <2>5, <2>6 DEF Typed
<1>4. SaidOK
  <2>1. Said(host.turn) = {} /\ 1 .. host.texts = {}
    BY <1>2 DEF Init, Said, Elements
  <2> QED  BY <1>2, <2>1 DEF Init, SaidOK
<1>5. ReaderOK
  BY <1>2 DEF ReaderOK, Elements, Working
<1>6. EmittedOK /\ RowsOK
  BY DEF Init, EmittedOK, RowsOK, Elements
<1>7. \A p \in Processes : Held(process[p]) /\ Ahead(p)
  BY <1>1 DEF Init, Ahead
<1> QED  BY <1>3, <1>4, <1>5, <1>6, <1>7 DEF IInv

LEMMA SpecIInv == Spec => []IInv
<1>1. Init => IInv
  BY InitIInv
<1>2. IInv /\ [Next]_vars => IInv'
  BY NextIInv
<1> QED  BY <1>1, <1>2, PTL DEF Spec

-----------------------------------------------------------------------------
(* What follows *)

LEMMA IInvTypeOK == ASSUME IInv PROVE TypeOK
<1>1. /\ Typed /\ Elements(rows) \subseteq Messages
      /\ \A p \in Processes : process[p] \in ProcessStates /\ process[p].todo \subseteq DOMAIN process[p].request
  BY ElementsIn DEF IInv, Typed, Held
<1>2. \A p \in Processes : /\ process[p].at \in Ended \cup {"ensuring", "appending", "probing"}
                           /\ process[p].request \in Seq(Messages) /\ process[p].place \in 0 .. 4
  BY <1>1 DEF ProcessStates
<1>3. \A p \in Processes : Elements(process[p].request) \subseteq Messages
  BY <1>2, ElementsIn
<1> QED  BY <1>1, <1>2, <1>3 DEF Typed, TypeOK, Payloads

LEMMA IInvOneRow == ASSUME IInv PROVE OneRowPerEvent
<1>1. ASSUME NEW i \in DOMAIN rows, NEW j \in DOMAIN rows, Event(rows[i]) = Event(rows[j])
      PROVE  i = j
  <2>1. rows[i] \in Messages /\ rows[j] \in Messages
    BY DEF IInv, Typed
  <2>2. Shaped(rows[i]) /\ Shaped(rows[j])
    BY DEF IInv, RowsOK, Good, Elements
  <2>3. Identity(rows[i]) = Identity(rows[j])
    BY <1>1, <2>1, <2>2, EventIdentity
  <2> QED  BY <2>3 DEF IInv, RowsOK
<1> QED  BY <1>1 DEF OneRowPerEvent

LEMMA IInvReplies == ASSUME IInv PROVE RepliesFinal
<1>1. ASSUME NEW m \in Elements(rows), agent = "codex", m.role = "assistant"
      PROVE  m.id = TurnID(m.content.turn) /\ (m.content.n = LastText(m.content.turn) \/ m.content.turn \in early)
  <2>1. Good(m)
    BY DEF IInv, RowsOK
  <2> QED  BY <1>1, <2>1 DEF Good, Shaped, Final
<1> QED  BY <1>1 DEF RepliesFinal

\* Every variable of Capture keeps its type, for any number of processes.
THEOREM CaptureTypeCorrect == Spec => []TypeOK
<1>1. IInv => TypeOK
  BY IInvTypeOK
<1> QED  BY <1>1, SpecIInv, PTL

\* A host event has at most one row, by whatever paths hooks, notify, Stop and
\* backfill deliver it.
THEOREM OneRowAlways == Spec => []OneRowPerEvent
<1>1. IInv => OneRowPerEvent
  BY IInvOneRow
<1> QED  BY <1>1, SpecIInv, PTL

\* A stored Codex reply has the ID of its turn and is its last text, unless a
\* backfill read the rollout before the turn had ended.
THEOREM RepliesAlwaysFinal == Spec => []RepliesFinal
<1>1. IInv => RepliesFinal
  BY IInvReplies
<1> QED  BY <1>1, SpecIInv, PTL

\* Policy.Apply is on every path to the store.
THEOREM PolicyAlways == Spec => []PolicyHolds
<1>1. IInv => PolicyHolds
  BY DEF IInv, RowsOK, Allowed, excludeMessage, PolicyHolds
<1> QED  BY <1>1, SpecIInv, PTL

\* A process that reports success has stored all it owes.
THEOREM SuccessAlwaysStored == Spec => []SuccessStored
<1>1. IInv => SuccessStored
  BY DEF IInv, Held, Owes, SuccessStored
<1> QED  BY <1>1, SpecIInv, PTL

\* A rollout that openTranscript reports unavailable is gone.
THEOREM RolloutAlwaysFound == Spec => []RolloutFound
<1>1. IInv => RolloutFound
  BY DEF IInv, Ahead, RolloutFound
<1> QED  BY <1>1, SpecIInv, PTL
=============================================================================
