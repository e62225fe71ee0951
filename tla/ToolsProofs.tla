----------------------------- MODULE ToolsProofs -----------------------------
(***************************************************************************)
(* The components that share no state, in one module as in MCTools.        *)
(*                                                                         *)
(* Sub-agent calls: an answer that a call accepts is earned, for any       *)
(* limits and any size of the pipe. The caller sees the child's account    *)
(* only as far as it has read: what ties its own counts to the child's is  *)
(* the history of accounts between the last event read and the last        *)
(* written.                                                                *)
(*                                                                         *)
(* The size guard: a summary is smaller than its sources, or it is their   *)
(* truncation, and that is larger by what joining them and the ellipsis    *)
(* can add, for any texts and any limit.                                   *)
(*                                                                         *)
(* Recall: what is injected is outside the fresh tail and is the ranking   *)
(* of the hits under the quotas, for any messages, summaries and floors.   *)
(***************************************************************************)
EXTENDS ModelCall, SizeGuard, Recall, FiniteFacts, FiniteSetTheorems, TLAPS

-----------------------------------------------------------------------------
(* Sub-agent calls *)

\* What the child has written in truth, after any event.
Accounts == [tools : Nat, turns : Nat, answer : Nat, broken : BOOLEAN, events : Nat]

Types == {"assistant", "result", "error", "turn.started", "item.started", "agent_message", "garbage"}
Events == [type : Types, id : Nat, tool : BOOLEAN, turns : Nat]

States == [tools : Nat, turns : Nat, output : Nat, seen : SUBSET Nat, events : Nat]

CallTypeOK ==
    /\ cli \in {"claude-agent", "codex-agent"}
    /\ call \in [at : {"idle", "scanning", "waiting", "answered", "failed"}, scanErr : BOOLEAN]
    /\ state \in States
    /\ context \in {"live", "cancelled", "expired"}
    /\ child \in {"none", "running", "exited", "crashed", "killed"}
    /\ pipe \in Seq(Events)
    /\ used \in Accounts

\* What an event the host can write at account u looks like.
May(u, e) ==
    /\ e.type = "assistant" => cli = "claude-agent" /\ e.id <= u.turns + 1
    /\ e.type = "result" => cli = "claude-agent"
    /\ e.type \in {"turn.started", "item.started", "agent_message"} => cli = "codex-agent"
    /\ e.tool => e.type \in {"assistant", "item.started"}

\* The child's account after it has written e.
Written(u, e) ==
    [tools |-> u.tools + (IF e.tool THEN 1 ELSE 0),
     turns |-> CASE e.type = "assistant" -> Larger(u.turns, e.id)
                 [] e.type = "result" -> Larger(u.turns, e.turns)
                 [] e.type = "turn.started" -> u.turns + 1
                 [] OTHER -> u.turns,
     answer |-> IF e.type \in {"result", "agent_message"} THEN e.id ELSE u.answer,
     broken |-> u.broken \/ e.type \in {"garbage", "error"},
     events |-> u.events + 1]

\* What the caller has counted, against the child's account up to the same event.
Counted(u) ==
    /\ state.tools = u.tools
    /\ u.turns <= state.turns
    /\ \A id \in state.seen : id <= u.turns
    /\ state.output = u.answer
    /\ state.events = u.events
    /\ ~ u.broken

\* The accounts h[0], h[1], ... between the last event read and the last written.
History(h) ==
    /\ h \in [0 .. Len(pipe) -> Accounts]
    /\ h[Len(pipe)] = used
    /\ \A i \in 1 .. Len(pipe) : May(h[i - 1], pipe[i]) /\ h[i] = Written(h[i - 1], pipe[i])
    /\ Counted(h[0])

Within == checkLimits(state) /\ state.events <= EventBudget

CallInv ==
    /\ CallTypeOK
    /\ ~ call.scanErr => Within /\ \E h : History(h)
    /\ call.at = "idle" => child = "none"
    /\ call.at \in {"waiting", "answered"} /\ ~ call.scanErr => pipe = <<>> /\ child # "running"
    /\ call.at \in {"answered", "failed"} => child # "running"
    /\ call.at = "answered" => ~ call.scanErr /\ child = "exited" /\ state.output # NoAnswer

-----------------------------------------------------------------------------
(* The accounts *)

LEMMA WrittenType ==
    ASSUME NEW u \in Accounts, NEW e \in Events
    PROVE  Written(u, e) \in Accounts
<1>1. Larger(u.turns, e.id) \in Nat /\ Larger(u.turns, e.turns) \in Nat
  BY DEF Larger, Accounts, Events
<1>2. (IF e.tool THEN 1 ELSE 0) \in Nat
  OBVIOUS
<1> QED  BY <1>1, <1>2 DEF Written, Accounts, Events

\* An event the child writes is one the host can write at its account.
LEMMA EmitLaw ==
    ASSUME CallTypeOK, ChildEmit
    PROVE  \E e \in Events : /\ May(used, e)
                             /\ pipe' = Append(pipe, e)
                             /\ used' = Written(used, e)
<1>1. PICK e \in HostEvents :
          /\ pipe' = Append(pipe, e)
          /\ used' = [tools |-> used.tools + (IF e.tool THEN 1 ELSE 0),
                      turns |-> Turns(e),
                      answer |-> IF e.type \in {"result", "agent_message"} THEN e.id ELSE used.answer,
                      broken |-> used.broken \/ e.type \in {"garbage", "error"},
                      events |-> used.events + 1]
  BY DEF ChildEmit
<1>2. used.turns \in Nat /\ used.events \in Nat
  BY DEF CallTypeOK, Accounts
<1>3. used' = Written(used, e)
  BY <1>1 DEF Written, Turns
<1>4. CASE e = Event("garbage", 0, FALSE, 0)
  <2>1. e \in Events /\ May(used, e)
    BY <1>4 DEF Event, Events, Types, May
  <2> QED  BY <1>1, <1>3, <2>1
<1>5. CASE cli = "claude-agent" /\ e \in ClaudeEvents
  <2>1. CASE e \in [type : {"assistant"}, id : {used.turns, used.turns + 1} \ {0}, tool : BOOLEAN, turns : {0}]
    <3>1. e \in Events /\ May(used, e)
      BY <1>2, <1>5, <2>1 DEF Events, Types, May
    <3> QED  BY <1>1, <1>3, <3>1
  <2>2. CASE e \in [type : {"result"}, id : {NoAnswer, used.events + 1}, tool : {FALSE},
                    turns : {used.turns, used.turns + 1}]
    <3>1. NoAnswer \in Nat /\ used.events + 1 \in Nat /\ used.turns + 1 \in Nat
      BY <1>2 DEF NoAnswer
    <3>2. /\ e.type = "result" /\ e.id \in Nat /\ e.tool = FALSE /\ e.turns \in Nat
          /\ e = [type |-> e.type, id |-> e.id, tool |-> e.tool, turns |-> e.turns]
      BY <1>2, <2>2, <3>1
    <3>3. e \in Events /\ May(used, e)
      BY <1>5, <3>2 DEF Events, Types, May
    <3> QED  BY <1>1, <1>3, <3>3
  <2>3. CASE e = Event("error", 0, FALSE, 0)
    <3>1. e \in Events /\ May(used, e)
      BY <2>3 DEF Event, Events, Types, May
    <3> QED  BY <1>1, <1>3, <3>1
  <2> QED  BY <1>5, <2>1, <2>2, <2>3 DEF ClaudeEvents
<1>6. CASE cli # "claude-agent" /\ e \in CodexEvents
  <2>1. cli = "codex-agent"
    BY <1>6 DEF CallTypeOK
  <2>2. e \in Events /\ May(used, e)
    <3>1. CASE e = Event("turn.started", 0, FALSE, 0)
      BY <2>1, <3>1 DEF Event, Events, Types, May
    <3>2. CASE e = Event("item.started", 0, TRUE, 0)
      BY <2>1, <3>2 DEF Event, Events, Types, May
    <3>3. CASE e = Event("item.started", 0, FALSE, 0)
      BY <2>1, <3>3 DEF Event, Events, Types, May
    <3>4. CASE e = Event("agent_message", used.events + 1, FALSE, 0)
      BY <1>2, <2>1, <3>4 DEF Event, Events, Types, May
    <3> QED  BY <1>6, <3>1, <3>2, <3>3, <3>4 DEF CodexEvents
  <2> QED  BY <1>1, <1>3, <2>2
<1> QED  BY <1>1, <1>4, <1>5, <1>6 DEF HostEvents

\* The history grows by the account after what is written.
LEMMA HistoryGrows ==
    ASSUME CallTypeOK, NEW h, History(h), ChildEmit
    PROVE  \E k : History(k)'
<1> USE DEF CallTypeOK
<1>1. PICK e \in Events : /\ May(used, e)
                          /\ pipe' = Append(pipe, e)
                          /\ used' = Written(used, e)
  BY EmitLaw
<1>2. used' \in Accounts
  BY <1>1, WrittenType
<1> DEFINE n == Len(pipe)
<1>3. PICK k : k = [i \in 0 .. n + 1 |-> IF i <= n THEN h[i] ELSE used']
  OBVIOUS
<1>4. n \in Nat /\ Len(pipe') = n + 1 /\ pipe'[n + 1] = e
      /\ \A i \in 1 .. n : pipe'[i] = pipe[i]
  BY <1>1
<1>5. k \in [0 .. n + 1 -> Accounts]
  BY <1>2, <1>3, <1>4 DEF History
<1>6. k[n + 1] = used' /\ k[0] = h[0]
  BY <1>3, <1>4
<1>7. ASSUME NEW i \in 1 .. n + 1
      PROVE  May(k[i - 1], pipe'[i]) /\ k[i] = Written(k[i - 1], pipe'[i])
  <2>1. CASE i = n + 1
    <3>1. k[i - 1] = used /\ k[i] = used'
      BY <1>3, <1>4, <2>1 DEF History
    <3> QED  BY <1>1, <1>4, <2>1, <3>1
  <2>2. CASE i # n + 1
    <3>1. i \in 1 .. n /\ k[i - 1] = h[i - 1] /\ k[i] = h[i]
      BY <1>3, <1>4, <2>2
    <3> QED  BY <1>4, <3>1 DEF History
  <2> QED  BY <2>1, <2>2
<1>8. cli' = cli /\ state' = state
  BY DEF ChildEmit
<1>9. Counted(k[0])'
  <2>1. Counted(h[0])
    BY DEF History
  <2> QED  BY <1>6, <1>8, <2>1 DEF Counted
<1>10. History(k)'
  BY <1>4, <1>5, <1>6, <1>7, <1>8, <1>9 DEF History, May
<1> QED  BY <1>10

-----------------------------------------------------------------------------
(* The caller's counts *)

LEMMA ConsumeType ==
    ASSUME state \in States, NEW e \in Events
    PROVE  consume(e) \in States /\ consume(e).events = state.events + 1
<1>1. /\ state.tools \in Nat /\ state.turns \in Nat /\ state.events \in Nat
      /\ state.output \in Nat /\ state.seen \in SUBSET Nat
      /\ e.id \in Nat /\ e.turns \in Nat /\ e.type \in Types /\ e.tool \in BOOLEAN
  BY DEF States, Events
<1>2. Larger(state.turns, e.turns) \in Nat
  BY <1>1 DEF Larger
<1>3. CASE cli = "claude-agent"
  <2> DEFINE tools == IF e.type = "assistant" /\ e.tool THEN state.tools + 1 ELSE state.tools
             turns == CASE e.type = "assistant" /\ e.id \notin state.seen -> state.turns + 1
                        [] e.type = "result" -> Larger(state.turns, e.turns)
                        [] OTHER -> state.turns
             seen == IF e.type = "assistant" THEN state.seen \cup {e.id} ELSE state.seen
             output == IF e.type = "result" THEN e.id ELSE state.output
  <2>1. tools \in Nat /\ seen \in SUBSET Nat /\ output \in Nat
    BY <1>1
  <2>2. turns \in Nat
    BY <1>1, <1>2
  <2>3. consumeClaude(e) = [tools |-> tools, turns |-> turns, output |-> output,
                            seen |-> seen, events |-> state.events + 1]
    <3>1. state \in [tools : Nat, turns : Nat, output : Nat, seen : SUBSET Nat, events : Nat]
      BY DEF States
    <3>2. consumeClaude(e) = [state EXCEPT !.events = state.events + 1, !.tools = tools, !.turns = turns,
                                           !.seen = seen, !.output = output]
      BY DEF consumeClaude
    <3> HIDE DEF tools, turns, seen, output
    <3> QED  BY <3>1, <3>2
  <2> HIDE DEF tools, turns, seen, output
  <2> QED  BY <1>1, <1>3, <2>1, <2>2, <2>3 DEF consume, States
<1>4. CASE cli # "claude-agent"
  <2> DEFINE tools == IF e.type = "item.started" /\ e.tool THEN state.tools + 1 ELSE state.tools
             turns == IF e.type = "turn.started" THEN state.turns + 1 ELSE state.turns
             output == IF e.type = "agent_message" THEN e.id ELSE state.output
  <2>1. tools \in Nat /\ turns \in Nat /\ output \in Nat
    BY <1>1
  <2>2. consumeCodex(e) = [tools |-> tools, turns |-> turns, output |-> output,
                           seen |-> state.seen, events |-> state.events + 1]
    <3>1. state \in [tools : Nat, turns : Nat, output : Nat, seen : SUBSET Nat, events : Nat]
      BY DEF States
    <3>2. consumeCodex(e) = [state EXCEPT !.events = state.events + 1, !.tools = tools, !.turns = turns,
                                          !.output = output]
      BY DEF consumeCodex
    <3> HIDE DEF tools, turns, output
    <3> QED  BY <3>1, <3>2
  <2> HIDE DEF tools, turns, output
  <2> QED  BY <1>1, <1>4, <2>1, <2>2 DEF consume, States
<1> QED  BY <1>3, <1>4

\* What consume does with an event keeps the counts those of the child.
LEMMA ConsumeCounts ==
    ASSUME CallTypeOK, NEW u \in Accounts, Counted(u),
           NEW e \in Events, May(u, e), e.type \notin {"garbage", "error"},
           state' = consume(e)
    PROVE  Counted(Written(u, e))' /\ state' \in States /\ state'.events = state.events + 1
<1> USE DEF CallTypeOK
<1>1. /\ state \in States
      /\ state.tools = u.tools /\ u.turns <= state.turns /\ state.output = u.answer
      /\ state.events = u.events /\ ~ u.broken
      /\ \A id \in state.seen : id <= u.turns
  BY DEF Counted
<1> DEFINE w == Written(u, e)
<1>2. w \in Accounts /\ ~ w.broken /\ w.events = u.events + 1
  BY <1>1, WrittenType DEF Written
<1>3. CASE cli = "claude-agent"
  <2>1. state' = consumeClaude(e)
    BY <1>3 DEF consume
  <2>2. e.type \in {"assistant", "result"}
    BY <1>3 DEF May, Events, Types
  <2>3. CASE e.type = "assistant"
    <3>1. /\ state'.events = state.events + 1
          /\ state'.tools = IF e.tool THEN state.tools + 1 ELSE state.tools
          /\ state'.turns = IF e.id \notin state.seen THEN state.turns + 1 ELSE state.turns
          /\ state'.seen = state.seen \cup {e.id}
          /\ state'.output = state.output
          /\ state' = [tools |-> state'.tools, turns |-> state'.turns, output |-> state'.output,
                       seen |-> state'.seen, events |-> state'.events]
      BY <1>1, <2>1, <2>3 DEF consumeClaude, States
    <3>2. /\ w.tools = u.tools + (IF e.tool THEN 1 ELSE 0)
          /\ w.turns = Larger(u.turns, e.id)
          /\ w.answer = u.answer
      BY <2>3 DEF Written
    <3>3. e.id \in Nat /\ e.id <= u.turns + 1 /\ e.tool \in BOOLEAN /\ u.turns \in Nat /\ u.tools \in Nat
      BY <2>3 DEF May, Events, Accounts
    <3>4. /\ state.turns \in Nat /\ state.tools \in Nat /\ state.events \in Nat
          /\ state.output \in Nat /\ state.seen \in SUBSET Nat
      BY <1>1 DEF States
    <3>5. w.turns \in Nat /\ u.turns <= w.turns /\ e.id <= w.turns
          /\ (w.turns = u.turns \/ (w.turns = u.turns + 1 /\ e.id = u.turns + 1))
      BY <3>2, <3>3 DEF Larger
    <3>6. state'.turns \in Nat /\ w.turns <= state'.turns
      <4>1. CASE w.turns = u.turns
        BY <1>1, <3>1, <3>3, <3>4, <4>1
      <4>2. CASE w.turns = u.turns + 1 /\ e.id = u.turns + 1
        <5>1. e.id \notin state.seen
          BY <1>1, <3>3, <3>4, <4>2
        <5> QED  BY <1>1, <3>1, <3>3, <3>4, <4>2, <5>1
      <4> QED  BY <3>5, <4>1, <4>2
    <3>7. \A id \in state'.seen : id <= w.turns
      BY <1>1, <3>1, <3>3, <3>4, <3>5
    <3>8. state'.tools = w.tools /\ state'.tools \in Nat
      BY <1>1, <3>1, <3>2, <3>3, <3>4
    <3>9. state' \in States
      BY <3>1, <3>3, <3>4, <3>6, <3>8 DEF States
    <3> HIDE DEF w
    <3>10. Counted(w)'
      BY <1>1, <1>2, <3>1, <3>2, <3>6, <3>7, <3>8 DEF Counted
    <3> QED  BY <3>1, <3>9, <3>10 DEF w
  <2>4. CASE e.type = "result"
    <3>1. /\ state'.events = state.events + 1
          /\ state'.tools = state.tools
          /\ state'.turns = Larger(state.turns, e.turns)
          /\ state'.seen = state.seen
          /\ state'.output = e.id
          /\ state' = [tools |-> state'.tools, turns |-> state'.turns, output |-> state'.output,
                       seen |-> state'.seen, events |-> state'.events]
      BY <1>1, <2>1, <2>4 DEF consumeClaude, States
    <3>2. ~ e.tool
      BY <2>4 DEF May
    <3>3. /\ w.tools = u.tools
          /\ w.turns = Larger(u.turns, e.turns)
          /\ w.answer = e.id
      BY <2>4, <3>2 DEF Written, Accounts
    <3>4. /\ state.turns \in Nat /\ state.tools \in Nat /\ state.events \in Nat
          /\ state.seen \in SUBSET Nat
          /\ e.turns \in Nat /\ e.id \in Nat /\ u.turns \in Nat
      BY <1>1 DEF States, Events, Accounts
    <3>5. w.turns \in Nat /\ u.turns <= w.turns /\ state'.turns \in Nat /\ w.turns <= state'.turns
      BY <1>1, <3>1, <3>3, <3>4 DEF Larger
    <3>6. \A id \in state'.seen : id <= w.turns
      BY <1>1, <3>1, <3>4, <3>5
    <3>7. state' \in States
      BY <3>1, <3>4, <3>5 DEF States
    <3> HIDE DEF w
    <3>8. Counted(w)'
      BY <1>1, <1>2, <3>1, <3>3, <3>5, <3>6 DEF Counted
    <3> QED  BY <3>1, <3>7, <3>8 DEF w
  <2> QED  BY <2>2, <2>3, <2>4
<1>4. CASE cli # "claude-agent"
  <2>1. state' = consumeCodex(e)
    BY <1>4 DEF consume
  <2>2. e.type \in {"turn.started", "item.started", "agent_message"}
    BY <1>4 DEF May, Events, Types
  <2>3. e.tool => e.type = "item.started"
    BY <1>4 DEF May
  <2>4. /\ state'.events = state.events + 1
        /\ state'.tools = IF e.type = "item.started" /\ e.tool THEN state.tools + 1 ELSE state.tools
        /\ state'.turns = IF e.type = "turn.started" THEN state.turns + 1 ELSE state.turns
        /\ state'.seen = state.seen
        /\ state'.output = IF e.type = "agent_message" THEN e.id ELSE state.output
        /\ state' = [tools |-> state'.tools, turns |-> state'.turns, output |-> state'.output,
                     seen |-> state'.seen, events |-> state'.events]
    BY <1>1, <2>1 DEF consumeCodex, States
  <2>5. /\ w.tools = u.tools + (IF e.tool THEN 1 ELSE 0)
        /\ w.turns = IF e.type = "turn.started" THEN u.turns + 1 ELSE u.turns
        /\ w.answer = IF e.type = "agent_message" THEN e.id ELSE u.answer
    BY <2>2 DEF Written
  <2>6. /\ state.turns \in Nat /\ state.tools \in Nat /\ state.events \in Nat
        /\ state.seen \in SUBSET Nat /\ state.output \in Nat
        /\ e.id \in Nat /\ e.tool \in BOOLEAN /\ u.turns \in Nat /\ u.tools \in Nat
    BY <1>1 DEF States, Events, Accounts
  <2>7. state'.turns \in Nat /\ w.turns <= state'.turns /\ u.turns <= w.turns /\ w.turns \in Nat
    BY SMTT(30), <1>1, <2>4, <2>5, <2>6
  <2>8. \A id \in state'.seen : id <= w.turns
    BY <1>1, <2>4, <2>6, <2>7
  <2>9. state'.tools = w.tools /\ state'.tools \in Nat
    BY <1>1, <2>3, <2>4, <2>5, <2>6
  <2>10. state'.output = w.answer /\ state'.output \in Nat
    BY <1>1, <2>4, <2>5, <2>6
  <2>11. state' \in States
    BY <2>4, <2>6, <2>7, <2>9, <2>10 DEF States
  <2> HIDE DEF w
  <2>12. Counted(w)'
    BY <1>1, <1>2, <2>4, <2>7, <2>8, <2>9, <2>10 DEF Counted
  <2> QED  BY <2>4, <2>11, <2>12 DEF w
<1> QED  BY <1>3, <1>4

\* Reading the first event of the pipe moves the start of the history by one.
LEMMA HistoryRead ==
    ASSUME CallTypeOK, NEW h, History(h), pipe # <<>>,
           Head(pipe).type \notin {"garbage", "error"}, state' = consume(Head(pipe)),
           pipe' = Tail(pipe), UNCHANGED <<cli, used>>
    PROVE  (\E k : History(k)') /\ state' \in States /\ state'.events = state.events + 1
<1> USE DEF CallTypeOK
<1> DEFINE n == Len(pipe)
<1>1. PICK k : k = [i \in 0 .. n - 1 |-> h[i + 1]]
  OBVIOUS
<1>2. PICK e : e = Head(pipe)
  OBVIOUS
<1>3. /\ n \in Nat \ {0} /\ pipe' \in Seq(Events) /\ Len(pipe') = n - 1
      /\ Head(pipe) = pipe[1] /\ pipe[1] \in Events
      /\ \A i \in 1 .. n - 1 : pipe'[i] = pipe[i + 1]
  OBVIOUS
<1>4. /\ h[0] \in Accounts /\ Counted(h[0]) /\ May(h[0], e) /\ h[1] = Written(h[0], e)
  BY <1>2, <1>3 DEF History
<1>5. Counted(Written(h[0], e))' /\ state' \in States /\ state'.events = state.events + 1
  BY <1>2, <1>3, <1>4, ConsumeCounts
<1>6. k \in [0 .. n - 1 -> Accounts] /\ k[0] = h[1] /\ k[n - 1] = used
  BY <1>1, <1>3 DEF History
<1>7. ASSUME NEW i \in 1 .. n - 1
      PROVE  May(k[i - 1], pipe'[i]) /\ k[i] = Written(k[i - 1], pipe'[i])
  <2>1. i + 1 \in 1 .. n /\ k[i - 1] = h[i] /\ k[i] = h[i + 1] /\ (i + 1) - 1 = i
    BY <1>1, <1>3
  <2>2. May(h[(i + 1) - 1], pipe[i + 1]) /\ h[i + 1] = Written(h[(i + 1) - 1], pipe[i + 1])
    BY <2>1 DEF History
  <2> QED  BY <1>3, <2>1, <2>2
<1>8. Counted(k[0])'
  BY <1>4, <1>5, <1>6 DEF Counted
<1>9. History(k)'
  BY <1>3, <1>6, <1>7, <1>8 DEF History, May
<1> QED  BY <1>5, <1>9

-----------------------------------------------------------------------------
(* Each step *)

LEMMA HistoryKept ==
    ASSUME CallTypeOK, UNCHANGED <<cli, state, pipe, used>>
    PROVE  (\E h : History(h)) => \E h : History(h)'
BY DEF History, Counted, May

LEMMA InitInv == CallInit => CallInv
<1> SUFFICES ASSUME CallInit  PROVE CallInv
  OBVIOUS
<1> USE DEF CallInit, NoState, NoAnswer
<1>1. CallTypeOK
  BY DEF CallTypeOK, Accounts, States
<1>2. Within
  BY CallAssumption DEF Within, checkLimits
<1> DEFINE h == [i \in 0 .. 0 |-> used]
<1>3. Len(pipe) = 0 /\ h \in [0 .. 0 -> Accounts] /\ h[0] = used
  BY <1>1 DEF CallTypeOK
<1>4. Counted(used)
  BY DEF Counted
<1> HIDE DEF h
<1>5. History(h)
  BY <1>3, <1>4 DEF History
<1> QED  BY <1>1, <1>2, <1>5 DEF CallInv

LEMMA EmitInv == ASSUME CallInv, ChildEmit PROVE CallInv'
<1> USE DEF CallInv
<1>1. PICK e \in Events : pipe' = Append(pipe, e) /\ used' = Written(used, e)
  BY EmitLaw
<1>2. UNCHANGED <<cli, call, state, context, child>> /\ child = "running"
  BY DEF ChildEmit
<1>3. CallTypeOK'
  BY <1>1, <1>2, WrittenType DEF CallTypeOK
<1>4. ~ call.scanErr => \E k : History(k)'
  BY HistoryGrows
<1>5. call.at \notin {"idle", "answered", "failed"} /\ (call.at = "waiting" => call.scanErr)
  BY <1>2 DEF CallTypeOK
<1> QED  BY <1>2, <1>3, <1>4, <1>5 DEF Within, checkLimits

LEMMA ScanInv == ASSUME CallInv, ScanEvent PROVE CallInv'
<1> USE DEF CallInv
<1>1. /\ call.at = "scanning" /\ pipe # <<>> /\ pipe' = Tail(pipe)
      /\ UNCHANGED <<cli, child, used>>
  BY DEF ScanEvent
<1>2. pipe' \in Seq(Events)
  BY <1>1 DEF CallTypeOK
<1>3. CASE /\ call' = [at |-> "waiting", scanErr |-> TRUE]
           /\ context' = (IF context = "live" THEN "cancelled" ELSE context)
           /\ UNCHANGED state
  <2>1. CallTypeOK'
    BY <1>1, <1>2, <1>3 DEF CallTypeOK
  <2> QED  BY <1>3, <2>1
<1>4. CASE /\ ~ (\/ state.events = EventBudget
                 \/ Head(pipe).type \in {"garbage", "error"}
                 \/ ~ checkLimits(consume(Head(pipe))))
           /\ state' = consume(Head(pipe))
           /\ UNCHANGED <<call, context>>
  <2>1. state'.events = state.events + 1 /\ state' \in States /\ (~ call.scanErr => \E k : History(k)')
    <3>1. CASE call.scanErr
      <4>1. state \in States /\ Head(pipe) \in Events
        BY <1>1 DEF CallTypeOK
      <4>2. state.tools \in Nat /\ state.turns \in Nat /\ state.events \in Nat /\ state.output \in Nat
            /\ state.seen \in SUBSET Nat /\ Head(pipe).id \in Nat /\ Head(pipe).turns \in Nat
        BY <4>1 DEF States, Events
      <4> QED  BY <1>4, <3>1, <4>1, ConsumeType
    <3>2. CASE ~ call.scanErr
      <4>1. PICK h : History(h)
        BY <3>2
      <4> QED  BY <1>1, <1>4, <4>1, HistoryRead
    <3> QED  BY <3>1, <3>2 DEF CallTypeOK
  <2>2. CallTypeOK'
    BY <1>1, <1>2, <1>4, <2>1 DEF CallTypeOK
  <2>3. ~ call.scanErr => Within'
    <3>1. checkLimits(state)'
      BY <1>4 DEF checkLimits
    <3>2. state.events \in Nat
      BY DEF CallTypeOK, States
    <3> QED  BY <1>4, <2>1, <3>1, <3>2, CallAssumption DEF Within
  <2> QED  BY <1>1, <1>4, <2>1, <2>2, <2>3
<1> QED  BY <1>3, <1>4 DEF ScanEvent

\* The other steps leave the pipe and both accounts alone.
LEMMA QuietInv ==
    ASSUME CallInv, UNCHANGED <<cli, state, pipe, used>>,
           call'.scanErr = call.scanErr
    PROVE  ~ call'.scanErr => Within' /\ \E h : History(h)'
<1>1. ~ call.scanErr => Within /\ \E h : History(h)'
  BY HistoryKept DEF CallInv
<1> QED  BY <1>1 DEF Within, checkLimits

LEMMA StepInv == ASSUME CallInv, [CallNext]_callVars PROVE CallInv'
<1>1. CASE ChildEmit
  BY <1>1, EmitInv
<1>2. CASE ScanEvent
  BY <1>2, ScanInv
<1>3. CASE ChildExit
  <2>1. UNCHANGED <<cli, state, pipe, used>> /\ call' = call
    BY <1>3 DEF ChildExit
  <2> QED  BY <1>3, <2>1, QuietInv DEF ChildExit, CallInv, CallTypeOK
<1>4. CASE StartCall
  <2>1. UNCHANGED <<cli, state, pipe, used>> /\ call'.scanErr = call.scanErr
        /\ call' \in [at : {"scanning", "failed"}, scanErr : BOOLEAN]
    BY <1>4 DEF StartCall, CallInv, CallTypeOK
  <2>2. CallTypeOK'
    BY <1>4, <2>1 DEF StartCall, CallInv, CallTypeOK
  <2>3. call'.at = "failed" => child' = "none"
    BY <1>4 DEF StartCall, CallInv, CallTypeOK
  <2> QED  BY <2>1, <2>2, <2>3, QuietInv DEF CallInv
<1>5. CASE EndOfEvents
  <2>1. UNCHANGED <<cli, state, context, child, pipe, used>> /\ call'.scanErr = call.scanErr
        /\ call'.at = "waiting" /\ pipe = <<>> /\ child # "running"
        /\ call' \in [at : {"waiting"}, scanErr : BOOLEAN]
    BY <1>5 DEF EndOfEvents, CallInv, CallTypeOK
  <2>2. CallTypeOK'
    BY <2>1 DEF CallInv, CallTypeOK
  <2> QED  BY <2>1, <2>2, QuietInv DEF CallInv
<1>6. CASE WaitChild
  <2>1. UNCHANGED <<cli, state, context, child, pipe, used>> /\ call'.scanErr = call.scanErr
        /\ call.at = "waiting" /\ child # "running"
        /\ call'.at = (IF accepted THEN "answered" ELSE "failed")
        /\ call' \in [at : {"answered", "failed"}, scanErr : BOOLEAN]
    BY <1>6 DEF WaitChild, CallInv, CallTypeOK
  <2>2. CallTypeOK'
    BY <2>1 DEF CallInv, CallTypeOK
  <2> QED  BY <2>1, <2>2, QuietInv DEF CallInv, accepted
<1>7. CASE Cancel \/ Expire
  <2>1. UNCHANGED <<cli, state, pipe, used>> /\ UNCHANGED <<call, child>> /\ context' \in {"cancelled", "expired"}
    BY <1>7 DEF Cancel, Expire
  <2> QED  BY <2>1, QuietInv DEF CallInv, CallTypeOK
<1>8. CASE Kill
  <2>1. UNCHANGED <<cli, state, pipe, used>> /\ UNCHANGED <<call, context>> /\ child' = "killed" /\ child = "running"
    BY <1>8 DEF Kill
  <2> QED  BY <2>1, QuietInv DEF CallInv, CallTypeOK
<1>9. CASE UNCHANGED callVars
  <2>1. UNCHANGED <<cli, state, pipe, used>> /\ UNCHANGED <<call, context, child>>
    BY <1>9 DEF callVars
  <2> QED  BY <2>1, QuietInv DEF CallInv, CallTypeOK
<1> QED  BY <1>1, <1>2, <1>3, <1>4, <1>5, <1>6, <1>7, <1>8, <1>9 DEF CallNext, Caller

LEMMA InvEarned == CallInv => AnswerEarned
<1> SUFFICES ASSUME CallInv PROVE AnswerEarned
  OBVIOUS
<1>1. ASSUME call.at = "answered"
      PROVE  /\ pipe = <<>> /\ ~ used.broken
             /\ used.tools <= MaxTools /\ used.turns <= MaxTurns /\ used.events <= EventBudget
             /\ used.answer # NoAnswer /\ state.output = used.answer
  <2>1. ~ call.scanErr /\ pipe = <<>> /\ state.output # NoAnswer /\ Within
    BY <1>1 DEF CallInv
  <2>2. PICK h : History(h)
    BY <2>1 DEF CallInv
  <2>3. Counted(used)
    BY <2>1, <2>2 DEF History
  <2>4. /\ used.turns \in Nat /\ state.turns \in Nat
    BY DEF CallInv, CallTypeOK, Accounts, States
  <2> QED  BY <2>1, <2>3, <2>4, CallAssumption DEF Counted, Within, checkLimits
<1> QED  BY <1>1 DEF AnswerEarned, CallInv

\* What the caller has counted is the child's account up to the last event it
\* has read, and it has read everything before it can accept an answer.
THEOREM CallInvariant == CallSpec => []CallInv
<1>1. CallInit => CallInv
  BY InitInv
<1>2. CallInv /\ [CallNext]_callVars => CallInv'
  BY StepInv
<1> QED  BY <1>1, <1>2, PTL DEF CallSpec

\* An accepted answer is the child's last, of a child that ended well within the
\* limits on tools, turns and events by its own count, with all it wrote read.
THEOREM EveryAnswerEarned == CallSpec => []AnswerEarned
<1>1. CallInv => AnswerEarned
  BY InvEarned
<1> QED  BY <1>1, CallInvariant, PTL

-----------------------------------------------------------------------------
(* The size guard *)

Letters == {"w", " ", "n"}
Strings == Seq(Letters)

-----------------------------------------------------------------------------
(* Words and tokens *)

LEMMA Concatenated ==
    ASSUME NEW a \in Strings, NEW b \in Strings
    PROVE  /\ a \o b \in Strings
           /\ Len(a) \in Nat /\ Len(b) \in Nat
           /\ Len(a \o b) = Len(a) + Len(b)
           /\ \A i \in 1 .. Len(a) : (a \o b)[i] = a[i]
           /\ \A i \in 1 .. Len(b) : (a \o b)[Len(a) + i] = b[i]
BY DEF Strings

LEMMA Single ==
    ASSUME NEW x \in Letters
    PROVE  <<x>> \in Strings /\ Len(<<x>>) = 1 /\ <<x>>[1] = x
BY DEF Strings

LEMMA WordsFinite ==
    ASSUME NEW text \in Strings
    PROVE  IsFiniteSet(WordStarts(text)) /\ Words(text) \in Nat
<1>1. Len(text) \in Nat /\ DOMAIN text = 1 .. Len(text)
  BY DEF Strings
<1>2. WordStarts(text) \in SUBSET (1 .. Len(text))
  BY <1>1 DEF WordStarts
<1>3. IsFiniteSet(1 .. Len(text))
  BY <1>1, FS_Interval
<1>4. IsFiniteSet(WordStarts(text))
  BY <1>2, <1>3, FS_Subset
<1> QED  BY <1>4, FS_CardinalityType DEF Words

LEMMA TokensBound ==
    ASSUME NEW text \in Strings
    PROVE  /\ CountTokens(text) \in Nat
           /\ Len(text) <= 4 * CountTokens(text)
           /\ 4 * Words(text) <= 3 * CountTokens(text)
<1>1. PICK l, v : l = Len(text) /\ v = Words(text)
  OBVIOUS
<1>2. l \in Nat /\ v \in Nat
  BY <1>1, WordsFinite DEF Strings
<1>3. CountTokens(text) = MaxOf((v * 4 + 2) \div 3, (l + 3) \div 4)
  BY <1>1 DEF CountTokens
<1>4. (l + 3) \div 4 \in Nat /\ l <= 4 * ((l + 3) \div 4)
  BY <1>2
<1>5. (v * 4 + 2) \div 3 \in Nat /\ 4 * v <= 3 * ((v * 4 + 2) \div 3)
  BY <1>2
<1>6. PICK c, b : c = (l + 3) \div 4 /\ b = (v * 4 + 2) \div 3
  OBVIOUS
<1>7. MaxOf(b, c) \in Nat /\ l <= 4 * MaxOf(b, c) /\ 4 * v <= 3 * MaxOf(b, c)
  BY <1>2, <1>4, <1>5, <1>6 DEF MaxOf
<1> QED  BY <1>1, <1>3, <1>6, <1>7

\* A line end between two texts makes no word of two.
LEMMA JoinedWords ==
    ASSUME NEW a \in Strings, NEW b \in Strings
    PROVE  LET text == a \o <<"n">> \o b
           IN  /\ text \in Strings
               /\ Len(text) = Len(a) + 1 + Len(b)
               /\ Words(text) <= Words(a) + Words(b)
<1>1. PICK text, m : text = a \o <<"n">> \o b /\ m = Len(a)
  OBVIOUS
<1>2. PICK k : k = Len(b)
  OBVIOUS
<1>3. m \in Nat /\ k \in Nat /\ DOMAIN a = 1 .. m /\ DOMAIN b = 1 .. k
  BY <1>1, <1>2 DEF Strings
<1> DEFINE end == <<"n">>
<1>4. end \in Strings /\ Len(end) = 1 /\ end[1] = "n"
  BY Single DEF Letters
<1> HIDE DEF end
<1>5. /\ a \o end \in Strings /\ Len(a \o end) = m + 1
      /\ \A i \in 1 .. m : (a \o end)[i] = a[i]
      /\ (a \o end)[m + 1] = "n"
  <2>1. /\ a \o end \in Strings
        /\ Len(a \o end) = Len(a) + Len(end)
        /\ \A i \in 1 .. Len(a) : (a \o end)[i] = a[i]
        /\ \A i \in 1 .. Len(end) : (a \o end)[Len(a) + i] = end[i]
    BY <1>4, Concatenated
  <2>2. 1 \in 1 .. Len(end)
    BY <1>4
  <2> QED  BY <1>1, <1>4, <2>1, <2>2
<1>6. text = (a \o end) \o b
  BY <1>1 DEF end
<1>7. /\ text \in Strings
      /\ Len(text) = Len(a \o end) + Len(b)
      /\ \A i \in 1 .. Len(a \o end) : text[i] = (a \o end)[i]
      /\ \A i \in 1 .. Len(b) : text[Len(a \o end) + i] = b[i]
  BY <1>5, <1>6, Concatenated
<1>8. text \in Strings /\ Len(text) = m + 1 + k
  BY <1>2, <1>5, <1>7
<1>9. DOMAIN text = 1 .. (m + 1 + k)
  BY <1>8 DEF Strings
<1>10. \A i \in 1 .. m : text[i] = a[i]
  BY <1>3, <1>5, <1>7
<1>11. text[m + 1] = "n"
  BY <1>3, <1>5, <1>7
<1>12. \A i \in 1 .. k : text[m + 1 + i] = b[i]
  BY <1>2, <1>5, <1>7
<1> DEFINE shift == [i \in WordStarts(b) |-> m + 1 + i]
           A == WordStarts(a)
           B == {shift[i] : i \in WordStarts(b)}
<1>13. IsFiniteSet(A) /\ Cardinality(A) = Words(a)
  BY WordsFinite DEF Words
<1>14. IsFiniteSet(B) /\ Cardinality(B) <= Words(b)
  <2>1. shift \in Surjection(WordStarts(b), B)
    BY DEF Surjection
  <2>2. IsFiniteSet(WordStarts(b))
    BY WordsFinite
  <2> HIDE DEF shift, B
  <2> QED  BY <2>1, <2>2, FS_Surjection DEF Words
<1>15. WordStarts(text) \subseteq A \cup B
  <2> SUFFICES ASSUME NEW i \in WordStarts(text) PROVE i \in A \cup B
    OBVIOUS
  <2>1. i \in 1 .. (m + 1 + k) /\ text[i] = "w" /\ (i = 1 \/ text[i - 1] # "w")
    BY <1>9 DEF WordStarts
  <2>2. CASE i \in 1 .. m
    <3>1. a[i] = "w" /\ (i = 1 \/ (i - 1 \in 1 .. m /\ a[i - 1] # "w"))
      BY <1>3, <1>10, <2>1, <2>2
    <3> QED  BY <1>3, <2>2, <3>1 DEF WordStarts
  <2>3. CASE i \notin 1 .. m
    <3>1. PICK j : j = i - (m + 1)
      OBVIOUS
    <3>2. j \in 1 .. k /\ i = m + 1 + j
      <4>1. i # m + 1
        BY <1>11, <2>1
      <4> QED  BY <1>3, <2>1, <2>3, <3>1, <4>1
    <3>3. b[j] = "w"
      BY <1>12, <2>1, <3>2
    <3>4. j = 1 \/ b[j - 1] # "w"
      <4> SUFFICES ASSUME j # 1 PROVE b[j - 1] # "w"
        OBVIOUS
      <4>1. j - 1 \in 1 .. k /\ m + 1 + (j - 1) = i - 1 /\ i # 1
        BY <1>3, <3>2
      <4>2. text[m + 1 + (j - 1)] = b[j - 1]
        BY <1>12, <4>1
      <4> QED  BY <2>1, <4>1, <4>2
    <3>5. j \in WordStarts(b)
      BY <1>3, <3>2, <3>3, <3>4 DEF WordStarts
    <3>6. shift[j] = i
      BY <3>2, <3>5
    <3> QED  BY <3>5, <3>6
  <2> QED  BY <2>2, <2>3
<1>16. Words(text) <= Words(a) + Words(b)
  <2> HIDE DEF A, B
  <2>1. /\ IsFiniteSet(A \cup B) /\ IsFiniteSet(A \cap B)
        /\ Cardinality(A \cup B) = Cardinality(A) + Cardinality(B) - Cardinality(A \cap B)
    BY <1>13, <1>14, FS_Union, FS_Intersection
  <2>2. Cardinality(A \cap B) \in Nat /\ Cardinality(B) \in Nat /\ Words(a) \in Nat /\ Words(b) \in Nat
    BY <1>14, <2>1, FS_CardinalityType, WordsFinite
  <2>3. Words(text) <= Cardinality(A \cup B)
    BY <1>15, <2>1, FS_Subset DEF Words
  <2>4. Words(text) \in Nat
    BY <1>8, WordsFinite
  <2> QED  BY <1>13, <1>14, <2>1, <2>2, <2>3, <2>4
<1> QED  BY <1>1, <1>2, <1>8, <1>16

\* A cut makes no word; the ellipsis may be one.
LEMMA CutWords ==
    ASSUME NEW text \in Strings, NEW n \in Nat, n < Len(text)
    PROVE  LET cut == SubSeq(text, 1, n) \o Ellipsis
           IN  /\ cut \in Strings
               /\ Len(cut) = n + 1
               /\ Words(cut) <= Words(text) + 1
<1>1. PICK cut, k : cut = SubSeq(text, 1, n) \o Ellipsis /\ k = Len(text)
  OBVIOUS
<1>2. k \in Nat /\ DOMAIN text = 1 .. k /\ n < k
  BY <1>1 DEF Strings
<1>3. PICK kept : kept = SubSeq(text, 1, n)
  OBVIOUS
<1>4. kept \in Strings /\ Len(kept) = n /\ \A i \in 1 .. n : kept[i] = text[i]
  BY <1>1, <1>2, <1>3 DEF Strings
<1>5. Ellipsis \in Strings /\ Len(Ellipsis) = 1
  BY Single DEF Letters, Ellipsis
<1>6. /\ cut \in Strings
      /\ Len(cut) = Len(kept) + Len(Ellipsis)
      /\ \A i \in 1 .. Len(kept) : cut[i] = kept[i]
  BY ZenonT(30), <1>1, <1>3, <1>4, <1>5, Concatenated
<1>7. cut \in Strings /\ Len(cut) = n + 1 /\ DOMAIN cut = 1 .. (n + 1)
  BY <1>4, <1>5, <1>6 DEF Strings
<1>8. \A i \in 1 .. n : cut[i] = text[i]
  BY <1>4, <1>6
<1>9. WordStarts(cut) \subseteq WordStarts(text) \cup {n + 1}
  <2> SUFFICES ASSUME NEW i \in WordStarts(cut), i # n + 1 PROVE i \in WordStarts(text)
    OBVIOUS
  <2>1. i \in 1 .. n /\ cut[i] = "w" /\ (i = 1 \/ (i - 1 \in 1 .. n /\ cut[i - 1] # "w"))
    BY <1>7 DEF WordStarts
  <2> QED  BY <1>2, <1>8, <2>1 DEF WordStarts
<1>10. IsFiniteSet(WordStarts(text)) /\ Words(text) \in Nat /\ Words(cut) \in Nat
  BY <1>7, WordsFinite
<1>11. PICK S, x : S = WordStarts(text) /\ x = n + 1
  OBVIOUS
<1>12. IsFiniteSet(S \cup {x}) /\ Cardinality(S \cup {x}) \in {Cardinality(S), Cardinality(S) + 1}
  BY <1>10, <1>11, FS_AddElement
<1>13. Words(cut) <= Cardinality(S \cup {x})
  BY <1>9, <1>11, <1>12, FS_Subset DEF Words
<1>14. Words(cut) <= Words(text) + 1
  BY <1>10, <1>11, <1>12, <1>13 DEF Words
<1> QED  BY <1>1, <1>7, <1>14

-----------------------------------------------------------------------------
(* The loops over the sources *)

TotalLaw(total) ==
    total = [n \in 0 .. Len(sources) |-> IF n = 0 THEN 0 ELSE total[n - 1] + CountTokens(sources[n])]

JoinLaw(join) ==
    join = [n \in 0 .. Len(sources) |->
              IF n = 0 THEN <<>>
              ELSE IF n = 1 THEN sources[1]
              ELSE join[n - 1] \o <<"n">> \o sources[n]]

SourcesOK == sources \in Seq(Strings) /\ sources # <<>>

LEMMA SourceTypes ==
    ASSUME SourcesOK
    PROVE  /\ Len(sources) \in Nat \ {0}
           /\ \A i \in 1 .. Len(sources) : sources[i] \in Strings
BY DEF SourcesOK

LEMMA TotalExists ==
    ASSUME SourcesOK
    PROVE  \E total \in [0 .. Len(sources) -> Nat] : TotalLaw(total) /\ inputTokens = total[Len(sources)]
<1> DEFINE step == [i \in 1 .. Len(sources) |-> [t \in Nat |-> t + CountTokens(sources[i])]]
<1>1. Len(sources) \in Nat /\ \A i \in 1 .. Len(sources) : CountTokens(sources[i]) \in Nat
  BY SourceTypes, TokensBound
<1>2. step \in [1 .. Len(sources) -> [Nat -> Nat]]
  BY <1>1
<1>3. PICK total \in [0 .. Len(sources) -> Nat] : Loop(total, Len(sources), 0, step)
  <2> HIDE DEF step
  <2> QED  BY <1>1, <1>2, LoopExists
<1>4. TotalLaw(total)
  <2>1. ASSUME NEW n \in 0 .. Len(sources)
        PROVE  total[n] = IF n = 0 THEN 0 ELSE total[n - 1] + CountTokens(sources[n])
    <3>1. CASE n = 0
      BY <1>3, <3>1 DEF Loop
    <3>2. CASE n # 0
      <4>1. n \in 1 .. Len(sources) /\ n - 1 \in 0 .. Len(sources)
        BY <1>1, <3>2
      <4>2. n \in 1 .. Len(sources) /\ total[n - 1] \in Nat
        BY <4>1
      <4>3. total[n] = step[n][total[n - 1]]
        BY <1>3, <4>2 DEF Loop
      <4> QED  BY <3>2, <4>2, <4>3
    <3> QED  BY <3>1, <3>2
  <2> QED  BY <2>1 DEF TotalLaw
<1>5. \A other : TotalLaw(other) => other = total
  <2> SUFFICES ASSUME NEW other, TotalLaw(other) PROVE other = total
    OBVIOUS
  <2> DEFINE Same == {n \in 0 .. Len(sources) : other[n] = total[n]}
  <2>1. 0 \in Same
    BY <1>1, <1>4 DEF TotalLaw
  <2>2. ASSUME NEW n \in 1 .. Len(sources), n - 1 \in Same PROVE n \in Same
    <3>1. n \in 0 .. Len(sources) /\ n # 0 /\ other[n - 1] = total[n - 1]
      BY <1>1, <2>2
    <3>2. other[n] = other[n - 1] + CountTokens(sources[n]) /\ total[n] = total[n - 1] + CountTokens(sources[n])
      BY <1>4, <3>1 DEF TotalLaw
    <3> QED  BY <3>1, <3>2
  <2>3. \A n \in 0 .. Len(sources) : n \in Same
    <3> HIDE DEF Same
    <3> QED  BY <1>1, <2>1, <2>2, Upward
  <2>4. \A n \in 0 .. Len(sources) : other[n] = total[n]
    BY <2>3
  <2>5. other = [n \in 0 .. Len(sources) |-> other[n]]
    BY DEF TotalLaw
  <2>6. total = [n \in 0 .. Len(sources) |-> total[n]]
    OBVIOUS
  <2> QED  BY <2>4, <2>5, <2>6
<1>6. inputTokens = (CHOOSE other : TotalLaw(other))[Len(sources)]
  BY DEF inputTokens, TotalLaw
<1>7. (CHOOSE other : TotalLaw(other)) = total
  BY <1>4, <1>5
<1> QED  BY <1>4, <1>6, <1>7

LEMMA JoinExists ==
    ASSUME SourcesOK
    PROVE  \E join : JoinLaw(join) /\ Joined = join[Len(sources)]
<1> DEFINE step == [i \in 1 .. Len(sources) |->
                      [t \in Strings |-> IF i = 1 THEN sources[1] ELSE t \o <<"n">> \o sources[i]]]
<1>1. Len(sources) \in Nat /\ \A i \in 1 .. Len(sources) : sources[i] \in Strings
  BY SourceTypes
<1>2. step \in [1 .. Len(sources) -> [Strings -> Strings]]
  BY <1>1, JoinedWords
<1>3. <<>> \in Strings
  BY DEF Strings
<1>4. PICK join \in [0 .. Len(sources) -> Strings] : Loop(join, Len(sources), <<>>, step)
  <2> HIDE DEF step
  <2> QED  BY <1>1, <1>2, <1>3, LoopExists
<1>5. JoinLaw(join)
  <2>1. ASSUME NEW n \in 0 .. Len(sources)
        PROVE  join[n] = IF n = 0 THEN <<>>
                         ELSE IF n = 1 THEN sources[1]
                         ELSE join[n - 1] \o <<"n">> \o sources[n]
    <3>1. CASE n = 0
      BY <1>4, <3>1 DEF Loop
    <3>2. CASE n # 0
      <4>1. n \in 1 .. Len(sources) /\ join[n - 1] \in Strings
        BY <1>1, <3>2
      <4>2. join[n] = step[n][join[n - 1]]
        BY <1>4, <4>1 DEF Loop
      <4> QED  BY <3>2, <4>1, <4>2
    <3> QED  BY <3>1, <3>2
  <2> QED  BY <2>1 DEF JoinLaw
<1>6. Joined = (CHOOSE other : JoinLaw(other))[Len(sources)]
  BY DEF Joined, JoinLaw
<1> QED  BY <1>5, <1>6

\* Joining adds a character a source after the first, and no word.
LEMMA JoinedBound ==
    ASSUME SourcesOK
    PROVE  /\ inputTokens \in Nat
           /\ Joined \in Strings
           /\ Len(Joined) <= 4 * inputTokens + Len(sources) - 1
           /\ 4 * Words(Joined) <= 3 * inputTokens
<1>1. PICK total \in [0 .. Len(sources) -> Nat] : TotalLaw(total) /\ inputTokens = total[Len(sources)]
  BY TotalExists
<1>2. PICK join : JoinLaw(join) /\ Joined = join[Len(sources)]
  BY JoinExists
<1>3. PICK k : k = Len(sources)
  OBVIOUS
<1>4. k \in Nat \ {0} /\ \A i \in 1 .. k : sources[i] \in Strings
  BY <1>3, SourceTypes
<1>5. \A n \in 1 .. k : total[n] = total[n - 1] + CountTokens(sources[n])
  <2>1. \A n \in 1 .. k : n \in 0 .. k /\ n # 0
    BY <1>4
  <2> QED  BY <1>1, <1>3, <2>1 DEF TotalLaw
<1>6. \A n \in 1 .. k : join[n] = IF n = 1 THEN sources[1] ELSE join[n - 1] \o <<"n">> \o sources[n]
  <2>1. \A n \in 1 .. k : n \in 0 .. k /\ n # 0
    BY <1>4
  <2> QED  BY <1>2, <1>3, <2>1 DEF JoinLaw
<1>7. total[0] = 0
  BY <1>1, <1>3, <1>4 DEF TotalLaw
<1> DEFINE Fits(n) == /\ join[n] \in Strings
                      /\ Len(join[n]) <= 4 * total[n] + n - 1
                      /\ 4 * Words(join[n]) <= 3 * total[n]
           Good == {n \in 0 .. k : n = 0 \/ Fits(n)}
<1>8. ASSUME NEW n \in 1 .. k, n - 1 \in Good PROVE Fits(n)
  <2>1. PICK x : x = sources[n]
    OBVIOUS
  <2>2. /\ x \in Strings /\ CountTokens(x) \in Nat /\ Len(x) \in Nat /\ Words(x) \in Nat
        /\ Len(x) <= 4 * CountTokens(x) /\ 4 * Words(x) <= 3 * CountTokens(x)
    BY <1>4, <2>1, TokensBound, WordsFinite DEF Strings
  <2>3. total[n] = total[n - 1] + CountTokens(x) /\ total[n - 1] \in Nat
    BY <1>3, <1>4, <1>5, <2>1
  <2>4. CASE n = 1
    <3>1. join[n] = x
      BY <1>6, <2>1, <2>4
    <3>2. total[n] = CountTokens(x)
      BY <1>7, <2>2, <2>3, <2>4
    <3> QED  BY <2>2, <2>4, <3>1, <3>2
  <2>5. CASE n # 1
    <3>1. Fits(n - 1)
      BY <1>8, <2>5
    <3>2. PICK a : a = join[n - 1]
      OBVIOUS
    <3>3. /\ a \in Strings /\ Len(a) \in Nat /\ Words(a) \in Nat
          /\ Len(a) <= 4 * total[n - 1] + (n - 1) - 1
          /\ 4 * Words(a) <= 3 * total[n - 1]
      BY <3>1, <3>2, WordsFinite DEF Strings
    <3>4. join[n] = a \o <<"n">> \o x
      BY <1>6, <2>1, <2>5, <3>2
    <3>5. /\ join[n] \in Strings
          /\ Len(join[n]) = Len(a) + 1 + Len(x)
          /\ Words(join[n]) <= Words(a) + Words(x)
      BY <2>2, <3>3, <3>4, JoinedWords
    <3>6. Words(join[n]) \in Nat
      BY <3>5, WordsFinite
    <3>7. Len(join[n]) <= 4 * total[n] + n - 1 /\ 4 * Words(join[n]) <= 3 * total[n]
      <4>1. PICK sum, more, l, v, la, va, lx, vx :
              /\ sum = total[n - 1] /\ more = CountTokens(x)
              /\ l = Len(join[n]) /\ v = Words(join[n])
              /\ la = Len(a) /\ va = Words(a) /\ lx = Len(x) /\ vx = Words(x)
        OBVIOUS
      <4>2. /\ sum \in Nat /\ more \in Nat /\ n \in Nat
            /\ v \in Nat /\ la \in Nat /\ va \in Nat /\ lx \in Nat /\ vx \in Nat
            /\ l = la + 1 + lx /\ v <= va + vx
            /\ la <= 4 * sum + (n - 1) - 1 /\ lx <= 4 * more
            /\ 4 * va <= 3 * sum /\ 4 * vx <= 3 * more
            /\ total[n] = sum + more
        BY <2>2, <2>3, <3>3, <3>5, <3>6, <4>1
      <4>3. l <= 4 * (sum + more) + n - 1 /\ 4 * v <= 3 * (sum + more)
        BY <4>2
      <4> QED  BY <4>1, <4>2, <4>3
    <3> QED  BY <3>5, <3>7
  <2> QED  BY <2>4, <2>5
<1>9. \A n \in 0 .. k : n \in Good
  <2>1. 0 \in Good /\ \A n \in 1 .. k : n - 1 \in Good => n \in Good
    <3>1. 0 \in Good
      BY <1>4
    <3>2. \A n \in 1 .. k : n - 1 \in Good => Fits(n)
      BY <1>8
    <3> HIDE DEF Fits
    <3> QED  BY <3>1, <3>2
  <2> HIDE DEF Good
  <2> QED  BY <1>4, <2>1, Upward
<1>10. Fits(k)
  <2>1. k \in Good
    <3> HIDE DEF Good
    <3> QED  BY <1>4, <1>9
  <2> HIDE DEF Fits
  <2> QED  BY <1>4, <2>1
<1> QED  BY <1>1, <1>2, <1>3, <1>4, <1>10

\* What the truncation returns.
LEMMA TruncationBound ==
    ASSUME SourcesOK, limit \in Nat
    PROVE  LET cut == truncateToTokens(Joined)
           IN  Len(cut) <= 4 * limit + 1 /\ CountTokens(cut) <= inputTokens + Excess
<1>1. PICK text, cut, m, k, S : /\ text = Joined /\ cut = truncateToTokens(text) /\ m = limit * 4
                                /\ k = Len(sources) /\ S = inputTokens
  OBVIOUS
<1>2. /\ S \in Nat /\ k \in Nat \ {0} /\ m \in Nat
      /\ text \in Strings /\ Len(text) \in Nat /\ Words(text) \in Nat
      /\ Len(text) <= 4 * S + k - 1
      /\ 4 * Words(text) <= 3 * S
  BY <1>1, JoinedBound, SourceTypes, WordsFinite DEF Strings
<1>3. /\ cut \in Strings /\ Len(cut) <= m + 1 /\ Len(cut) <= Len(text) /\ Words(cut) <= Words(text) + 1
  <2>1. CASE Len(text) <= m
    BY <1>1, <1>2, <2>1 DEF truncateToTokens
  <2>2. CASE ~ (Len(text) <= m)
    <3>1. cut = SubSeq(text, 1, m) \o Ellipsis
      BY <1>1, <2>2 DEF truncateToTokens
    <3> QED  BY <1>2, <2>2, <3>1, CutWords
  <2> QED  BY <2>1, <2>2
<1>4. PICK l, v : l = Len(cut) /\ v = Words(cut)
  OBVIOUS
<1>5. l \in Nat /\ v \in Nat /\ l <= 4 * S + k - 1 /\ 4 * v <= 3 * S + 4
  BY <1>2, <1>3, <1>4, WordsFinite DEF Strings
<1>6. (l + 3) \div 4 <= S + ((k + 2) \div 4)
  BY <1>2, <1>5
<1>7. (v * 4 + 2) \div 3 <= S + 2
  BY <1>2, <1>5
<1>8. PICK c, b, e : c = (l + 3) \div 4 /\ b = (v * 4 + 2) \div 3 /\ e = (k + 2) \div 4
  OBVIOUS
<1>9. c \in Nat /\ b \in Nat /\ e \in Nat
  BY <1>2, <1>5, <1>8
<1>10. CountTokens(cut) = MaxOf(b, c) /\ Excess = MaxOf(2, e)
  BY <1>1, <1>4, <1>8 DEF CountTokens, Excess
<1>11. MaxOf(b, c) <= S + MaxOf(2, e)
  BY <1>2, <1>6, <1>7, <1>8, <1>9 DEF MaxOf
<1> QED  BY <1>1, <1>3, <1>10, <1>11

-----------------------------------------------------------------------------

GuardIInv ==
    /\ SourcesOK
    /\ limit \in Nat
    /\ SummaryBounded

LEMMA GuardInvInit == GuardInit => GuardIInv
<1> SUFFICES ASSUME GuardInit PROVE GuardIInv
  OBVIOUS
<1>1. Texts \subseteq Strings
  <2> SUFFICES ASSUME NEW text \in Texts PROVE text \in Seq(Letters)
    BY DEF Strings
  <2>1. PICK some : some = {"w", " "}
    OBVIOUS
  <2>2. text \in Seq(some) /\ some \subseteq Letters
    BY <2>1, GuardAssumption DEF Letters
  <2> QED  BY <2>2
<1>2. PICK n \in 1 .. MaxSources : sources \in [1 .. n -> Texts]
  BY DEF GuardInit
<1>3. n \in Nat /\ sources \in [1 .. n -> Strings]
  <2>1. MaxSources \in Nat
    BY GuardAssumption
  <2> QED  BY <1>1, <1>2, <2>1
<1>4. sources \in Seq(Strings) /\ Len(sources) = n
  BY <1>3
<1>5. SourcesOK
  BY <1>2, <1>4 DEF SourcesOK
<1>6. limit \in Nat /\ attempt = "normal"
  BY GuardAssumption DEF GuardInit
<1> QED  BY <1>5, <1>6 DEF GuardIInv, SummaryBounded

LEMMA GuardInvNext == GuardIInv /\ [GuardNext]_guardVars => GuardIInv'
<1> SUFFICES ASSUME GuardIInv, [GuardNext]_guardVars PROVE GuardIInv'
  OBVIOUS
<1>1. sources' = sources /\ limit' = limit
  BY DEF GuardNext, Ask, Truncate, guardVars
<1>2. SourcesOK' /\ limit' \in Nat /\ inputTokens' = inputTokens /\ Excess' = Excess
  BY <1>1 DEF GuardIInv, SourcesOK, inputTokens, Excess
<1>3. CASE Ask
  <2>1. PICK answer \in Summaries :
          IF Smaller(answer)
          THEN summary' = answer /\ attempt' = "done"
          ELSE attempt' = Escalation[attempt] /\ UNCHANGED summary
    BY <1>3 DEF Ask
  <2>2. CASE Smaller(answer)
    BY <1>2, <2>1, <2>2 DEF GuardIInv, SummaryBounded, Smaller
  <2>3. CASE ~ Smaller(answer)
    <3>1. attempt' \in {"aggressive", "truncate"}
      BY <1>3, <2>1, <2>3 DEF Ask, Escalation
    <3> QED  BY <1>2, <3>1 DEF GuardIInv, SummaryBounded
  <2> QED  BY <2>2, <2>3
<1>4. CASE Truncate
  <2>1. summary' = truncateToTokens(Joined)
    BY <1>4 DEF Truncate
  <2>2. Len(summary') <= 4 * limit + 1 /\ CountTokens(summary') <= inputTokens + Excess
    BY <2>1, TruncationBound DEF GuardIInv
  <2> QED  BY <1>1, <1>2, <2>2 DEF GuardIInv, SummaryBounded
<1>5. CASE UNCHANGED guardVars
  BY <1>2, <1>5 DEF GuardIInv, SummaryBounded, guardVars
<1> QED  BY <1>3, <1>4, <1>5 DEF GuardNext

\* summarizeWithGuard returns a summary smaller than its sources, or their
\* truncation, which joining and the ellipsis make larger by two tokens, or by
\* a quarter of a token a source, whatever the texts.
THEOREM SummaryAlwaysBounded == GuardSpec => []SummaryBounded
<1>1. GuardIInv => SummaryBounded
  BY DEF GuardIInv
<1> QED  BY <1>1, GuardInvInit, GuardInvNext, PTL DEF GuardSpec

-----------------------------------------------------------------------------
(* Recall *)

AnyHit ==
    [kind : {"message"}, id : Nat \ {0}, row : MessageRows, rank : Nat]
        \cup [kind : {"summary"}, id : Nat \ {0}, row : SummaryRows, rank : Nat]

LEMMA ScoreType ==
    ASSUME NEW hit \in AnyHit
    PROVE  recallScore(hit) \in Int /\ hit.kind \in {"message", "summary"}
<1>1. CASE hit \in [kind : {"summary"}, id : Nat \ {0}, row : SummaryRows, rank : Nat]
  <2>1. hit.kind = "summary" /\ hit.row \in SummaryRows /\ hit.rank \in Nat
    BY <1>1
  <2>2. hit.row.matched \in Nat /\ hit.row.recency \in Nat
    BY <2>1 DEF SummaryRows
  <2>3. Greater(25 - hit.rank, 0) \in Nat
    BY <2>1 DEF Greater
  <2> QED  BY <2>1, <2>2, <2>3 DEF recallScore
<1>2. CASE hit \in [kind : {"message"}, id : Nat \ {0}, row : MessageRows, rank : Nat]
  <2>1. hit.kind = "message" /\ hit.row \in MessageRows /\ hit.rank \in Nat
    BY <1>2
  <2>2. hit.row.matched \in Nat /\ hit.row.recency \in Nat /\ hit.row.tokens \in Nat /\ hit.row.role \in Roles
    BY <2>1 DEF MessageRows
  <2>3. Greater(25 - hit.rank, 0) \in Nat
    BY <2>1 DEF Greater
  <2>4. roleRecallScore[hit.row.role] \in Nat
    BY <2>2 DEF roleRecallScore, Roles
  <2>5. Lesser(hit.row.tokens \div 200, 50) \in Int
    BY <2>2 DEF Lesser
  <2> QED  BY <2>1, <2>2, <2>3, <2>4, <2>5 DEF recallScore
<1> QED  BY <1>1, <1>2 DEF AnyHit

LEMMA BetterOrder ==
    ASSUME NEW hits \in Seq(AnyHit)
    PROVE  /\ \A i \in DOMAIN hits : ~ Better(hits, i, i)
           /\ \A i, j \in DOMAIN hits : i = j \/ Better(hits, i, j) \/ Better(hits, j, i)
           /\ \A i, j \in DOMAIN hits : ~ (Better(hits, i, j) /\ Better(hits, j, i))
           /\ \A i, j, k \in DOMAIN hits :
                Better(hits, i, j) /\ Better(hits, j, k) => Better(hits, i, k)
<1>1. DOMAIN hits = 1 .. Len(hits) /\ Len(hits) \in Nat
  OBVIOUS
<1>2. \A i \in DOMAIN hits : recallScore(hits[i]) \in Int
  BY <1>1, ScoreType
<1> QED  BY <1>1, <1>2 DEF Better

\* The best of the hits left, when any is.
LEMMA BestExists ==
    ASSUME NEW hits \in Seq(AnyHit), NEW open, open \subseteq DOMAIN hits, open # {}
    PROVE  \E i \in open : \A j \in open : ~ Better(hits, j, i)
<1> DEFINE I == DOMAIN hits
           before(i) == {j \in I : Better(hits, j, i)}
           Bad == {before(i) : i \in open}
<1>1. IsFiniteSet(I)
  <2>1. I = 1 .. Len(hits) /\ Len(hits) \in Nat
    OBVIOUS
  <2> QED  BY <2>1, FS_Interval
<1>2. Bad \subseteq SUBSET I /\ Bad # {}
  OBVIOUS
<1>3. PICK T \in Bad : \A U \in Bad : U \subseteq T => U = T
  <2> HIDE DEF Bad, I
  <2> QED  BY <1>1, <1>2, LeastSubset
<1>4. PICK i \in open : T = before(i)
  OBVIOUS
<1>5. ASSUME NEW j \in open, Better(hits, j, i) PROVE FALSE
  <2>1. i \in I /\ j \in I
    OBVIOUS
  <2>2. before(j) \in Bad /\ before(j) \subseteq T
    BY <1>4, <1>5, <2>1, BetterOrder
  <2>3. j \in T /\ j \notin before(j)
    BY <1>4, <1>5, <2>1, BetterOrder
  <2> QED  BY <1>3, <2>2, <2>3
<1> QED  BY <1>5

LEMMA BestOpen ==
    ASSUME NEW hits \in Seq(AnyHit), NEW chosen, Open(hits, chosen) # {}
    PROVE  /\ bestRecallIndex(hits, chosen) \in Open(hits, chosen)
           /\ \A j \in Open(hits, chosen) : ~ Better(hits, j, bestRecallIndex(hits, chosen))
<1> DEFINE open == Open(hits, chosen)
           Best(i) == \A j \in open : \/ recallScore(hits[j]) < recallScore(hits[i])
                                      \/ recallScore(hits[j]) = recallScore(hits[i]) /\ i <= j
<1>1. open \subseteq DOMAIN hits /\ DOMAIN hits = 1 .. Len(hits) /\ Len(hits) \in Nat
  BY DEF Open
<1>2. \A i \in open : recallScore(hits[i]) \in Int /\ i \in Nat
  BY <1>1, ScoreType
<1>3. ASSUME NEW i \in open PROVE Best(i) <=> \A j \in open : ~ Better(hits, j, i)
  <2> HIDE DEF open
  <2> QED  BY <1>2 DEF Better
<1>4. \E i \in open : Best(i)
  <2> HIDE DEF Best
  <2>1. PICK i \in open : \A j \in open : ~ Better(hits, j, i)
    BY <1>1, BestExists
  <2> QED  BY <1>3, <2>1
<1>5. bestRecallIndex(hits, chosen) = CHOOSE i \in open : Best(i)
  BY DEF bestRecallIndex
<1> HIDE DEF Best, open
<1> QED  BY <1>3, <1>4, <1>5 DEF open

-----------------------------------------------------------------------------
(* Selecting *)

LEMMA ImageCounts ==
    ASSUME NEW f, NEW S, IsFiniteSet(S), \A a, b \in S : f[a] = f[b] => a = b
    PROVE  IsFiniteSet({f[a] : a \in S}) /\ Cardinality({f[a] : a \in S}) = Cardinality(S)
<1> DEFINE T == {f[a] : a \in S}
           g == [a \in S |-> f[a]]
<1>1. g \in [S -> T] /\ \A a, b \in S : g[a] = g[b] => a = b
  OBVIOUS
<1>2. \A t \in T : \E a \in S : g[a] = t
  OBVIOUS
<1>3. g \in Bijection(S, T)
  BY <1>1, <1>2 DEF Bijection, Injection, IsInjective, Surjection
<1> HIDE DEF g, T
<1>4. IsFiniteSet(T) /\ Cardinality(T) = Cardinality(S)
  BY <1>3, FS_Bijection DEF ExistsBijection
<1> QED  BY <1>4 DEF T

\* What has been selected after any round: the first of the hits to expect.
Selected(hits, c) ==
    /\ c \in Seq(DOMAIN hits)
    /\ \A k, l \in DOMAIN c : k < l => Better(hits, c[k], c[l])
    /\ ToSet(c) \subseteq Eligible(hits)
    /\ \A i \in Eligible(hits), j \in ToSet(c) : Better(hits, i, j) => i \in ToSet(c)

Same(hits, i) == {j \in DOMAIN hits : hits[j].kind = hits[i].kind}

LEMMA SelectedCounts ==
    ASSUME NEW hits \in Seq(AnyHit), NEW c, Selected(hits, c), NEW i \in DOMAIN hits
    PROVE  /\ IsFiniteSet(ToSet(c)) /\ Cardinality(ToSet(c)) = Len(c)
           /\ Cardinality({k \in DOMAIN c : hits[c[k]].kind = hits[i].kind})
                = Cardinality(ToSet(c) \cap Same(hits, i))
           /\ Len(c) \in Nat
           /\ Cardinality(ToSet(c) \cap Same(hits, i)) \in Nat
           /\ Cardinality(ToSet(c) \cap Same(hits, i)) <= Len(c)
<1>1. Len(c) \in Nat /\ DOMAIN c = 1 .. Len(c) /\ \A k \in DOMAIN c : c[k] \in DOMAIN hits
  BY DEF Selected
<1>2. ASSUME NEW k \in DOMAIN c, NEW l \in DOMAIN c, c[k] = c[l] PROVE k = l
  <2>1. ~ Better(hits, c[k], c[l]) /\ ~ Better(hits, c[l], c[k])
    BY <1>1, <1>2, BetterOrder
  <2>2. ~ (k < l) /\ ~ (l < k)
    BY <1>1, <2>1 DEF Selected
  <2> QED  BY <1>1, <2>2
<1>3. IsFiniteSet(DOMAIN c) /\ Cardinality(DOMAIN c) = Len(c)
  <2>1. PICK n \in Nat : n = Len(c)
    BY <1>1
  <2>2. IsFiniteSet(1 .. n) /\ Cardinality(1 .. n) = n
    BY FS_Interval
  <2> QED  BY <1>1, <2>1, <2>2
<1>4. IsFiniteSet(ToSet(c)) /\ Cardinality(ToSet(c)) = Len(c)
  BY <1>2, <1>3, ImageCounts DEF ToSet
<1> DEFINE K == {k \in DOMAIN c : hits[c[k]].kind = hits[i].kind}
<1>5. IsFiniteSet(K) /\ \A k, l \in K : c[k] = c[l] => k = l
  BY <1>2, <1>3, FS_Subset
<1>6. {c[k] : k \in K} = ToSet(c) \cap Same(hits, i)
  BY <1>1 DEF ToSet, Same
<1> HIDE DEF K
<1>7. Cardinality({c[k] : k \in K}) = Cardinality(K)
  BY <1>5, ImageCounts
<1>8. /\ Cardinality(ToSet(c) \cap Same(hits, i)) \in Nat
      /\ Cardinality(ToSet(c) \cap Same(hits, i)) <= Len(c)
  BY <1>4, FS_Subset, FS_CardinalityType
<1> QED  BY <1>1, <1>4, <1>6, <1>7, <1>8 DEF K

Allowed(hits, i) == IF hits[i].kind = "summary" THEN MaxSummaryResults ELSE RecallLimit

Betters(hits, i) == {j \in DOMAIN hits : Better(hits, j, i) /\ hits[j].kind = hits[i].kind}

LEMMA QuotaLaw ==
    ASSUME NEW hits \in Seq(AnyHit), NEW c, Selected(hits, c), NEW i \in DOMAIN hits
    PROVE  LET n == Cardinality(ToSet(c) \cap Same(hits, i))
           IN  /\ withinRecallQuota(hits, c, hits[i].kind) <=> n < RecallLimit /\ n < Allowed(hits, i)
               /\ Allowed(hits, i) \in Nat /\ RecallLimit \in Nat
<1>1. hits[i] \in AnyHit
  OBVIOUS
<1>2. hits[i].kind \in {"message", "summary"}
  BY <1>1, ScoreType
<1> DEFINE n == Cardinality(ToSet(c) \cap Same(hits, i))
<1>3. n \in Nat /\ Cardinality({k \in DOMAIN c : hits[c[k]].kind = hits[i].kind}) = n
  BY SelectedCounts
<1> HIDE DEF n
<1>4. RecallLimit \in Nat /\ MaxSummaryResults \in Nat /\ MaxRecallItems \in Nat /\ RecallLimit <= MaxRecallItems
  BY RecallAssumption
<1>5. withinRecallQuota(hits, c, hits[i].kind) <=> n < RecallLimit /\ n < Allowed(hits, i)
  BY <1>2, <1>3, <1>4 DEF withinRecallQuota, Allowed, Lesser
<1> QED  BY <1>4, <1>5 DEF n, Allowed

LEMMA EligibleLaw ==
    ASSUME NEW hits \in Seq(AnyHit), NEW i \in DOMAIN hits
    PROVE  /\ i \in Eligible(hits) <=> Cardinality(Betters(hits, i)) < Allowed(hits, i)
           /\ IsFiniteSet(Betters(hits, i)) /\ Cardinality(Betters(hits, i)) \in Nat
<1>1. IsFiniteSet(DOMAIN hits)
  <2>1. DOMAIN hits = 1 .. Len(hits) /\ Len(hits) \in Nat
    OBVIOUS
  <2> QED  BY <2>1, FS_Interval
<1>2. Betters(hits, i) \in SUBSET DOMAIN hits
  BY DEF Betters
<1>3. IsFiniteSet(Betters(hits, i)) /\ Cardinality(Betters(hits, i)) \in Nat
  BY <1>1, <1>2, FS_Subset, FS_CardinalityType
<1> QED  BY <1>3 DEF Eligible, Allowed, Betters

\* A hit to expect that is not selected yet may be selected next.
LEMMA EligibleOpen ==
    ASSUME NEW hits \in Seq(AnyHit), NEW c, Selected(hits, c), Len(c) < RecallLimit,
           NEW i \in Eligible(hits), i \notin ToSet(c)
    PROVE  i \in Open(hits, c) /\ \A j \in ToSet(c) : Better(hits, j, i)
<1>1. i \in DOMAIN hits /\ ToSet(c) \subseteq DOMAIN hits
  BY DEF Eligible, Selected
<1>2. \A j \in ToSet(c) : Better(hits, j, i)
  BY <1>1, BetterOrder DEF Selected
<1>3. ToSet(c) \cap Same(hits, i) \in SUBSET Betters(hits, i)
  BY <1>1, <1>2 DEF Same, Betters
<1> DEFINE n == Cardinality(ToSet(c) \cap Same(hits, i))
<1>4. n <= Cardinality(Betters(hits, i)) /\ n \in Nat /\ Len(c) \in Nat /\ n <= Len(c)
  BY <1>1, <1>3, EligibleLaw, SelectedCounts, FS_Subset
<1>5. Cardinality(Betters(hits, i)) < Allowed(hits, i) /\ Cardinality(Betters(hits, i)) \in Nat
  BY <1>1, EligibleLaw
<1>6. /\ withinRecallQuota(hits, c, hits[i].kind) <=> n < RecallLimit /\ n < Allowed(hits, i)
      /\ Allowed(hits, i) \in Nat /\ RecallLimit \in Nat
  BY <1>1, QuotaLaw
<1> HIDE DEF n
<1>7. withinRecallQuota(hits, c, hits[i].kind)
  BY <1>4, <1>5, <1>6
<1> QED  BY <1>1, <1>2, <1>7 DEF Open

\* What is selected next is to be expected.
LEMMA BestEligible ==
    ASSUME NEW hits \in Seq(AnyHit), NEW c, Selected(hits, c), Open(hits, c) # {}
    PROVE  /\ bestRecallIndex(hits, c) \in Eligible(hits)
           /\ bestRecallIndex(hits, c) \notin ToSet(c)
           /\ \A j \in Open(hits, c) : ~ Better(hits, j, bestRecallIndex(hits, c))
<1>1. PICK b : b = bestRecallIndex(hits, c)
  OBVIOUS
<1>2. b \in Open(hits, c) /\ \A j \in Open(hits, c) : ~ Better(hits, j, b)
  BY <1>1, BestOpen
<1>3. b \in DOMAIN hits /\ b \notin ToSet(c) /\ withinRecallQuota(hits, c, hits[b].kind)
  BY <1>2 DEF Open
<1>4. ASSUME NEW j \in Betters(hits, b) PROVE j \in ToSet(c) \cap Same(hits, b)
  <2>1. j \in DOMAIN hits /\ Better(hits, j, b) /\ hits[j].kind = hits[b].kind
    BY <1>4 DEF Betters
  <2>2. j \notin Open(hits, c)
    BY <1>2, <2>1
  <2>3. j \in ToSet(c)
    BY <1>3, <2>1, <2>2 DEF Open
  <2> QED  BY <2>1, <2>3 DEF Same
<1> DEFINE X == ToSet(c) \cap Same(hits, b)
<1>5. Betters(hits, b) \in SUBSET X /\ IsFiniteSet(X)
  <2>1. IsFiniteSet(ToSet(c))
    BY <1>3, SelectedCounts
  <2>2. IsFiniteSet(X)
    BY <2>1, FS_Subset
  <2> QED  BY <1>4, <2>2
<1>6. Cardinality(X) \in Nat /\ Allowed(hits, b) \in Nat /\ Cardinality(X) < Allowed(hits, b)
  BY <1>3, QuotaLaw, SelectedCounts
<1> HIDE DEF X
<1>7. Cardinality(Betters(hits, b)) <= Cardinality(X)
  BY <1>5, FS_Subset
<1>8. Cardinality(Betters(hits, b)) \in Nat
  BY <1>3, EligibleLaw
<1>9. b \in Eligible(hits)
  BY <1>3, <1>6, <1>7, <1>8, EligibleLaw
<1> QED  BY <1>1, <1>2, <1>3, <1>9

\* A round of the selection.
Round(hits, c) == IF Open(hits, c) = {} THEN c ELSE Append(c, bestRecallIndex(hits, c))

LEMMA RoundSelects ==
    ASSUME NEW hits \in Seq(AnyHit), NEW c, Selected(hits, c), Len(c) < RecallLimit
    PROVE  /\ Selected(hits, Round(hits, c))
           /\ Len(Round(hits, c)) = Len(c) + 1 \/ ToSet(Round(hits, c)) = Eligible(hits)
           /\ ToSet(c) = Eligible(hits) => Round(hits, c) = c
<1>1. CASE Open(hits, c) = {}
  <2>1. Round(hits, c) = c
    BY <1>1 DEF Round
  <2>2. Eligible(hits) \subseteq ToSet(c)
    BY <1>1, EligibleOpen
  <2> QED  BY <2>1, <2>2 DEF Selected
<1>2. CASE Open(hits, c) # {}
  <2>1. PICK b : b = bestRecallIndex(hits, c)
    OBVIOUS
  <2>2. b \in Eligible(hits) /\ b \notin ToSet(c) /\ \A j \in Open(hits, c) : ~ Better(hits, j, b)
    BY <1>2, <2>1, BestEligible
  <2>3. PICK d : d = Append(c, b)
    OBVIOUS
  <2>4. Round(hits, c) = d
    BY <1>2, <2>1, <2>3 DEF Round
  <2>5. b \in DOMAIN hits
    BY <2>2 DEF Eligible
  <2>6. c \in Seq(DOMAIN hits) /\ Len(c) \in Nat
    BY DEF Selected
  <2>7. /\ d \in Seq(DOMAIN hits) /\ Len(d) = Len(c) + 1
        /\ DOMAIN d = 1 .. Len(c) + 1 /\ DOMAIN c = 1 .. Len(c)
        /\ d[Len(c) + 1] = b /\ \A k \in 1 .. Len(c) : d[k] = c[k]
    BY <2>3, <2>5, <2>6
  <2>8. ToSet(d) = ToSet(c) \cup {b}
    <3>1. \A x \in ToSet(d) : x \in ToSet(c) \cup {b}
      <4> SUFFICES ASSUME NEW k \in DOMAIN d PROVE d[k] \in ToSet(c) \cup {b}
        BY DEF ToSet
      <4>1. k \in 1 .. Len(c) \/ k = Len(c) + 1
        BY <2>6, <2>7
      <4> QED  BY <2>7, <4>1 DEF ToSet
    <3>2. \A x \in ToSet(c) : x \in ToSet(d)
      <4> SUFFICES ASSUME NEW k \in DOMAIN c PROVE c[k] \in ToSet(d)
        BY DEF ToSet
      <4>1. k \in DOMAIN d /\ d[k] = c[k]
        BY <2>6, <2>7
      <4> QED  BY <4>1 DEF ToSet
    <3>3. b \in ToSet(d)
      <4>1. Len(c) + 1 \in DOMAIN d
        BY <2>6, <2>7
      <4> QED  BY <2>7, <4>1 DEF ToSet
    <3> QED  BY <3>1, <3>2, <3>3
  <2>9. \A j \in ToSet(c) : Better(hits, j, b)
    BY <2>2, EligibleOpen
  <2>10. ASSUME NEW k \in DOMAIN d, NEW l \in DOMAIN d, k < l PROVE Better(hits, d[k], d[l])
    <3>1. k \in DOMAIN c /\ d[k] = c[k] /\ c[k] \in ToSet(c)
      BY <2>6, <2>7, <2>10 DEF ToSet
    <3>2. CASE l = Len(c) + 1
      BY <2>7, <2>9, <3>1, <3>2
    <3>3. CASE l # Len(c) + 1
      <4>1. l \in DOMAIN c /\ d[l] = c[l]
        BY <2>6, <2>7, <3>3
      <4> QED  BY <2>10, <3>1, <4>1 DEF Selected
    <3> QED  BY <3>2, <3>3
  <2>11. ASSUME NEW i \in Eligible(hits), NEW j \in ToSet(d), Better(hits, i, j) PROVE i \in ToSet(d)
    <3>1. CASE j \in ToSet(c)
      BY <2>8, <2>11, <3>1 DEF Selected
    <3>2. CASE j = b
      <4>1. i \notin Open(hits, c)
        BY <2>2, <2>11, <3>2
      <4>2. i \in ToSet(c)
        BY <4>1, EligibleOpen
      <4> QED  BY <2>8, <4>2
    <3> QED  BY <2>8, <3>1, <3>2
  <2>12. ToSet(d) \subseteq Eligible(hits)
    BY <2>2, <2>8 DEF Selected
  <2>13. Selected(hits, d)
    BY <2>7, <2>10, <2>11, <2>12 DEF Selected
  <2> QED  BY <2>2, <2>4, <2>7, <2>13
<1> QED  BY <1>1, <1>2

Rounds(hits) == Lesser(Lesser(RecallLimit, Len(hits)), MaxRecallItems)

ChosenLaw(hits, f) ==
    f = [n \in 0 .. Rounds(hits) |->
           IF n = 0 THEN <<>>
           ELSE IF Open(hits, f[n - 1]) = {} THEN f[n - 1]
           ELSE Append(f[n - 1], bestRecallIndex(hits, f[n - 1]))]

LEMMA RoundsLaw ==
    ASSUME NEW hits \in Seq(AnyHit)
    PROVE  /\ Rounds(hits) \in Nat /\ Rounds(hits) <= RecallLimit /\ RecallLimit \in Nat
           /\ Len(hits) \in Nat
           /\ Rounds(hits) = RecallLimit \/ Rounds(hits) = Len(hits)
<1>1. RecallLimit \in Nat /\ MaxRecallItems \in Nat /\ RecallLimit <= MaxRecallItems /\ Len(hits) \in Nat
  BY RecallAssumption
<1> QED  BY <1>1 DEF Rounds, Lesser

LEMMA ChosenExists ==
    ASSUME NEW hits \in Seq(AnyHit)
    PROVE  \E f : /\ ChosenLaw(hits, f)
                  /\ RankRecall(hits) = [k \in DOMAIN f[Rounds(hits)] |-> hits[f[Rounds(hits)][k]]]
<1> DEFINE N == Rounds(hits)
           X == Seq(DOMAIN hits)
           step == [i \in 1 .. N |-> [c \in X |-> Round(hits, c)]]
<1>1. N \in Nat
  BY RoundsLaw
<1>2. ASSUME NEW c \in X PROVE Round(hits, c) \in X
  <2>1. CASE Open(hits, c) = {}
    BY <2>1 DEF Round
  <2>2. CASE Open(hits, c) # {}
    <3>1. bestRecallIndex(hits, c) \in DOMAIN hits
      BY <2>2, BestOpen DEF Open
    <3>2. Append(c, bestRecallIndex(hits, c)) \in X
      BY <3>1
    <3> QED  BY <2>2, <3>2 DEF Round
  <2> QED  BY <2>1, <2>2
<1>3. step \in [1 .. N -> [X -> X]] /\ <<>> \in X
  BY <1>2
<1>4. PICK f \in [0 .. N -> X] : Loop(f, N, <<>>, step)
  <2> HIDE DEF step, X, N
  <2> QED  BY <1>1, <1>3, LoopExists
<1>5. ChosenLaw(hits, f)
  <2>1. ASSUME NEW n \in 0 .. N
        PROVE  f[n] = IF n = 0 THEN <<>>
                      ELSE IF Open(hits, f[n - 1]) = {} THEN f[n - 1]
                      ELSE Append(f[n - 1], bestRecallIndex(hits, f[n - 1]))
    <3>1. CASE n = 0
      BY <1>4, <3>1 DEF Loop
    <3>2. CASE n # 0
      <4>1. n \in 1 .. N /\ n - 1 \in 0 .. N
        BY <1>1, <3>2
      <4>2. f[n - 1] \in X /\ f[n] = step[n][f[n - 1]]
        BY <1>4, <4>1 DEF Loop
      <4>3. f[n] = Round(hits, f[n - 1])
        BY <4>1, <4>2
      <4> QED  BY <3>2, <4>3 DEF Round
    <3> QED  BY <3>1, <3>2
  <2>2. f = [n \in 0 .. N |-> f[n]]
    OBVIOUS
  <2> QED  BY <2>1, <2>2 DEF ChosenLaw
<1>6. PICK g : g = CHOOSE other : ChosenLaw(hits, other)
  OBVIOUS
<1>7. ChosenLaw(hits, g)
  BY <1>5, <1>6
<1>8. RankRecall(hits) = [k \in DOMAIN g[N] |-> hits[g[N][k]]]
  BY <1>6 DEF RankRecall, ChosenLaw, Rounds
<1> QED  BY <1>7, <1>8

LEMMA ChosenSelected ==
    ASSUME NEW hits \in Seq(AnyHit), NEW f, ChosenLaw(hits, f)
    PROVE  LET c == f[Rounds(hits)]
           IN  /\ Selected(hits, c) /\ Len(c) \in Nat /\ Len(c) <= Rounds(hits)
               /\ Len(c) = Rounds(hits) \/ ToSet(c) = Eligible(hits)
<1> DEFINE N == Rounds(hits)
           Good == {n \in 0 .. N : /\ Selected(hits, f[n]) /\ Len(f[n]) \in Nat /\ Len(f[n]) <= n
                                   /\ Len(f[n]) = n \/ ToSet(f[n]) = Eligible(hits)}
<1>1. N \in Nat /\ N <= RecallLimit /\ RecallLimit \in Nat
  BY RoundsLaw
<1>2. 0 \in Good
  <2>1. PICK empty : empty = f[0]
    OBVIOUS
  <2>2. empty = <<>>
    BY <1>1, <2>1 DEF ChosenLaw
  <2>3. empty \in Seq(DOMAIN hits) /\ Len(empty) = 0 /\ DOMAIN empty = {}
    BY <2>2
  <2>4. ToSet(empty) = {}
    BY <2>3 DEF ToSet
  <2>5. Selected(hits, empty)
    BY <2>3, <2>4 DEF Selected
  <2> QED  BY <1>1, <2>1, <2>3, <2>5
<1>3. ASSUME NEW n \in 1 .. N, n - 1 \in Good PROVE n \in Good
  <2>1. PICK c, d : c = f[n - 1] /\ d = f[n]
    OBVIOUS
  <2>2. /\ Selected(hits, c) /\ Len(c) \in Nat /\ Len(c) <= n - 1
        /\ Len(c) = n - 1 \/ ToSet(c) = Eligible(hits)
    BY <1>3, <2>1
  <2>3. d = Round(hits, c)
    <3>1. n \in 0 .. N /\ n # 0
      BY <1>1
    <3> QED  BY <2>1, <3>1 DEF ChosenLaw, Round
  <2>4. Len(c) < RecallLimit
    BY <1>1, <2>2
  <2>5. /\ Selected(hits, d)
        /\ Len(d) = Len(c) + 1 \/ ToSet(d) = Eligible(hits)
        /\ ToSet(c) = Eligible(hits) => d = c
    BY <2>2, <2>3, <2>4, RoundSelects
  <2>6. Len(d) \in Nat /\ (d = c \/ Len(d) = Len(c) + 1)
    <3>1. c \in Seq(DOMAIN hits)
      BY <2>2 DEF Selected
    <3>2. d \in Seq(DOMAIN hits)
      BY <2>5 DEF Selected
    <3> QED  BY <2>3, <3>1, <3>2 DEF Round
  <2>7. Len(d) <= n /\ (Len(d) = n \/ ToSet(d) = Eligible(hits))
    BY <2>2, <2>5, <2>6
  <2>8. n \in 0 .. N
    BY <1>1
  <2> QED  BY <2>1, <2>5, <2>6, <2>7, <2>8
<1>4. \A n \in 0 .. N : n \in Good
  <2> HIDE DEF Good, N
  <2> QED  BY <1>1, <1>2, <1>3, Upward
<1>5. N \in Good
  BY <1>1, <1>4
<1> QED  BY <1>5

\* What the rounds leave selected is what is to be expected.
LEMMA SelectedExpected ==
    ASSUME NEW hits \in Seq(AnyHit), NEW c, Selected(hits, c), Len(c) <= Rounds(hits),
           Len(c) = Rounds(hits) \/ ToSet(c) = Eligible(hits)
    PROVE  ToSet(c) = Expected(hits)
<1> DEFINE E == Eligible(hits)
           S == ToSet(c)
           Ahead(i) == {j \in E : Better(hits, j, i)}
<1>1. /\ Rounds(hits) \in Nat /\ Rounds(hits) <= RecallLimit /\ RecallLimit \in Nat
      /\ Len(hits) \in Nat /\ (Rounds(hits) = RecallLimit \/ Rounds(hits) = Len(hits))
  BY RoundsLaw
<1>2. c \in Seq(DOMAIN hits) /\ Len(c) \in Nat /\ S \subseteq E /\ E \subseteq DOMAIN hits
  BY DEF Selected, Eligible
<1>3. IsFiniteSet(DOMAIN hits) /\ Cardinality(DOMAIN hits) = Len(hits)
  <2>1. PICK m \in Nat : m = Len(hits)
    BY <1>1
  <2>2. DOMAIN hits = 1 .. m
    BY <2>1
  <2>3. IsFiniteSet(1 .. m) /\ Cardinality(1 .. m) = m
    BY FS_Interval
  <2> QED  BY <2>1, <2>2, <2>3
<1>4. IsFiniteSet(S) /\ Cardinality(S) = Len(c)
  <2>1. CASE DOMAIN hits = {}
    <3>1. S = {}
      BY <1>2, <2>1
    <3>2. Len(c) = 0
      <4>1. SUFFICES ASSUME Len(c) # 0 PROVE FALSE
        OBVIOUS
      <4>2. 1 \in DOMAIN c
        BY <1>2, <4>1
      <4>3. c[1] \in S
        BY <4>2 DEF ToSet
      <4> QED  BY <3>1, <4>3
    <3> QED  BY <3>1, <3>2, FS_EmptySet
  <2>2. CASE DOMAIN hits # {}
    <3>1. PICK i \in DOMAIN hits : TRUE
      BY <2>2
    <3> QED  BY <3>1, SelectedCounts
  <2> QED  BY <2>1, <2>2
<1>5. IsFiniteSet(E) /\ \A i \in E : IsFiniteSet(Ahead(i)) /\ Cardinality(Ahead(i)) \in Nat
  <2>1. IsFiniteSet(E)
    BY <1>2, <1>3, FS_Subset
  <2>2. \A i \in E : Ahead(i) \in SUBSET E
    OBVIOUS
  <2> HIDE DEF E, Ahead
  <2> QED  BY <2>1, <2>2, FS_Subset, FS_CardinalityType
<1>6. ASSUME NEW i \in S PROVE i \in Expected(hits)
  <2>1. Ahead(i) \in SUBSET (S \ {i})
    BY <1>2, BetterOrder DEF Selected
  <2>2. IsFiniteSet(S \ {i}) /\ Cardinality(S \ {i}) = Cardinality(S) - 1
    BY <1>4, <1>6, FS_RemoveElement
  <2>3. Cardinality(Ahead(i)) <= Cardinality(S \ {i})
    <3> HIDE DEF S, Ahead
    <3> QED  BY <2>1, <2>2, FS_Subset
  <2>4. Cardinality(Ahead(i)) < RecallLimit
    <3>1. Cardinality(Ahead(i)) \in Nat
      BY <1>2, <1>5, <1>6
    <3> HIDE DEF Ahead, S
    <3> QED  BY <1>1, <1>2, <1>4, <2>2, <2>3, <3>1
  <2> QED  BY <1>2, <1>6, <2>4 DEF Expected
<1>7. ASSUME NEW i \in E, i \notin S PROVE i \notin Expected(hits)
  <2>1. S \in SUBSET Ahead(i)
    BY <1>2, <1>7, BetterOrder DEF Selected
  <2>2. Cardinality(S) <= Cardinality(Ahead(i))
    <3>1. IsFiniteSet(Ahead(i))
      BY <1>5, <1>7
    <3> HIDE DEF S, Ahead
    <3> QED  BY <2>1, <3>1, FS_Subset
  <2>3. Len(c) = Rounds(hits)
    BY <1>7
  <2>4. Len(c) # Len(hits)
    <3>1. SUFFICES ASSUME Len(c) = Len(hits) PROVE FALSE
      OBVIOUS
    <3>2. S \in SUBSET DOMAIN hits /\ Cardinality(S) = Cardinality(DOMAIN hits)
      BY <1>2, <1>3, <1>4, <3>1
    <3>3. S = DOMAIN hits
      <4> HIDE DEF S
      <4> QED  BY <1>3, <3>2, FS_Subset
    <3> QED  BY <1>2, <1>7, <3>3
  <2>5. Len(c) = RecallLimit
    BY <1>1, <2>3, <2>4
  <2>6. ~ (Cardinality(Ahead(i)) < RecallLimit)
    <3>1. Cardinality(Ahead(i)) \in Nat
      BY <1>5, <1>7
    <3> HIDE DEF Ahead, S
    <3> QED  BY <1>1, <1>4, <2>2, <2>5, <3>1
  <2> QED  BY <1>7, <2>6 DEF Expected
<1>8. Expected(hits) \subseteq E
  BY DEF Expected
<1> QED  BY <1>6, <1>7, <1>8

\* The quotas, the limit and the order of what is recalled.
LEMMA Ranked ==
    ASSUME NEW hits \in Seq(AnyHit)
    PROVE  /\ ToSet(RankRecall(hits)) = {hits[i] : i \in Expected(hits)}
           /\ \A i, j \in DOMAIN RankRecall(hits) :
                i < j => recallScore(RankRecall(hits)[j]) <= recallScore(RankRecall(hits)[i])
           /\ Len(RankRecall(hits)) = Cardinality(Expected(hits))
           /\ RankRecall(hits) \in Seq(AnyHit)
<1>1. PICK f : /\ ChosenLaw(hits, f)
               /\ RankRecall(hits) = [k \in DOMAIN f[Rounds(hits)] |-> hits[f[Rounds(hits)][k]]]
  BY ChosenExists
<1>2. PICK c : c = f[Rounds(hits)]
  OBVIOUS
<1>3. /\ Selected(hits, c) /\ Len(c) \in Nat /\ Len(c) <= Rounds(hits)
      /\ Len(c) = Rounds(hits) \/ ToSet(c) = Eligible(hits)
  BY <1>1, <1>2, ChosenSelected
<1>4. ToSet(c) = Expected(hits)
  BY <1>3, SelectedExpected
<1>5. PICK out : out = RankRecall(hits)
  OBVIOUS
<1>6. out = [k \in DOMAIN c |-> hits[c[k]]]
  BY <1>1, <1>2, <1>5
<1>7. c \in Seq(DOMAIN hits)
  BY <1>3 DEF Selected
<1>8. ToSet(out) = {hits[i] : i \in Expected(hits)}
  <2>1. ToSet(out) = {hits[c[k]] : k \in DOMAIN c}
    BY <1>6 DEF ToSet
  <2>2. ToSet(c) = {c[k] : k \in DOMAIN c}
    BY DEF ToSet
  <2> QED  BY <1>4, <2>1, <2>2
<1>9. Len(out) = Cardinality(Expected(hits))
  <2>1. DOMAIN out = 1 .. Len(c)
    BY <1>6, <1>7
  <2>2. out \in Seq(AnyHit)
    BY <1>6, <1>7
  <2>3. Len(out) = Len(c)
    BY <1>3, <2>1, <2>2
  <2>4. CASE DOMAIN hits = {}
    <3>1. Len(c) = 0
      <4>1. SUFFICES ASSUME Len(c) # 0 PROVE FALSE
        OBVIOUS
      <4> QED  BY <1>7, <2>4, <4>1
    <3>2. Expected(hits) = {}
      BY <2>4 DEF Expected, Eligible
    <3> QED  BY <2>3, <3>1, <3>2, FS_EmptySet
  <2>5. CASE DOMAIN hits # {}
    <3>1. PICK i \in DOMAIN hits : TRUE
      BY <2>5
    <3>2. Cardinality(ToSet(c)) = Len(c)
      BY <1>3, <3>1, SelectedCounts
    <3> QED  BY <1>4, <2>3, <3>2
  <2> QED  BY <2>4, <2>5
<1>10. ASSUME NEW i \in DOMAIN out, NEW j \in DOMAIN out, i < j
       PROVE  recallScore(out[j]) <= recallScore(out[i])
  <2>1. i \in DOMAIN c /\ j \in DOMAIN c /\ out[i] = hits[c[i]] /\ out[j] = hits[c[j]]
    BY <1>6
  <2>2. Better(hits, c[i], c[j])
    BY <1>3, <1>10, <2>1 DEF Selected
  <2>3. c[i] \in DOMAIN hits /\ c[j] \in DOMAIN hits
    BY <1>7, <2>1
  <2>4. hits[c[i]] \in AnyHit /\ hits[c[j]] \in AnyHit
    BY <2>3
  <2>5. recallScore(hits[c[i]]) \in Int /\ recallScore(hits[c[j]]) \in Int
    BY <2>4, ScoreType
  <2> QED  BY <2>1, <2>2, <2>5 DEF Better
<1>11. out \in Seq(AnyHit)
  BY <1>6, <1>7
<1> QED  BY <1>5, <1>8, <1>9, <1>10, <1>11

-----------------------------------------------------------------------------
(* The fresh tail *)

SizesOf(rows, ids) == [i \in ids |-> rows[i].tokens]

LEMMA SizeCounts ==
    ASSUME NEW rows, NEW I, IsFiniteSet(I), \A i \in I : rows[i].tokens \in Nat
    PROVE  tokensOf(rows, I) = Cardinality(Units(SizesOf(rows, I), I))
<1> DEFINE f == SizesOf(rows, I)
           Law(sum) == sum = [s \in SUBSET I |->
                                IF s = {} THEN 0 ELSE rows[Pick(s)].tokens + sum[s \ {Pick(s)}]]
<1>1. \A s \in SUBSET I : s # {} => Pick(s) \in I
  BY DEF Pick
<1>2. \A i \in I : f[i] = rows[i].tokens /\ f[i] \in Nat
  BY DEF SizesOf
<1>3. ASSUME NEW sum PROVE Law(sum) <=> SumsOver(sum, f, I)
  <2>1. \A s \in SUBSET I : s # {} => f[Pick(s)] = rows[Pick(s)].tokens
    BY <1>1, <1>2
  <2> HIDE DEF f
  <2> QED  BY <2>1 DEF SumsOver
<1>4. \E sum : Law(sum)
  <2> HIDE DEF f, Law
  <2> QED  BY <1>2, <1>3, SumsOverExists
<1>5. \E sum : Law(sum) /\ tokensOf(rows, I) = sum[I]
  <2>1. tokensOf(rows, I) = (CHOOSE sum : Law(sum))[I]
    BY DEF tokensOf, MapThenSumSet, MapThenFoldSet, Pick
  <2> HIDE DEF Law
  <2> QED  BY <1>4, <2>1
<1> HIDE DEF f, Law
<1> QED  BY <1>2, <1>3, <1>5, SumsOverCounts DEF f

LEMMA SizeGrows ==
    ASSUME NEW rows, NEW I, IsFiniteSet(I), \A i \in I : rows[i].tokens \in Nat, NEW J \in SUBSET I
    PROVE  /\ tokensOf(rows, J) <= tokensOf(rows, I)
           /\ tokensOf(rows, J) \in Nat /\ tokensOf(rows, I) \in Nat
<1> DEFINE f == SizesOf(rows, I)
<1>1. \A i \in I : f[i] \in Nat /\ f[i] = rows[i].tokens
  BY DEF SizesOf
<1>2. IsFiniteSet(J) /\ \A i \in J : rows[i].tokens \in Nat
  BY FS_Subset
<1>3. Units(SizesOf(rows, J), J) = Units(f, J)
  BY <1>1 DEF Units, SizesOf
<1> HIDE DEF f
<1>4. /\ Cardinality(Units(f, J)) <= Cardinality(Units(f, I))
      /\ Cardinality(Units(f, J)) \in Nat
  BY <1>1, UnitsSplit
<1>5. Cardinality(Units(f, I)) \in Nat
  <2>1. I \in SUBSET I
    OBVIOUS
  <2> QED  BY <1>1, <2>1, UnitsSplit
<1>6. tokensOf(rows, J) = Cardinality(Units(f, J)) /\ tokensOf(rows, I) = Cardinality(Units(f, I))
  BY <1>2, <1>3, SizeCounts DEF f
<1> QED  BY <1>4, <1>5, <1>6

\* The rows that a sum does not look at do not change it.
LEMMA SizeSame ==
    ASSUME NEW rows, NEW more, NEW I, IsFiniteSet(I), \A i \in I : rows[i].tokens \in Nat,
           \A i \in I : more[i] = rows[i]
    PROVE  tokensOf(more, I) = tokensOf(rows, I)
<1>1. SizesOf(more, I) = SizesOf(rows, I)
  BY DEF SizesOf
<1>2. tokensOf(more, I) = Cardinality(Units(SizesOf(more, I), I))
  BY SizeCounts
<1> QED  BY <1>1, <1>2, SizeCounts

LEMMA NewestExists ==
    ASSUME NEW n \in Nat, NEW ids, ids \subseteq 1 .. n, ids # {}
    PROVE  Newest(ids) \in ids /\ \A j \in ids : j <= Newest(ids)
<1> DEFINE Back == {n - i : i \in ids}
<1>1. Back \subseteq Nat /\ Back # {}
  OBVIOUS
<1>2. PICK m \in Back : \A k \in Back : m <= k
  <2> HIDE DEF Back
  <2> QED  BY <1>1, LeastNumber
<1>3. PICK i \in ids : m = n - i
  BY <1>2
<1>4. ASSUME NEW j \in ids PROVE j <= i
  <2>1. n - j \in Back
    OBVIOUS
  <2>2. n - i <= n - j
    BY <1>2, <1>3, <2>1
  <2> QED  BY <2>2
<1> QED  BY <1>4 DEF Newest

Rows == Conversational(OwnMessages)

Full(ids) == Cardinality(ids) >= FreshTailCount /\ tokensOf(log, ids) >= FreshTailSize

TailStep(ids) == IF Full(ids) \/ Rows \subseteq ids THEN ids ELSE ids \cup {Newest(Rows \ ids)}

TailLaw(tail) ==
    tail = [n \in 0 .. MaxFreshTailRows |->
              IF n = 0 THEN {}
              ELSE LET ids == tail[n - 1]
                   IN  IF \/ Cardinality(ids) >= FreshTailCount /\ tokensOf(log, ids) >= FreshTailSize
                          \/ Rows \subseteq ids
                       THEN ids ELSE ids \cup {Newest(Rows \ ids)}]

LEMMA RowsLaw ==
    ASSUME log \in Seq(MessageRows)
    PROVE  /\ Len(log) \in Nat /\ DOMAIN log = 1 .. Len(log) /\ IsFiniteSet(DOMAIN log)
           /\ Rows \subseteq 1 .. Len(log) /\ IsFiniteSet(Rows)
           /\ \A i \in DOMAIN log : log[i].tokens \in Nat
<1>1. Len(log) \in Nat /\ DOMAIN log = 1 .. Len(log) /\ \A i \in DOMAIN log : log[i] \in MessageRows
  OBVIOUS
<1>2. IsFiniteSet(DOMAIN log)
  BY <1>1, FS_Interval
<1>3. Rows \in SUBSET DOMAIN log
  BY DEF Rows, Conversational, OwnMessages
<1>4. IsFiniteSet(Rows)
  BY <1>2, <1>3, FS_Subset
<1> QED  BY <1>1, <1>2, <1>3, <1>4 DEF MessageRows

LEMMA TailExists ==
    ASSUME log \in Seq(MessageRows)
    PROVE  \E tail : TailLaw(tail) /\ RecentConversationalMessageIDs = tail[MaxFreshTailRows]
<1> DEFINE X == SUBSET Rows
           step == [i \in 1 .. MaxFreshTailRows |-> [ids \in X |-> TailStep(ids)]]
<1>1. MaxFreshTailRows \in Nat
  BY RecallAssumption
<1>2. ASSUME NEW ids \in X PROVE TailStep(ids) \in X
  <2>1. CASE Full(ids) \/ Rows \subseteq ids
    BY <2>1 DEF TailStep
  <2>2. CASE ~ (Full(ids) \/ Rows \subseteq ids)
    <3>1. Rows \ ids # {} /\ Rows \ ids \subseteq 1 .. Len(log)
      BY <2>2, RowsLaw
    <3>2. Newest(Rows \ ids) \in Rows
      BY <3>1, RowsLaw, NewestExists
    <3> QED  BY <2>2, <3>2 DEF TailStep
  <2> QED  BY <2>1, <2>2
<1>3. step \in [1 .. MaxFreshTailRows -> [X -> X]] /\ {} \in X
  BY <1>2
<1>4. PICK tail \in [0 .. MaxFreshTailRows -> X] : Loop(tail, MaxFreshTailRows, {}, step)
  <2> HIDE DEF X, step
  <2> QED  BY <1>1, <1>3, LoopExists
<1>5. TailLaw(tail)
  <2>1. ASSUME NEW n \in 0 .. MaxFreshTailRows
        PROVE  tail[n] = IF n = 0 THEN {} ELSE TailStep(tail[n - 1])
    <3>1. CASE n = 0
      BY <1>4, <3>1 DEF Loop
    <3>2. CASE n # 0
      <4>1. n \in 1 .. MaxFreshTailRows /\ n - 1 \in 0 .. MaxFreshTailRows
        BY <1>1, <3>2
      <4>2. tail[n - 1] \in X /\ tail[n] = step[n][tail[n - 1]]
        BY <1>4, <4>1 DEF Loop
      <4> QED  BY <3>2, <4>1, <4>2
    <3> QED  BY <3>1, <3>2
  <2>2. tail = [n \in 0 .. MaxFreshTailRows |-> tail[n]]
    OBVIOUS
  <2> QED  BY <2>1, <2>2 DEF TailLaw, TailStep, Full
<1>6. PICK g : g = CHOOSE other : TailLaw(other)
  OBVIOUS
<1>7. RecentConversationalMessageIDs = g[MaxFreshTailRows]
  BY <1>6 DEF RecentConversationalMessageIDs, TailLaw, Rows
<1> QED  BY <1>5, <1>6, <1>7

\* The newest rows, and all of them up to the oldest taken.
TailOK(ids) == ids \subseteq Rows /\ \A i \in ids, j \in Rows : i < j => j \in ids

LEMMA TailTaken ==
    ASSUME log \in Seq(MessageRows)
    PROVE  /\ TailOK(RecentConversationalMessageIDs)
           /\ \/ Cardinality(RecentConversationalMessageIDs) = MaxFreshTailRows
              \/ Full(RecentConversationalMessageIDs)
              \/ Rows \subseteq RecentConversationalMessageIDs
<1> DEFINE N == MaxFreshTailRows
<1>1. PICK tail : TailLaw(tail) /\ RecentConversationalMessageIDs = tail[N]
  BY TailExists
<1> DEFINE Good == {n \in 0 .. N : /\ TailOK(tail[n])
                                   /\ \/ Cardinality(tail[n]) = n
                                      \/ Full(tail[n])
                                      \/ Rows \subseteq tail[n]}
<1>2. N \in Nat
  BY RecallAssumption
<1>3. 0 \in Good
  <2>1. tail[0] = {}
    BY <1>1, <1>2 DEF TailLaw
  <2>2. TailOK({}) /\ Cardinality({}) = 0
    BY FS_EmptySet DEF TailOK
  <2>3. 0 \in 0 .. N
    BY <1>2
  <2> QED  BY <2>1, <2>2, <2>3
<1>4. ASSUME NEW n \in 1 .. N, n - 1 \in Good PROVE n \in Good
  <2>1. PICK ids, next : ids = tail[n - 1] /\ next = tail[n]
    OBVIOUS
  <2>2. /\ TailOK(ids)
        /\ Cardinality(ids) = n - 1 \/ Full(ids) \/ Rows \subseteq ids
    BY <1>4, <2>1
  <2>3. next = TailStep(ids)
    <3>1. n \in 0 .. N /\ n # 0
      BY <1>2
    <3> QED  BY <1>1, <2>1, <3>1 DEF TailLaw, TailStep, Full
  <2>4. CASE Full(ids) \/ Rows \subseteq ids
    <3>1. next = ids
      BY <2>3, <2>4 DEF TailStep
    <3>2. n \in 0 .. N
      BY <1>2
    <3>3. TailOK(tail[n]) /\ (Full(tail[n]) \/ Rows \subseteq tail[n])
      BY <2>1, <2>2, <2>4, <3>1
    <3> QED  BY <3>2, <3>3
  <2>5. CASE ~ (Full(ids) \/ Rows \subseteq ids)
    <3>1. PICK i : i = Newest(Rows \ ids)
      OBVIOUS
    <3>2. Rows \ ids # {} /\ Rows \ ids \subseteq 1 .. Len(log) /\ Len(log) \in Nat
      BY <2>5, RowsLaw
    <3>3. i \in Rows \ ids /\ \A j \in Rows \ ids : j <= i
      BY <3>1, <3>2, NewestExists
    <3>4. next = ids \cup {i}
      BY <2>3, <2>5, <3>1 DEF TailStep
    <3>5. IsFiniteSet(ids)
      BY <2>2, RowsLaw, FS_Subset DEF TailOK
    <3>6. Cardinality(next) = n
      <4>1. Cardinality(ids) = n - 1 /\ n \in Nat
        BY <1>2, <2>2, <2>5
      <4>2. Cardinality(ids \cup {i}) = Cardinality(ids) + 1
        BY <3>3, <3>5, FS_AddElement
      <4> QED  BY <3>4, <4>1, <4>2
    <3>7. TailOK(next)
      <4>1. next \subseteq Rows
        BY <2>2, <3>3, <3>4 DEF TailOK
      <4>2. ASSUME NEW k \in next, NEW j \in Rows, k < j PROVE j \in next
        <5>1. CASE k \in ids
          BY <2>2, <3>4, <4>2, <5>1 DEF TailOK
        <5>2. CASE k = i
          <6>1. i \in Nat /\ j \in Nat
            BY <3>3, RowsLaw
          <6>2. j \notin Rows \ ids
            BY <3>3, <4>2, <5>2, <6>1
          <6> QED  BY <3>4, <6>2
        <5> QED  BY <3>4, <5>1, <5>2
      <4> QED  BY <4>1, <4>2 DEF TailOK
    <3> QED  BY <1>2, <2>1, <3>6, <3>7
  <2> QED  BY <2>4, <2>5
<1>5. \A n \in 0 .. N : n \in Good
  <2> HIDE DEF Good, N
  <2> QED  BY <1>2, <1>3, <1>4, Upward
<1>6. N \in Good
  BY <1>2, <1>5
<1> QED  BY <1>1, <1>6

\* What Fresh says, of any log.
LaterIn(rows, before, i) ==
    {j \in DOMAIN rows : j > i /\ j <= before /\ rows[j].own /\ rows[j].role # "tool"}

FreshIn(rows, before, i) ==
    /\ i <= before /\ rows[i].own /\ rows[i].role # "tool"
    /\ Cardinality(LaterIn(rows, before, i)) < MaxFreshTailRows
    /\ \/ Cardinality(LaterIn(rows, before, i)) < FreshTailCount
       \/ tokensOf(rows, LaterIn(rows, before, i)) < FreshTailSize

LEMMA TailHoldsFresh ==
    ASSUME log \in Seq(MessageRows), NEW i \in DOMAIN log, FreshIn(log, Len(log), i)
    PROVE  i \in RecentConversationalMessageIDs
<1>1. SUFFICES ASSUME i \notin RecentConversationalMessageIDs PROVE FALSE
  OBVIOUS
<1>2. PICK ids, later : ids = RecentConversationalMessageIDs /\ later = LaterIn(log, Len(log), i)
  OBVIOUS
<1>3. TailOK(ids) /\ (Cardinality(ids) = MaxFreshTailRows \/ Full(ids) \/ Rows \subseteq ids)
  BY <1>2, TailTaken
<1>4. i \in Rows /\ i \notin ids
  BY <1>1, <1>2 DEF FreshIn, Rows, Conversational, OwnMessages
<1>5. ids \in SUBSET later
  <2> SUFFICES ASSUME NEW j \in ids PROVE j \in later
    OBVIOUS
  <2>1. j \in Rows /\ j \in 1 .. Len(log) /\ i \in 1 .. Len(log) /\ Len(log) \in Nat
    BY <1>3, RowsLaw DEF TailOK
  <2>2. j # i /\ ~ (j < i)
    BY <1>3, <1>4, <2>1 DEF TailOK
  <2>3. j > i /\ j <= Len(log)
    BY <2>1, <2>2
  <2> QED  BY <1>2, <2>1, <2>3 DEF LaterIn, Rows, Conversational, OwnMessages
<1>6. IsFiniteSet(later) /\ \A j \in later : log[j].tokens \in Nat
  <2>1. later \in SUBSET DOMAIN log
    BY <1>2 DEF LaterIn
  <2> QED  BY <2>1, RowsLaw, FS_Subset
<1>7. /\ Cardinality(ids) <= Cardinality(later)
      /\ Cardinality(ids) \in Nat /\ Cardinality(later) \in Nat
  <2>1. IsFiniteSet(ids)
    BY <1>5, <1>6, FS_Subset
  <2> QED  BY <1>5, <1>6, <2>1, FS_Subset, FS_CardinalityType
<1>8. tokensOf(log, ids) <= tokensOf(log, later) /\ tokensOf(log, ids) \in Nat /\ tokensOf(log, later) \in Nat
  BY <1>5, <1>6, SizeGrows
<1>9. FreshTailCount \in Nat /\ FreshTailSize \in Nat /\ MaxFreshTailRows \in Nat
  BY RecallAssumption
<1>10. /\ Cardinality(later) < MaxFreshTailRows
       /\ Cardinality(later) < FreshTailCount \/ tokensOf(log, later) < FreshTailSize
  BY <1>2 DEF FreshIn
<1>11. ~ Full(ids) /\ Cardinality(ids) # MaxFreshTailRows
  BY <1>7, <1>8, <1>9, <1>10 DEF Full
<1> QED  BY <1>3, <1>4, <1>11

\* What arrives later does not change what was fresh.
LEMMA FreshStays ==
    ASSUME NEW rows \in Seq(MessageRows), NEW message \in MessageRows,
           NEW before \in Nat, before <= Len(rows), NEW i \in 1 .. before,
           FreshIn(Append(rows, message), before, i)
    PROVE  FreshIn(rows, before, i)
<1>1. PICK more : more = Append(rows, message)
  OBVIOUS
<1>2. /\ Len(rows) \in Nat /\ DOMAIN rows = 1 .. Len(rows)
      /\ DOMAIN more = 1 .. Len(rows) + 1
      /\ \A j \in 1 .. Len(rows) : more[j] = rows[j] /\ rows[j] \in MessageRows
  BY <1>1
<1>3. LaterIn(more, before, i) = LaterIn(rows, before, i)
  BY <1>2 DEF LaterIn
<1>4. IsFiniteSet(LaterIn(rows, before, i))
  <2>1. IsFiniteSet(1 .. Len(rows))
    BY <1>2, FS_Interval
  <2>2. LaterIn(rows, before, i) \in SUBSET (1 .. Len(rows))
    BY <1>2 DEF LaterIn
  <2> QED  BY <2>1, <2>2, FS_Subset
<1>5. \A j \in LaterIn(rows, before, i) : more[j] = rows[j] /\ rows[j].tokens \in Nat
  BY <1>2 DEF LaterIn, MessageRows
<1>6. tokensOf(more, LaterIn(rows, before, i)) = tokensOf(rows, LaterIn(rows, before, i))
  BY <1>4, <1>5, SizeSame
<1>7. more[i] = rows[i]
  BY <1>2
<1> QED  BY <1>1, <1>3, <1>6, <1>7 DEF FreshIn

-----------------------------------------------------------------------------
(* The searches *)

LEMMA FoundRows ==
    ASSUME NEW S, NEW rows \in Seq(S), NEW most \in Int, NEW found \in Hits(rows, most)
    PROVE  found \in Seq(DOMAIN rows)
<1> DEFINE M == {i \in DOMAIN rows : rows[i].matched > 0}
<1>1. PICK order \in SetToSeqs(M) : found = SubSeq(order, 1, Lesser(most, Len(order)))
  BY DEF Hits
<1>2. IsFiniteSet(M)
  <2>1. DOMAIN rows = 1 .. Len(rows) /\ Len(rows) \in Nat
    OBVIOUS
  <2>2. IsFiniteSet(DOMAIN rows)
    BY <2>1, FS_Interval
  <2>3. M \in SUBSET DOMAIN rows
    OBVIOUS
  <2> HIDE DEF M
  <2> QED  BY <2>2, <2>3, FS_Subset
<1>3. PICK n \in Nat : n = Cardinality(M)
  <2> HIDE DEF M
  <2> QED  BY <1>2, FS_CardinalityType
<1>4. order \in [1 .. n -> DOMAIN rows]
  BY <1>1, <1>3 DEF SetToSeqs
<1>5. order \in Seq(DOMAIN rows) /\ Len(order) = n
  BY <1>4
<1>6. PICK k : k = Lesser(most, Len(order))
  OBVIOUS
<1>7. k \in Int /\ k <= n
  BY <1>5, <1>6 DEF Lesser
<1>8. SubSeq(order, 1, k) \in Seq(DOMAIN rows)
  BY <1>4, <1>5, <1>7
<1> QED  BY <1>1, <1>6, <1>8

LEMMA SearchLimits == SummaryLimit \in Int /\ MessageLimit \in Int
<1>1. /\ RecallLimit \in Nat /\ CandidatesPerResult \in Nat
      /\ MaxRecallCandidates \in Nat /\ MaxSummaryCandidates \in Nat
  BY RecallAssumption
<1>2. RecallLimit * CandidatesPerResult \in Nat
  BY <1>1
<1>3. PICK total : total = Lesser(MaxRecallCandidates, RecallLimit * CandidatesPerResult)
  OBVIOUS
<1>4. total \in Nat
  BY <1>1, <1>2, <1>3 DEF Lesser
<1>5. total \div 5 \in Nat
  BY <1>4
<1>6. Greater(total \div 5, 1) \in Nat
  BY <1>5 DEF Greater
<1>7. Lesser(MaxSummaryCandidates, Greater(total \div 5, 1)) \in Nat
  BY <1>1, <1>6 DEF Lesser
<1> QED  BY <1>3, <1>4, <1>7 DEF SummaryLimit, MessageLimit

OutsideHits(excluded) == {hit \in AnyHit : hit.kind = "message" => hit.id \notin excluded}

OutLaw(found, excluded, out) ==
    out = [n \in 0 .. Len(found) |->
             IF n = 0 THEN <<>>
             ELSE IF found[n] \in excluded THEN out[n - 1]
             ELSE Append(out[n - 1], messageHit(found[n], n - 1))]

LEMMA HitsOutside ==
    ASSUME log \in Seq(MessageRows), NEW found \in Seq(DOMAIN log), NEW excluded
    PROVE  MessageRecallHits(found, excluded) \in Seq(OutsideHits(excluded))
<1> DEFINE N == Len(found)
           X == Seq(OutsideHits(excluded))
           step == [n \in 1 .. N |->
                      [out \in X |-> IF found[n] \in excluded THEN out
                                     ELSE Append(out, messageHit(found[n], n - 1))]]
<1>1. N \in Nat
  OBVIOUS
<1>2. ASSUME NEW n \in 1 .. N, found[n] \notin excluded
      PROVE  messageHit(found[n], n - 1) \in OutsideHits(excluded)
  <2>1. found[n] \in DOMAIN log /\ log[found[n]] \in MessageRows /\ found[n] \in Nat \ {0} /\ n - 1 \in Nat
    BY <1>2
  <2>2. messageHit(found[n], n - 1) \in [kind : {"message"}, id : Nat \ {0}, row : MessageRows, rank : Nat]
    BY <2>1 DEF messageHit
  <2>3. messageHit(found[n], n - 1).id = found[n]
    BY DEF messageHit
  <2> QED  BY <1>2, <2>2, <2>3 DEF OutsideHits, AnyHit
<1>3. step \in [1 .. N -> [X -> X]] /\ <<>> \in X
  <2>1. ASSUME NEW n \in 1 .. N, NEW out \in X
        PROVE  (IF found[n] \in excluded THEN out ELSE Append(out, messageHit(found[n], n - 1))) \in X
    <3>1. CASE found[n] \in excluded
      BY <3>1
    <3>2. CASE found[n] \notin excluded
      BY <1>2, <3>2
    <3> QED  BY <3>1, <3>2
  <2> HIDE DEF X
  <2>2. step \in [1 .. N -> [X -> X]]
    BY <2>1
  <2> QED  BY <2>2 DEF X
<1>4. PICK out \in [0 .. N -> X] : Loop(out, N, <<>>, step)
  <2> HIDE DEF X, step
  <2> QED  BY <1>1, <1>3, LoopExists
<1>5. OutLaw(found, excluded, out)
  <2>1. ASSUME NEW n \in 0 .. N
        PROVE  out[n] = IF n = 0 THEN <<>>
                        ELSE IF found[n] \in excluded THEN out[n - 1]
                        ELSE Append(out[n - 1], messageHit(found[n], n - 1))
    <3>1. CASE n = 0
      BY <1>4, <3>1 DEF Loop
    <3>2. CASE n # 0
      <4>1. n \in 1 .. N /\ n - 1 \in 0 .. N
        BY <1>1, <3>2
      <4>2. out[n - 1] \in X /\ out[n] = step[n][out[n - 1]]
        BY <1>4, <4>1 DEF Loop
      <4> HIDE DEF X
      <4> QED  BY <3>2, <4>1, <4>2
    <3> QED  BY <3>1, <3>2
  <2>2. out = [n \in 0 .. N |-> out[n]]
    OBVIOUS
  <2> QED  BY <2>1, <2>2 DEF OutLaw
<1>6. PICK g : g = CHOOSE other : OutLaw(found, excluded, other)
  OBVIOUS
<1>7. OutLaw(found, excluded, g)
  BY <1>5, <1>6
<1>8. MessageRecallHits(found, excluded) = g[N]
  BY <1>6 DEF MessageRecallHits, OutLaw
<1> DEFINE Good == {n \in 0 .. N : g[n] \in X}
<1>9. 0 \in Good
  BY <1>1, <1>3, <1>7 DEF OutLaw
<1>10. ASSUME NEW n \in 1 .. N, n - 1 \in Good PROVE n \in Good
  <2>1. n \in 0 .. N /\ n # 0 /\ g[n - 1] \in X
    BY <1>10
  <2>2. g[n] = IF found[n] \in excluded THEN g[n - 1] ELSE Append(g[n - 1], messageHit(found[n], n - 1))
    BY <1>7, <2>1 DEF OutLaw
  <2>3. CASE found[n] \in excluded
    BY <2>1, <2>2, <2>3
  <2>4. CASE found[n] \notin excluded
    <3>1. Append(g[n - 1], messageHit(found[n], n - 1)) \in X
      BY <1>2, <2>1, <2>4
    <3> QED  BY <2>1, <2>2, <2>4, <3>1
  <2> QED  BY <2>3, <2>4
<1>11. \A n \in 0 .. N : n \in Good
  <2> HIDE DEF Good, N
  <2> QED  BY <1>1, <1>9, <1>10, Upward
<1>12. N \in Good
  BY <1>1, <1>11
<1> QED  BY <1>8, <1>12

-----------------------------------------------------------------------------
(* The hook *)

\* The hook holds every message that was fresh when it read the tail, and hits
\* outside what it holds; what it recalls is the ranking of its hits.
RecallInv ==
    /\ log \in Seq(MessageRows) /\ summaries \in Seq(SummaryRows)
    /\ hook \in [at : {"tail", "messages", "summaries", "done"}, tail : SUBSET Nat, before : Nat,
                 found : Seq(AnyHit), hits : Seq(AnyHit), recalled : Seq(AnyHit)]
    /\ hook.before <= Len(log)
    /\ hook.at # "tail" => \A i \in 1 .. hook.before : Fresh(i) => i \in hook.tail
    /\ hook.at = "summaries" => hook.found \in Seq(OutsideHits(hook.tail))
    /\ hook.at = "done" => /\ hook.hits \in Seq(OutsideHits(hook.tail))
                           /\ hook.recalled = RankRecall(hook.hits)

LEMMA RecallInvInit == RecallInit => RecallInv
<1> SUFFICES ASSUME RecallInit PROVE RecallInv
  OBVIOUS
<1>1. log = <<>> /\ summaries = <<>> /\ hook = NoRecall
  BY DEF RecallInit
<1>2. PICK empty : empty = <<>>
  OBVIOUS
<1>3. \A S : empty \in Seq(S)
  BY <1>2
<1>4. Len(log) = 0
  BY <1>1
<1>5. hook = [at |-> "tail", tail |-> {}, before |-> 0, found |-> empty, hits |-> empty, recalled |-> empty]
  BY <1>1, <1>2 DEF NoRecall
<1>6. log \in Seq(MessageRows) /\ summaries \in Seq(SummaryRows)
  BY <1>1, <1>2, <1>3
<1> QED  BY <1>3, <1>4, <1>5, <1>6 DEF RecallInv

LEMMA ReadTailInv == ASSUME RecallInv, ReadTail PROVE RecallInv'
<1>1. PICK ids, n : ids = RecentConversationalMessageIDs /\ n = Len(log)
  OBVIOUS
<1>2. /\ log' = log /\ summaries' = summaries /\ hook.at = "tail"
      /\ hook' = [hook EXCEPT !.at = "messages", !.tail = ids, !.before = n]
  BY <1>1 DEF ReadTail
<1>3. log \in Seq(MessageRows) /\ n \in Nat
  BY <1>1 DEF RecallInv
<1>4. ids \in SUBSET Nat
  <2>1. ids \subseteq 1 .. n
    BY <1>1, <1>3, TailTaken, RowsLaw DEF TailOK
  <2> QED  BY <1>3, <2>1
<1>5. /\ hook' \in [at : {"tail", "messages", "summaries", "done"}, tail : SUBSET Nat, before : Nat,
                    found : Seq(AnyHit), hits : Seq(AnyHit), recalled : Seq(AnyHit)]
      /\ hook'.at = "messages" /\ hook'.before = n /\ hook'.tail = ids
  BY <1>2, <1>3, <1>4 DEF RecallInv
<1>6. ASSUME NEW i \in 1 .. n, Fresh(i)' PROVE i \in ids
  <2>1. FreshIn(log, n, i)
    BY <1>2, <1>5, <1>6 DEF Fresh, FreshIn, LaterIn
  <2>2. i \in DOMAIN log
    BY <1>1, <1>3
  <2> QED  BY <1>1, <1>3, <2>1, <2>2, TailHoldsFresh
<1> QED  BY <1>1, <1>2, <1>3, <1>5, <1>6 DEF RecallInv

LEMMA SearchMessagesInv == ASSUME RecallInv, SearchMessages PROVE RecallInv'
<1>1. PICK found \in Hits(log, MessageLimit) :
          hook' = [hook EXCEPT !.at = "summaries", !.found = MessageRecallHits(found, hook.tail)]
  BY DEF SearchMessages
<1>2. log' = log /\ summaries' = summaries /\ hook.at = "messages"
  BY DEF SearchMessages
<1>3. PICK out, tail : out = MessageRecallHits(found, tail) /\ tail = hook.tail
  OBVIOUS
<1>4. out \in Seq(OutsideHits(tail))
  <2>1. found \in Seq(DOMAIN log)
    BY SearchLimits, FoundRows DEF RecallInv
  <2> QED  BY <1>3, <2>1, HitsOutside DEF RecallInv
<1>5. out \in Seq(AnyHit)
  BY <1>4 DEF OutsideHits
<1>6. /\ hook' \in [at : {"tail", "messages", "summaries", "done"}, tail : SUBSET Nat, before : Nat,
                    found : Seq(AnyHit), hits : Seq(AnyHit), recalled : Seq(AnyHit)]
      /\ hook'.at = "summaries" /\ hook'.before = hook.before /\ hook'.tail = tail /\ hook'.found = out
  BY <1>1, <1>3, <1>5 DEF RecallInv
<1>7. ASSUME NEW i \in 1 .. hook.before, Fresh(i)' PROVE i \in hook.tail
  <2>1. Fresh(i)
    BY <1>2, <1>6, <1>7 DEF Fresh
  <2> QED  BY <1>2, <2>1 DEF RecallInv
<1> QED  BY <1>2, <1>3, <1>4, <1>6, <1>7 DEF RecallInv

LEMMA SearchSummariesInv == ASSUME RecallInv, SearchSummaries PROVE RecallInv'
<1>1. PICK found \in Hits(summaries, SummaryLimit) :
          LET hits == hook.found \o [r \in DOMAIN found |-> summaryHit(found[r], r - 1)]
          IN  hook' = [hook EXCEPT !.at = "done", !.hits = hits, !.recalled = RankRecall(hits)]
  BY DEF SearchSummaries
<1>2. log' = log /\ summaries' = summaries /\ hook.at = "summaries"
  BY DEF SearchSummaries
<1>3. PICK more : more = [r \in DOMAIN found |-> summaryHit(found[r], r - 1)]
  OBVIOUS
<1>4. PICK hits, tail : hits = hook.found \o more /\ tail = hook.tail
  OBVIOUS
<1>5. PICK out : out = RankRecall(hits)
  OBVIOUS
<1>6. more \in Seq(OutsideHits(tail))
  <2>1. found \in Seq(DOMAIN summaries) /\ summaries \in Seq(SummaryRows)
    BY SearchLimits, FoundRows DEF RecallInv
  <2>2. ASSUME NEW r \in DOMAIN found PROVE more[r] \in OutsideHits(tail)
    <3>1. /\ found[r] \in DOMAIN summaries /\ summaries[found[r]] \in SummaryRows
          /\ found[r] \in Nat \ {0} /\ r - 1 \in Nat
      BY <2>1
    <3>2. summaryHit(found[r], r - 1) \in [kind : {"summary"}, id : Nat \ {0}, row : SummaryRows, rank : Nat]
      BY <3>1 DEF summaryHit
    <3>3. summaryHit(found[r], r - 1).kind # "message"
      BY DEF summaryHit
    <3> QED  BY <1>3, <3>2, <3>3 DEF OutsideHits, AnyHit
  <2>3. DOMAIN found = 1 .. Len(found) /\ Len(found) \in Nat
    BY <2>1
  <2> QED  BY <1>3, <2>2, <2>3
<1>7. hits \in Seq(OutsideHits(tail))
  BY <1>2, <1>4, <1>6 DEF RecallInv
<1>8. hits \in Seq(AnyHit)
  BY <1>7 DEF OutsideHits
<1>9. out \in Seq(AnyHit)
  BY <1>5, <1>8, Ranked
<1>10. hook' = [hook EXCEPT !.at = "done", !.hits = hits, !.recalled = out]
  BY <1>1, <1>3, <1>4, <1>5
<1>11. /\ hook' \in [at : {"tail", "messages", "summaries", "done"}, tail : SUBSET Nat, before : Nat,
                     found : Seq(AnyHit), hits : Seq(AnyHit), recalled : Seq(AnyHit)]
       /\ hook'.at = "done" /\ hook'.before = hook.before /\ hook'.tail = tail
       /\ hook'.hits = hits /\ hook'.recalled = out
  BY <1>4, <1>8, <1>9, <1>10 DEF RecallInv
<1>12. ASSUME NEW i \in 1 .. hook.before, Fresh(i)' PROVE i \in hook.tail
  <2>1. Fresh(i)
    BY <1>2, <1>4, <1>11, <1>12 DEF Fresh
  <2> QED  BY <1>2, <2>1 DEF RecallInv
<1>13. (RankRecall(hook.hits))' = RankRecall(hits)
  BY <1>11
<1> QED  BY <1>2, <1>4, <1>5, <1>7, <1>11, <1>12, <1>13 DEF RecallInv

LEMMA ArriveInv == ASSUME RecallInv, Arrive PROVE RecallInv'
<1>1. PICK message \in RecallMessages : log' = Append(log, message)
  BY DEF Arrive
<1>2. summaries' = summaries /\ hook' = hook /\ hook.at # "done"
  BY DEF Arrive
<1>3. message \in MessageRows
  BY RecallAssumption
<1>4. log \in Seq(MessageRows) /\ log' \in Seq(MessageRows) /\ Len(log') = Len(log) + 1 /\ Len(log) \in Nat
  BY <1>1, <1>3 DEF RecallInv
<1>5. hook.before \in Nat /\ hook.before <= Len(log)
  BY DEF RecallInv
<1>6. ASSUME NEW i \in 1 .. hook.before, Fresh(i)', hook.at # "tail" PROVE i \in hook.tail
  <2>1. FreshIn(Append(log, message), hook.before, i)
    BY <1>1, <1>2, <1>6 DEF Fresh, FreshIn, LaterIn
  <2>2. FreshIn(log, hook.before, i)
    BY <1>3, <1>4, <1>5, <2>1, FreshStays
  <2>3. Fresh(i)
    BY <2>2 DEF Fresh, FreshIn, LaterIn
  <2> QED  BY <1>6, <2>3 DEF RecallInv
<1>7. hook.before <= Len(log')
  BY <1>4, <1>5
<1> QED  BY <1>2, <1>4, <1>6, <1>7 DEF RecallInv

LEMMA RecallInvNext == RecallInv /\ [RecallNext]_recallVars => RecallInv'
<1> SUFFICES ASSUME RecallInv, [RecallNext]_recallVars PROVE RecallInv'
  OBVIOUS
<1>1. CASE FoldSummary
  <2>1. PICK row \in RecallSummaries : summaries' = Append(summaries, row)
    BY <1>1 DEF FoldSummary
  <2>2. log' = log /\ hook' = hook /\ hook.at # "done"
    BY <1>1 DEF FoldSummary
  <2>3. summaries' \in Seq(SummaryRows)
    BY <2>1, RecallAssumption DEF RecallInv
  <2>4. \A i : Fresh(i)' <=> Fresh(i)
    BY <2>2 DEF Fresh
  <2> QED  BY <2>2, <2>3, <2>4 DEF RecallInv
<1>2. CASE UNCHANGED recallVars
  <2>1. log' = log /\ summaries' = summaries /\ hook' = hook
    BY <1>2 DEF recallVars
  <2>2. \A i : Fresh(i)' <=> Fresh(i)
    BY <2>1 DEF Fresh
  <2> QED  BY <2>1, <2>2 DEF RecallInv
<1> QED  BY <1>1, <1>2, ArriveInv, ReadTailInv, SearchMessagesInv, SearchSummariesInv DEF RecallNext

LEMMA InvRecall == RecallInv => RecallSound
<1> SUFFICES ASSUME RecallInv, hook.at = "done" PROVE RecallSound
  BY DEF RecallSound
<1>1. PICK hits, tail : hits = hook.hits /\ tail = hook.tail
  OBVIOUS
<1>2. hits \in Seq(AnyHit) /\ hits \in Seq(OutsideHits(tail)) /\ hook.recalled = RankRecall(hits)
  BY <1>1 DEF RecallInv
<1>3. /\ ToSet(hook.recalled) = {hits[i] : i \in Expected(hits)}
      /\ \A i, j \in DOMAIN hook.recalled :
            i < j => recallScore(hook.recalled[j]) <= recallScore(hook.recalled[i])
      /\ Len(hook.recalled) = Cardinality(Expected(hits))
  BY <1>2, Ranked
<1>4. ASSUME NEW hit \in ToSet(hook.recalled), hit.kind = "message" PROVE ~ Fresh(hit.id)
  <2>1. PICK i \in Expected(hits) : hit = hits[i]
    BY <1>3
  <2>2. i \in DOMAIN hits
    BY DEF Expected, Eligible
  <2>3. hit \in OutsideHits(tail)
    BY <1>2, <2>1, <2>2
  <2>4. hit \in AnyHit /\ hit.id \notin tail
    BY <1>4, <2>3 DEF OutsideHits
  <2>5. hit.id \in Nat \ {0}
    BY <2>4 DEF AnyHit
  <2>6. SUFFICES ASSUME Fresh(hit.id) PROVE FALSE
    OBVIOUS
  <2>7. hit.id <= hook.before /\ hook.before \in Nat
    BY <2>6 DEF Fresh, RecallInv
  <2>8. hit.id \in 1 .. hook.before
    BY <2>5, <2>7
  <2> QED  BY <1>1, <2>4, <2>6, <2>8 DEF RecallInv
<1> QED  BY <1>1, <1>3, <1>4 DEF RecallSound

\* automaticRecall: what is injected into a prompt is outside the fresh tail
\* that was read, though messages arrive during the searches, and it is the
\* hits that sorting all of them by score and cutting at the quotas would
\* give, best first, whatever the searches return.
THEOREM RecallAlwaysSound == RecallSpec => []RecallSound
<1> QED  BY RecallInvInit, RecallInvNext, InvRecall, PTL DEF RecallSpec
=============================================================================
