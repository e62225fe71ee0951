----------------------------- MODULE ModelCall -----------------------------
(***************************************************************************)
(* One attempt of the sub-agent runner (internal/agentmap) over the        *)
(* streaming runner (internal/summarize/stream.go): a host CLI runs as a   *)
(* child process and writes JSON events to a pipe; the caller scans them,  *)
(* counts tools and turns, waits for the child and decides; a timer or the *)
(* map run cancels the context, on which the process group is killed.      *)
(*                                                                         *)
(* The child is external: it writes any events in any order, may be        *)
(* silent, fail, or run forever.                                           *)
(***************************************************************************)
EXTENDS Integers, Sequences

CONSTANTS
    MaxTools,      \* the request's limits
    MaxTurns,
    EventBudget,   \* maxEvents: in the code 512 + 8 * MaxTools + 16 * MaxTurns
    PipeCapacity,  \* bound: events the pipe holds
    MaxEmits       \* bound: events the child writes

ASSUME CallAssumption ==
    /\ {MaxTools, MaxTurns, EventBudget, PipeCapacity} \subseteq Nat \ {0}
    /\ MaxEmits \in Nat

VARIABLES
    cli,      \* the host: "claude-agent" or "codex-agent"
    call,     \* the caller: where it is, whether the scan failed
    state,    \* eventState
    context,  \* the call's context: "live", "cancelled" or "expired"
    child,    \* the child process
    pipe,     \* its stdout
    used      \* history: what the child has written in truth

callVars == <<cli, call, state, context, child, pipe, used>>

-----------------------------------------------------------------------------
(* Events *)

Event(type, id, tool, turns) == [type |-> type, id |-> id, tool |-> tool, turns |-> turns]

NoAnswer == 0

\* Claude repeats the ID of a message for each of its blocks; its result
\* reports the turns it counted, more than it streamed if some were silent.
ClaudeEvents ==
    [type : {"assistant"}, id : {used.turns, used.turns + 1} \ {0}, tool : BOOLEAN, turns : {0}]
    \cup [type : {"result"}, id : {NoAnswer, used.events + 1}, tool : {FALSE},
          turns : {used.turns, used.turns + 1}]
    \cup {Event("error", 0, FALSE, 0)}

CodexEvents ==
    {Event("turn.started", 0, FALSE, 0), Event("item.started", 0, TRUE, 0),
     Event("item.started", 0, FALSE, 0), Event("agent_message", used.events + 1, FALSE, 0)}

HostEvents ==
    {Event("garbage", 0, FALSE, 0)} \cup (IF cli = "claude-agent" THEN ClaudeEvents ELSE CodexEvents)

Larger(a, b) == IF a < b THEN b ELSE a

-----------------------------------------------------------------------------
(* The child *)

Turns(e) ==
    CASE e.type = "assistant" -> Larger(used.turns, e.id)
      [] e.type = "result" -> Larger(used.turns, e.turns)
      [] e.type = "turn.started" -> used.turns + 1
      [] OTHER -> used.turns

ChildEmit ==
    /\ child = "running"
    /\ Len(pipe) < PipeCapacity /\ used.events < MaxEmits
    /\ \E e \in HostEvents :
          /\ pipe' = Append(pipe, e)
          /\ used' = [tools |-> used.tools + (IF e.tool THEN 1 ELSE 0),
                      turns |-> Turns(e),
                      answer |-> IF e.type \in {"result", "agent_message"} THEN e.id ELSE used.answer,
                      broken |-> used.broken \/ e.type \in {"garbage", "error"},
                      events |-> used.events + 1]
    /\ UNCHANGED <<cli, call, state, context, child>>

ChildExit ==
    /\ child = "running"
    /\ child' \in {"exited", "crashed"}
    /\ UNCHANGED <<cli, call, state, context, pipe, used>>

-----------------------------------------------------------------------------
(* The caller *)

\* The events consumed so far; seen are the message IDs counted as turns.
NoState == [tools |-> 0, turns |-> 0, output |-> NoAnswer, seen |-> {}, events |-> 0]

Active == call.at \in {"scanning", "waiting"}

\* The child is started, or cannot be.
StartCall ==
    /\ call.at = "idle"
    /\ \/ /\ child' = "running" /\ call' = [call EXCEPT !.at = "scanning"]
       \/ /\ call' = [call EXCEPT !.at = "failed"] /\ UNCHANGED child
    /\ UNCHANGED <<cli, state, context, pipe, used>>

IgnoreReported(e) ==
    [state EXCEPT
        !.events = @ + 1,
        !.tools = IF e.type = "assistant" /\ e.tool THEN @ + 1 ELSE @,
        !.turns = IF e.type = "assistant" /\ e.id \notin state.seen THEN @ + 1 ELSE @,
        !.seen = IF e.type = "assistant" THEN @ \cup {e.id} ELSE @,
        !.output = IF e.type = "result" THEN e.id ELSE @]

\* A turn is counted once per message ID; the result's count can only raise it.
consumeClaude(e) ==
    [state EXCEPT
        !.events = @ + 1,
        !.tools = IF e.type = "assistant" /\ e.tool THEN @ + 1 ELSE @,
        !.turns = CASE e.type = "assistant" /\ e.id \notin state.seen -> @ + 1
                    [] e.type = "result" -> Larger(@, e.turns)
                    [] OTHER -> @,
        !.seen = IF e.type = "assistant" THEN @ \cup {e.id} ELSE @,
        !.output = IF e.type = "result" THEN e.id ELSE @]

\* An item that starts counts as a tool unless it is a message, a reasoning or
\* a plan; the last completed message is the answer.
consumeCodex(e) ==
    [state EXCEPT
        !.events = @ + 1,
        !.tools = IF e.type = "item.started" /\ e.tool THEN @ + 1 ELSE @,
        !.turns = IF e.type = "turn.started" THEN @ + 1 ELSE @,
        !.output = IF e.type = "agent_message" THEN e.id ELSE @]

consume(e) == IF cli = "claude-agent" THEN consumeClaude(e) ELSE consumeCodex(e)

checkLimits(s) == s.tools <= MaxTools /\ s.turns <= MaxTurns

\* One line is scanned and handled; the line beyond the budget, one that cannot
\* be decoded, an error result and an exceeded limit end the scan and cancel.
ScanEvent ==
    /\ call.at = "scanning" /\ pipe # <<>>
    /\ LET e == Head(pipe)
           next == consume(e)
       IN  IF \/ state.events = EventBudget
              \/ e.type \in {"garbage", "error"}
              \/ ~ checkLimits(next)
           THEN /\ call' = [at |-> "waiting", scanErr |-> TRUE]
                /\ context' = IF context = "live" THEN "cancelled" ELSE context
                /\ UNCHANGED state
           ELSE /\ state' = next
                /\ UNCHANGED <<call, context>>
    /\ pipe' = Tail(pipe)
    /\ UNCHANGED <<cli, child, used>>

EndOfEvents ==
    /\ call.at = "scanning" /\ pipe = <<>> /\ child # "running"
    /\ call' = [call EXCEPT !.at = "waiting"]
    /\ UNCHANGED <<cli, state, context, child, pipe, used>>

\* No error of the scan, then of the context, then of the child, and an answer.
accepted ==
    /\ ~ call.scanErr
    /\ context = "live"
    /\ child = "exited"
    /\ state.output # NoAnswer

WaitChild ==
    /\ call.at = "waiting" /\ child # "running"
    /\ call' = [call EXCEPT !.at = IF accepted THEN "answered" ELSE "failed"]
    /\ UNCHANGED <<cli, state, context, child, pipe, used>>

-----------------------------------------------------------------------------
(* Timer and cancellation *)

Cancel ==
    /\ Active /\ context = "live"
    /\ context' = "cancelled"
    /\ UNCHANGED <<cli, call, state, child, pipe, used>>

Expire ==
    /\ Active /\ context = "live"
    /\ context' = "expired"
    /\ UNCHANGED <<cli, call, state, child, pipe, used>>

KillOnWait ==
    /\ call.at = "waiting" /\ context # "live" /\ child = "running"
    /\ child' = "killed"
    /\ UNCHANGED <<cli, call, state, context, pipe, used>>

\* The process group is killed as soon as the context is done.
Kill ==
    /\ context # "live" /\ child = "running"
    /\ child' = "killed"
    /\ UNCHANGED <<cli, call, state, context, pipe, used>>

-----------------------------------------------------------------------------

CallInit ==
    /\ cli \in {"claude-agent", "codex-agent"}
    /\ call = [at |-> "idle", scanErr |-> FALSE]
    /\ state = NoState
    /\ context = "live"
    /\ child = "none"
    /\ pipe = <<>>
    /\ used = [tools |-> 0, turns |-> 0, answer |-> NoAnswer, broken |-> FALSE, events |-> 0]

Caller == StartCall \/ ScanEvent \/ EndOfEvents \/ WaitChild

CallNext == ChildEmit \/ ChildExit \/ Caller \/ Cancel \/ Expire \/ Kill

\* The caller's goroutine runs, the timer fires, and a killed group ends.
CallSpec ==
    /\ CallInit /\ [][CallNext]_callVars
    /\ WF_callVars(Caller) /\ WF_callVars(Expire) /\ WF_callVars(Kill)

-----------------------------------------------------------------------------
(* Properties *)

\* An answer is accepted only if the child has ended well and by itself, all it
\* wrote was read and understood, it kept within the tool, turn and event limits
\* by its own count, and the answer is its last; and no child outlives its call.
AnswerEarned ==
    /\ call.at = "answered" =>
          /\ child = "exited" /\ pipe = <<>>
          /\ ~ used.broken
          /\ used.tools <= MaxTools /\ used.turns <= MaxTurns /\ used.events <= EventBudget
          /\ used.answer # NoAnswer /\ state.output = used.answer
    /\ call.at \in {"answered", "failed"} => child # "running"

\* A call ends, even if the child is silent forever or fills its pipe.
CallEnds == call.at = "scanning" ~> call.at \in {"answered", "failed"}
=============================================================================
