------------------------------ MODULE MCTools ------------------------------
(***************************************************************************)
(* Small instances of the components that share no state with each other   *)
(* or with the store's models, in one run: a behaviour is one of the       *)
(* subject's alone, the others stay in their initial states.               *)
(***************************************************************************)
EXTENDS Install, ModelCall, SizeGuard, Recall

VARIABLE subject

allVars == <<subject, installVars, callVars, guardVars, recallVars>>

\* Words of one length, and spaces after the last.
Pattern(length, words, pad) ==
    FlattenSeq([i \in 1 .. words |-> [j \in 1 .. length |-> "w"]
                                     \o (IF i < words THEN <<" ">> ELSE <<>>)])
    \o [j \in 1 .. pad |-> " "]

SourceTexts == {Pattern(length, words, pad) : length \in {1, 8}, words \in 0 .. 3, pad \in {0, 4}}
\* Texts of whole words, none empty.
SpokenTexts == {Pattern(length, words, 0) : length \in {1, 8}, words \in 1 .. 3}

ModelAnswers == {<<>>, Pattern(2, 1, 0), Pattern(4, 10, 0)}

Stored(own, role, tokens, matched, recency) ==
    [own |-> own, role |-> role, tokens |-> tokens, matched |-> matched, recency |-> recency]

StoredMessages ==
    {Stored(TRUE, "user", 1, 1, 30), Stored(TRUE, "assistant", 2, 0, 30),
     Stored(TRUE, "tool", 10000, 2, 30), Stored(FALSE, "assistant", 1, 2, 10)}

StoredSummaries ==
    {[own |-> TRUE, active |-> TRUE, matched |-> 1, recency |-> 30],
     [own |-> FALSE, active |-> FALSE, matched |-> 1, recency |-> 0]}

\* Only the subject's initial states are varied.
Init ==
    /\ subject \in {"install", "call", "guard", "recall"}
    /\ InstallInit /\ CallInit /\ GuardInit /\ RecallInit
    /\ subject # "install" => config = [t \in Targets |-> IF t = "server.ts" THEN <<Plugin("new")>> ELSE <<>>]
                              /\ link = [q \in Paths |-> q]
    /\ subject # "call" => cli = "codex-agent"
    /\ subject # "guard" => sources = <<<<>>>> /\ limit = 1

InstallTurn == subject = "install" /\ InstallNext /\ UNCHANGED <<subject, callVars, guardVars, recallVars>>
CallTurn == subject = "call" /\ CallNext /\ UNCHANGED <<subject, installVars, guardVars, recallVars>>
GuardTurn == subject = "guard" /\ GuardNext /\ UNCHANGED <<subject, installVars, callVars, recallVars>>
RecallTurn == subject = "recall" /\ RecallNext /\ UNCHANGED <<subject, installVars, callVars, guardVars>>

Next == InstallTurn \/ CallTurn \/ GuardTurn \/ RecallTurn

\* ModelCall's fairness, of the behaviours in which it is the subject.
CallFair ==
    /\ WF_callVars(CallTurn /\ Caller)
    /\ WF_callVars(CallTurn /\ Expire)
    /\ WF_callVars(CallTurn /\ Kill)

Spec == Init /\ [][Next]_allVars /\ CallFair
=============================================================================
