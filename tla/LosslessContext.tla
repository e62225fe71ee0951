-------------------------- MODULE LosslessContext --------------------------
(***************************************************************************)
(* What lossless context management promises of one conversation: a log    *)
(* that is only ever appended to, and a view of it - what the model is     *)
(* shown - in which every logged message appears exactly once and in       *)
(* order, either raw or inside the span of one summary.                    *)
(***************************************************************************)
EXTENDS Integers, Sequences

CONSTANT Message

VARIABLES
    log,    \* every message captured so far
    view    \* spans of the log, in the order they are shown

vars == <<log, view>>

Span(raw, lo, hi) == [raw |-> raw, lo |-> lo, hi |-> hi]

\* v shows the messages 1..n, each in exactly one span, raw ones by themselves.
IsView(v, n) ==
    /\ \A i \in 1..Len(v) :
        /\ 1 <= v[i].lo /\ v[i].lo <= v[i].hi /\ v[i].hi <= n
        /\ v[i].raw => v[i].lo = v[i].hi
    /\ \A i, j \in 1..Len(v) : i < j => v[i].hi < v[j].lo
    /\ \A k \in 1..n : \E i \in 1..Len(v) : v[i].lo <= k /\ k <= v[i].hi

Init == log = <<>> /\ view = <<>>

\* A captured message shows raw at the end of the view.
Capture ==
    /\ \E m \in Message : log' = Append(log, m)
    /\ view' = Append(view, Span(TRUE, Len(log) + 1, Len(log) + 1))

\* Compaction, or a race between passes, shows the same log another way.
Refold == UNCHANGED log

Next == Capture \/ Refold

\* Whatever is done, the view shows the whole log.
Spec == Init /\ [][Next]_vars /\ []IsView(view, Len(log))
=============================================================================
