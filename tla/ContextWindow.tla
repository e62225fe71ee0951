--------------------------- MODULE ContextWindow ---------------------------
(***************************************************************************)
(* The active context window of one conversation and the pure helpers of   *)
(* internal/engine/engine.go that choose what a compaction pass folds.     *)
(*                                                                         *)
(* A window is a sequence of items.  An item is a raw message or a summary *)
(* and carries the span lo..hi of message sequence numbers it stands for   *)
(* (windowItem.earliestSeq and latestSeq).  The scans of the code are      *)
(* written as the sets of indices they stop at.                            *)
(***************************************************************************)
EXTENDS Integers, Sequences, FiniteSetsExt

CONSTANTS
    SoftLimit,            \* int(SoftFraction * ModelContextTokens)
    FreshTailMessages,    \* conversational messages kept raw
    FreshTailTokens,      \* conversational tokens kept raw
    LeafChunkTokens,      \* tokens after which a leaf block stops growing
    CondenseFanout,       \* summaries folded into one condensed summary
    CondenseChunkTokens,  \* most tokens one condensation may read
    MaxDepth,             \* deepest condensed level
    MaxIterations         \* folds one pass may make

\* What Config.Validate demands before a pass starts.
ASSUME ConfigAssumption ==
    /\ SoftLimit \in Nat
    /\ FreshTailMessages \in Nat
    /\ FreshTailTokens \in Nat
    /\ LeafChunkTokens \in Nat \ {0}
    /\ CondenseFanout \in Nat \ {0, 1}
    /\ CondenseChunkTokens \in Nat \ {0}
    /\ MaxDepth \in Nat \ {0}
    /\ MaxIterations \in Nat \ {0}

Kinds == {"message", "summary"}
Roles == {"chat", "tool"}   \* tool output against every other role

(***************************************************************************)
(* Measures                                                                *)
(***************************************************************************)
TokensAt(w, I) == MapThenSumSet(LAMBDA i : w[i].tokens, I)

WindowTokens(w) == TokensAt(w, DOMAIN w)

\* Seeded fault: the cursor is taken from earliestSeq.
LastSeqFromEarliest(w) ==
    IF w = <<>> THEN 0 ELSE Max({w[i].lo : i \in DOMAIN w})

\* The highest sequence number a window stands for; 0 for an empty one.
LastSeq(w) == IF w = <<>> THEN 0 ELSE Max({w[i].hi : i \in DOMAIN w})

(***************************************************************************)
(* Selection                                                               *)
(***************************************************************************)
IsConversational(item) == item.kind = "message" /\ item.role # "tool"

\* Seeded fault: the scan stops at the first floor it reaches.
ProtectedSetEitherFloor(w) ==
    LET newer(i) == {j \in DOMAIN w : j > i /\ IsConversational(w[j])}
    IN  {i \in DOMAIN w :
            /\ IsConversational(w[i])
            /\ Cardinality(newer(i)) < FreshTailMessages
            /\ TokensAt(w, newer(i)) < FreshTailTokens}

\* Scanning from the newest item, conversational messages are protected until
\* both floors, in messages and in tokens, are reached.
ProtectedSet(w) ==
    LET newer(i) == {j \in DOMAIN w : j > i /\ IsConversational(w[j])}
    IN  {i \in DOMAIN w :
            /\ IsConversational(w[i])
            /\ \/ Cardinality(newer(i)) < FreshTailMessages
               \/ TokensAt(w, newer(i)) < FreshTailTokens}

Foldable(w) ==
    {i \in DOMAIN w : w[i].kind = "message"} \ ProtectedSet(w)

\* s..e is the block the leaf scan returns: it starts at the first foldable
\* message and stops at the first item that is not foldable or once the block
\* has reached LeafChunkTokens.
IsMessageBlock(w, s, e) ==
    LET free == Foldable(w)
    IN  /\ s <= e
        /\ s..e \subseteq free
        /\ \A i \in free : s <= i
        /\ e = s \/ TokensAt(w, s..(e - 1)) < LeafChunkTokens
        /\ e + 1 \notin free \/ TokensAt(w, s..e) >= LeafChunkTokens

\* Seeded fault: the run is not cut where the depth changes.
CondenseStartsAnyDepth(w) ==
    {s \in DOMAIN w :
        LET run == s..(s + CondenseFanout - 1)
        IN  /\ run \subseteq DOMAIN w
            /\ \A i \in run : w[i].kind = "summary"
            /\ w[s].depth < MaxDepth
            /\ TokensAt(w, run) <= CondenseChunkTokens}

\* First indices of the runs of exactly CondenseFanout summaries of one depth
\* below MaxDepth whose tokens fit in CondenseChunkTokens.
CondenseStarts(w) ==
    {s \in DOMAIN w :
        LET run == s..(s + CondenseFanout - 1)
        IN  /\ run \subseteq DOMAIN w
            /\ \A i \in run : w[i].kind = "summary" /\ w[i].depth = w[s].depth
            /\ w[s].depth < MaxDepth
            /\ TokensAt(w, run) <= CondenseChunkTokens}

IsCondenseRun(w, s, e) ==
    /\ s \in CondenseStarts(w)
    /\ \A i \in CondenseStarts(w) : s <= i
    /\ e = s + CondenseFanout - 1

\* Seeded fault: the last item of the block survives beside the summary.
ReplaceRangeKeepingLast(w, s, e, item) ==
    [i \in 1..(Len(w) - (e - s) + 1) |->
        CASE i < s -> w[i]
          [] i = s -> item
          [] i > s -> w[i + (e - s) - 1]]

\* w with the items s..e replaced by one item.
ReplaceRange(w, s, e, item) ==
    [i \in 1..(Len(w) - (e - s)) |->
        CASE i < s -> w[i]
          [] i = s -> item
          [] i > s -> w[i + (e - s)]]

(***************************************************************************)
(* What a window must be: its items, in order, stand for every sequence    *)
(* number of 1..h and for none of them twice.                              *)
(***************************************************************************)
InRange(w, h) == \A i \in DOMAIN w : 1 <= w[i].lo /\ w[i].lo <= w[i].hi /\ w[i].hi <= h

Ordered(w) == \A i, j \in DOMAIN w : i < j => w[i].hi < w[j].lo

Covers(w, h) == \A n \in 1..h : \E i \in DOMAIN w : w[i].lo <= n /\ n <= w[i].hi

Tiles(w, h) == InRange(w, h) /\ Ordered(w) /\ Covers(w, h)
=============================================================================
