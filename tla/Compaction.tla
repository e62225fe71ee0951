---------------------------- MODULE Compaction ----------------------------
(***************************************************************************)
(* Compaction of one conversation: internal/engine/engine.go over the      *)
(* transactions of internal/store.                                         *)
(*                                                                         *)
(* Capture processes append messages while several compactors (a Stop      *)
(* hook, `acm compact`, a host that owns its context) run passes over the  *)
(* same conversation.  A pass reads the persisted window, then the         *)
(* messages after it, folds in its own memory while creating summary rows  *)
(* one transaction at a time, and finally replaces the persisted window.   *)
(* Nothing locks the conversation between those steps.                     *)
(*                                                                         *)
(* Message and summary IDs are digests of what they identify; here a       *)
(* message is its sequence number and a summary its row number, and        *)
(* deriving an ID that already exists is finding the row with the same     *)
(* depth and sources.  The token count of a new summary is whatever the    *)
(* summarizer and its size guard make it.                                  *)
(***************************************************************************)
EXTENDS ContextWindow

CONSTANTS
    Compactors,      \* processes that run compaction passes
    MessageTokens,   \* token counts a message may have
    SummaryTokens,   \* token counts a new summary may have
    MaxMessages,     \* bound: messages captured
    MaxFailures      \* bound: passes that fail or crash

ASSUME InputAssumption ==
    /\ MessageTokens \subseteq Nat
    /\ SummaryTokens \subseteq Nat
    /\ MaxMessages \in Nat
    /\ MaxFailures \in Nat

VARIABLES
    messages,      \* table messages, in sequence order
    summaries,     \* table summaries with its source links, in creation order
    descendants,   \* its column descendant_message_count
    contextItems,  \* table context_items: the persisted window
    pc,            \* where each compactor is in compactWindow
    archive,       \* its archiveAll argument
    window,        \* its in-memory window
    folds,         \* iterations its loop has made
    failures       \* passes that have failed so far

storeVars == <<messages, summaries, descendants, contextItems>>
passVars  == <<pc, archive, window, folds, failures>>
vars      == <<storeVars, passVars>>

Message == [role : Roles, tokens : MessageTokens]

\* A row of summaries: a leaf (depth 0) names message sequence numbers in src,
\* a condensed summary the rows of its children.
Summary == [depth : Nat, src : Seq(Nat), lo : Nat, hi : Nat, tokens : SummaryTokens]

Ref == [kind : Kinds, ref : Nat]

Item == [kind : Kinds, ref : Nat, role : Roles \cup {"none"}, tokens : Nat,
         lo : Nat, hi : Nat, depth : Nat]

PCs == {"idle", "reading", "folding"}

(***************************************************************************)
(* Reading the store                                                       *)
(***************************************************************************)
MessageItem(n) ==
    [kind |-> "message", ref |-> n, role |-> messages[n].role,
     tokens |-> messages[n].tokens, lo |-> n, hi |-> n, depth |-> 0]

SummaryItem(row, k) ==
    [kind |-> "summary", ref |-> k, role |-> "none", tokens |-> row.tokens,
     lo |-> row.lo, hi |-> row.hi, depth |-> row.depth]

\* GetMessage or GetSummary on a persisted reference.
Resolve(r) ==
    IF r.kind = "message" THEN MessageItem(r.ref) ELSE SummaryItem(summaries[r.ref], r.ref)

StoredWindow == [i \in 1..Len(contextItems) |-> Resolve(contextItems[i])]

\* Seeded fault: the cursor counts the window's items.
NewerThanCount(w) ==
    [i \in 1..(Len(messages) - Len(w)) |-> MessageItem(Len(w) + i)]

\* ListMessages(afterSeq): the items appended after what w stands for.
NewerMessages(w) ==
    LET last == LastSeq(w)
    IN  [i \in 1..(Len(messages) - last) |-> MessageItem(last + i)]

\* buildWindow, read at one instant: what assembly shows the model.
LiveWindow == LET w == StoredWindow IN w \o NewerMessages(w)

Init ==
    /\ messages = <<>> /\ summaries = <<>> /\ descendants = <<>> /\ contextItems = <<>>
    /\ pc = [c \in Compactors |-> "idle"]
    /\ archive = [c \in Compactors |-> FALSE]
    /\ window = [c \in Compactors |-> <<>>]
    /\ folds = [c \in Compactors |-> 0]
    /\ failures = 0

(***************************************************************************)
(* Capture                                                                 *)
(***************************************************************************)
AppendMessage(m) ==
    /\ Len(messages) < MaxMessages
    /\ messages' = Append(messages, m)
    /\ UNCHANGED <<summaries, descendants, contextItems, passVars>>

(***************************************************************************)
(* A compaction pass                                                       *)
(***************************************************************************)
\* ListContextItems and the reads of the rows it names.
ReadStoredWindow(c, archiveAll) ==
    /\ pc[c] = "idle"
    /\ pc' = [pc EXCEPT ![c] = "reading"]
    /\ archive' = [archive EXCEPT ![c] = archiveAll]
    /\ window' = [window EXCEPT ![c] = StoredWindow]
    /\ UNCHANGED <<storeVars, folds, failures>>

\* ListMessages, a later read: messages may have arrived in between.
ReadNewerMessages(c) ==
    /\ pc[c] = "reading"
    /\ pc' = [pc EXCEPT ![c] = "folding"]
    /\ window' = [window EXCEPT ![c] = @ \o NewerMessages(@)]
    /\ UNCHANGED <<storeVars, archive, folds, failures>>

\* The loop of compactWindow runs another iteration.
WantsFold(c) ==
    /\ pc[c] = "folding"
    /\ folds[c] < MaxIterations
    /\ archive[c] \/ WindowTokens(window[c]) > SoftLimit

\* Seeded fault: no lookup by derived ID before the insert.
SameSummaryUnchecked(row) == {}

SameSummary(row) ==
    {k \in DOMAIN summaries : summaries[k].depth = row.depth /\ summaries[k].src = row.src}

\* CreateLeafSummary and CreateCondensedSummary: one transaction that inserts
\* the row and its links, or returns the row that is there already; then the
\* block s..e of the window is replaced by the row's item.
Fold(c, s, e, row, count) ==
    /\ \E k \in 1..(Len(summaries) + 1) :
        /\ \/ /\ SameSummary(row) = {}
              /\ k = Len(summaries) + 1
              /\ summaries' = Append(summaries, row)
              /\ descendants' = Append(descendants, count)
           \/ k \in SameSummary(row) /\ UNCHANGED <<summaries, descendants>>
        /\ window' = [window EXCEPT
               ![c] = ReplaceRange(@, s, e, SummaryItem(summaries'[k], k))]
    /\ folds' = [folds EXCEPT ![c] = @ + 1]
    /\ UNCHANGED <<messages, contextItems, pc, archive, failures>>

\* The row that stands for the items s..e of w.
RowOver(w, s, e, depth, t) ==
    [depth |-> depth, src |-> [i \in 1..(e - s + 1) |-> w[s + i - 1].ref],
     lo |-> w[s].lo, hi |-> w[e].hi, tokens |-> t]

\* makeLeaf over the oldest block of foldable messages.
FoldLeaf(c) ==
    /\ WantsFold(c)
    /\ \E s, e \in DOMAIN window[c], t \in SummaryTokens :
        /\ IsMessageBlock(window[c], s, e)
        /\ Fold(c, s, e, RowOver(window[c], s, e, 0, t), e - s + 1)

\* Seeded fault: children are counted instead of their descendants.
FoldRunCountingChildren(c) ==
    /\ WantsFold(c)
    /\ Foldable(window[c]) = {}
    /\ \E s, e \in DOMAIN window[c], t \in SummaryTokens :
        /\ IsCondenseRun(window[c], s, e)
        /\ Fold(c, s, e, RowOver(window[c], s, e, window[c][s].depth + 1, t), e - s + 1)

\* The messages that the summaries at I of w stand for, as their rows count them.
DescendantsAt(w, I) == MapThenSumSet(LAMBDA i : descendants[w[i].ref], I)

\* makeCondensed over the oldest run of CondenseFanout summaries, once no
\* message is left to fold.
FoldRun(c) ==
    /\ WantsFold(c)
    /\ Foldable(window[c]) = {}
    /\ \E s, e \in DOMAIN window[c], t \in SummaryTokens :
        /\ IsCondenseRun(window[c], s, e)
        /\ Fold(c, s, e, RowOver(window[c], s, e, window[c][s].depth + 1, t),
                DescendantsAt(window[c], s..e))

\* The pass is over and its memory is gone.
Forget(c) ==
    /\ pc' = [pc EXCEPT ![c] = "idle"]
    /\ archive' = [archive EXCEPT ![c] = FALSE]
    /\ window' = [window EXCEPT ![c] = <<>>]
    /\ folds' = [folds EXCEPT ![c] = 0]

\* What ends a pass once its window is written.
EndPass(c) ==
    /\ Forget(c)
    /\ UNCHANGED <<messages, summaries, descendants, failures>>

\* Seeded fault: sequence numbers are persisted in place of row IDs.
PersistSeqs(c) ==
    /\ pc[c] = "folding"
    /\ ~WantsFold(c) \/ (Foldable(window[c]) = {} /\ CondenseStarts(window[c]) = {})
    /\ contextItems' = [i \in 1..Len(window[c]) |->
                          [kind |-> window[c][i].kind, ref |-> window[c][i].hi]]
    /\ EndPass(c)

\* Seeded fault: only archiving passes write their window back.
PersistArchiveOnly(c) ==
    /\ pc[c] = "folding"
    /\ ~WantsFold(c) \/ (Foldable(window[c]) = {} /\ CondenseStarts(window[c]) = {})
    /\ contextItems' =
          IF archive[c]
            THEN [i \in 1..Len(window[c]) |->
                    [kind |-> window[c][i].kind, ref |-> window[c][i].ref]]
            ELSE contextItems
    /\ EndPass(c)

\* The loop ends; ReplaceContextItems overwrites the persisted window with
\* this pass's, whatever another pass has written since.
Persist(c) ==
    /\ pc[c] = "folding"
    /\ \/ ~WantsFold(c)
       \/ Foldable(window[c]) = {} /\ CondenseStarts(window[c]) = {}
    /\ contextItems' = [i \in 1..Len(window[c]) |->
                          [kind |-> window[c][i].kind, ref |-> window[c][i].ref]]
    /\ EndPass(c)

\* A summarizer or store error ends the pass, or the process dies: what it
\* held in memory is gone, the rows it created stay.
Abandon(c) ==
    /\ pc[c] # "idle"
    /\ failures < MaxFailures
    /\ failures' = failures + 1
    /\ Forget(c)
    /\ UNCHANGED storeVars

Step(c) == ReadNewerMessages(c) \/ FoldLeaf(c) \/ FoldRun(c) \/ Persist(c)

Next ==
    \/ \E m \in Message : AppendMessage(m)
    \/ \E c \in Compactors :
        \/ \E archiveAll \in BOOLEAN : ReadStoredWindow(c, archiveAll)
        \/ ReadNewerMessages(c)
        \/ FoldLeaf(c)
        \/ FoldRun(c)
        \/ Persist(c)
        \/ Abandon(c)

Spec == Init /\ [][Next]_vars

\* A pass that has started is run by its process until it ends; nothing makes
\* a process start one.
FairSpec == Spec /\ \A c \in Compactors : WF_vars(Step(c))

(***************************************************************************)
(* Properties                                                              *)
(***************************************************************************)
\* The tables hold rows of their types and every reference in the persisted
\* window or in a pass's memory names a row that exists.
RefOK(r) ==
    r.ref \in (IF r.kind = "message" THEN DOMAIN messages ELSE DOMAIN summaries)

TypeOK ==
    /\ messages \in Seq(Message)
    /\ summaries \in Seq(Summary)
    /\ Len(descendants) = Len(summaries)
    /\ contextItems \in Seq(Ref)
    /\ \A i \in DOMAIN contextItems : RefOK(contextItems[i])
    /\ pc \in [Compactors -> PCs]
    /\ archive \in [Compactors -> BOOLEAN]
    /\ window \in [Compactors -> Seq(Item)]
    /\ \A c \in Compactors : \A i \in DOMAIN window[c] : RefOK(window[c][i])
    /\ folds \in [Compactors -> Nat]
    /\ failures \in Nat

\* However passes and capture interleave or crash, the window assembly builds
\* stands for every captured message exactly once and in order: last-writer-
\* wins on the persisted window never drops a message or shows it twice.
AssembledWindowTiles == LET w == LiveWindow IN Tiles(w, Len(messages))

\* A leaf's sources are exactly the messages of its span, and a condensed
\* summary's children are one level below it and their spans partition its own.
LeafExact(row) ==
    /\ {row.src[i] : i \in DOMAIN row.src} = row.lo..row.hi
    /\ \A i, j \in DOMAIN row.src : i < j => row.src[i] < row.src[j]

CondensedExact(row, T) ==
    LET child(i) == T[row.src[i]]
    IN  /\ \A i \in DOMAIN row.src :
            /\ child(i).depth = row.depth - 1
            /\ row.lo <= child(i).lo /\ child(i).hi <= row.hi
        /\ \A i, j \in DOMAIN row.src : i < j => child(i).hi < child(j).lo
        /\ \A n \in row.lo..row.hi : \E i \in DOMAIN row.src :
            child(i).lo <= n /\ n <= child(i).hi

RowExact(T, k) ==
    IF T[k].depth = 0
      THEN LeafExact(T[k])
      ELSE /\ \A i \in DOMAIN T[k].src : T[k].src[i] \in 1..(k - 1)
           /\ CondensedExact(T[k], T)

\* Every summary row, orphaned by a lost race or not, has exact lineage, and
\* every condensed row's children were created before it.
LineageExact == \A k \in DOMAIN summaries : RowExact(summaries, k)

\* ExpandToMessages: the messages reached by walking a summary's lineage.
Expansion ==
    LET reached[k \in DOMAIN summaries] ==
            LET src == {summaries[k].src[i] : i \in DOMAIN summaries[k].src}
            IN  IF summaries[k].depth = 0 THEN src ELSE UNION {reached[j] : j \in src}
    IN  reached

\* Expanding any summary returns verbatim exactly the messages of the span it
\* reports, and as many as the count it advertises to the model.
ExpansionExact ==
    \A k \in DOMAIN summaries :
        /\ Expansion[k] = summaries[k].lo..summaries[k].hi
        /\ descendants[k] = summaries[k].hi - summaries[k].lo + 1

\* Whatever stale window was persisted last, assembly shows the newest
\* conversational messages raw: one that it does not show raw has at least
\* FreshTailMessages newer ones, of at least FreshTailTokens together, tool
\* results not counted.
FreshTailRaw ==
    LET log == [n \in 1..Len(messages) |-> MessageItem(n)]
        w == LiveWindow
        turnsAfter(n) == {k \in DOMAIN log : k > n /\ messages[k].role # "tool"}
    IN  \A n \in DOMAIN log :
            \/ messages[n].role = "tool"
            \/ \E i \in DOMAIN w : w[i] = log[n]
            \/ /\ Cardinality(turnsAfter(n)) >= FreshTailMessages
               /\ TokensAt(log, turnsAfter(n)) >= FreshTailTokens

\* One row per set of sources: passes that fold the same block at once share it.
SummariesUnique ==
    \A j, k \in DOMAIN summaries :
        summaries[j].depth = summaries[k].depth /\ summaries[j].src = summaries[k].src
            => j = k

\* A fold always makes progress: a pass makes fewer than two folds per message
\* of the conversation, so MaxIterations only cuts off passes over longer ones.
FoldsLinear == \A c \in Compactors : folds[c] > 0 => folds[c] < 2 * Len(messages)

\* As long as passes keep being started, and once messages and failures stop,
\* the window ends up under the soft limit or irreducible and stays so, even
\* though a slow pass can overwrite the window of a faster one.
Settled ==
    \/ WindowTokens(LiveWindow) <= SoftLimit
    \/ Foldable(LiveWindow) = {} /\ CondenseStarts(LiveWindow) = {}

CompactionConverges ==
    ([]<>(\E c \in Compactors : pc[c] = "reading")) => <>[]Settled

\* Compaction implements the lossless log: every step appends one message at
\* the end of the assembled window, refolds that window, or changes nothing
\* an assembler can see.
SpanOf(item) == [raw |-> item.kind = "message", lo |-> item.lo, hi |-> item.hi]

SpansOf(w) == [i \in 1..Len(w) |-> SpanOf(w[i])]

View == LET w == LiveWindow IN SpansOf(w)

Lossless == INSTANCE LosslessContext WITH log <- messages, view <- View

LosslessSpec == Lossless!Spec
=============================================================================
