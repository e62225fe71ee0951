------------------------------- MODULE Recall -------------------------------
(***************************************************************************)
(* Automatic recall (internal/agents/automatic_recall.go, recall.go) in the *)
(* hook of a prompt: the fresh tail of the session is read, messages and   *)
(* summaries are searched, and the hits outside the tail are ranked under  *)
(* quotas.  The three queries are not one transaction: other processes     *)
(* append messages and fold summaries between them.                        *)
(*                                                                         *)
(* Full-text search is SQLite's: it returns what matches, in any order.    *)
(***************************************************************************)
EXTENDS Integers, FiniteSets, FiniteSetsExt, Sequences, SequencesExt

CONSTANTS
    RecallMessages,        \* the messages that may be stored
    RecallSummaries,       \* the summaries that may be stored
    MaxStored,             \* bound: messages, and summaries, stored
    RecallLimit,           \* the hook's --recall
    FreshTailCount,        \* the fresh tail's floors
    FreshTailSize,
    MaxFreshTailRows,      \* 4096 in the code
    MaxRecallItems,        \* 10
    MaxRecallCandidates,   \* 50
    MaxSummaryCandidates,  \* 10
    MaxSummaryResults,     \* 2
    CandidatesPerResult    \* 10

Roles == {"assistant", "user", "system", "tool"}

MessageRows == [own : BOOLEAN, role : Roles, tokens : Nat, matched : Nat, recency : Nat]
SummaryRows == [own : BOOLEAN, active : BOOLEAN, matched : Nat, recency : Nat]

ASSUME RecallAssumption ==
    /\ RecallMessages \subseteq MessageRows /\ RecallSummaries \subseteq SummaryRows
    /\ MaxStored \in Nat /\ FreshTailCount \in Nat /\ FreshTailSize \in Nat /\ MaxFreshTailRows \in Nat
    /\ MaxRecallItems \in Nat /\ RecallLimit \in 1 .. MaxRecallItems
    /\ MaxRecallCandidates \in Nat \ {0} /\ MaxSummaryCandidates \in Nat \ {0}
    /\ MaxSummaryResults \in Nat \ {0} /\ CandidatesPerResult \in Nat \ {0}

VARIABLES
    log,        \* the messages of the project, by time
    summaries,  \* its summaries
    hook        \* the hook: where it is and what it has read

recallVars == <<log, summaries, hook>>

-----------------------------------------------------------------------------
(* Queries *)

Lesser(a, b) == IF a < b THEN a ELSE b
Greater(a, b) == IF a < b THEN b ELSE a

OwnMessages == {i \in DOMAIN log : log[i].own}

TailOfAllRoles(ids) == ids

\* Tool results never count for the tail.
Conversational(ids) == {i \in ids : log[i].role # "tool"}

tokensOf(rows, ids) == MapThenSumSet(LAMBDA i : rows[i].tokens, ids)

Newest(ids) == CHOOSE i \in ids : \A j \in ids : j <= i

\* The newest conversational messages until both floors are reached.
RecentConversationalMessageIDs ==
    LET rows == Conversational(OwnMessages)
        tail[n \in 0 .. MaxFreshTailRows] ==
            IF n = 0 THEN {}
            ELSE LET ids == tail[n - 1]
                 IN  IF \/ Cardinality(ids) >= FreshTailCount /\ tokensOf(log, ids) >= FreshTailSize
                        \/ rows \subseteq ids
                     THEN ids ELSE ids \cup {Newest(rows \ ids)}
    IN  tail[MaxFreshTailRows]

SummaryLimit == Lesser(MaxSummaryCandidates,
                       Greater(Lesser(MaxRecallCandidates, RecallLimit * CandidatesPerResult) \div 5, 1))

MessageLimit == Lesser(MaxRecallCandidates, RecallLimit * CandidatesPerResult) - SummaryLimit

\* The first hits of a search, in the order of the index.
Hits(rows, limit) ==
    {SubSeq(order, 1, Lesser(limit, Len(order))) :
        order \in SetToSeqs({i \in DOMAIN rows : rows[i].matched > 0})}

-----------------------------------------------------------------------------
(* Ranking *)

messageHit(i, rank) == [kind |-> "message", id |-> i, row |-> log[i], rank |-> rank]
summaryHit(i, rank) == [kind |-> "summary", id |-> i, row |-> summaries[i], rank |-> rank]

roleRecallScore == [assistant |-> 100, user |-> 80, system |-> 40, tool |-> 0]

recallScore(hit) ==
    hit.row.matched * 100 + Greater(25 - hit.rank, 0)
    + (IF hit.row.own THEN 75 ELSE 0)
    + hit.row.recency
    + (IF hit.kind = "summary" THEN 60 + (IF hit.row.active THEN 40 ELSE 0)
       ELSE roleRecallScore[hit.row.role]
            - (IF hit.row.role = "tool" THEN Lesser(hit.row.tokens \div 200, 50) ELSE 0))

\* chosen: the indexes selected so far, in that order.
withinRecallQuota(hits, chosen, kind) ==
    Cardinality({k \in DOMAIN chosen : hits[chosen[k]].kind = kind})
        < Lesser(RecallLimit, IF kind = "summary" THEN MaxSummaryResults ELSE MaxRecallItems)

Open(hits, chosen) ==
    {i \in DOMAIN hits : i \notin ToSet(chosen) /\ withinRecallQuota(hits, chosen, hits[i].kind)}

\* The best hit left under the quotas, the first one of equals.
bestRecallIndex(hits, chosen) ==
    CHOOSE i \in Open(hits, chosen) : \A j \in Open(hits, chosen) :
        \/ recallScore(hits[j]) < recallScore(hits[i])
        \/ recallScore(hits[j]) = recallScore(hits[i]) /\ i <= j

RankRecall(hits) ==
    LET rounds == Lesser(Lesser(RecallLimit, Len(hits)), MaxRecallItems)
        chosen[n \in 0 .. rounds] ==
            IF n = 0 THEN <<>>
            ELSE IF Open(hits, chosen[n - 1]) = {} THEN chosen[n - 1]
            ELSE Append(chosen[n - 1], bestRecallIndex(hits, chosen[n - 1]))
    IN  [k \in DOMAIN chosen[rounds] |-> hits[chosen[rounds][k]]]

-----------------------------------------------------------------------------
(* The hook and the others *)

NoRecall == [at |-> "tail", tail |-> {}, before |-> 0, found |-> <<>>, hits |-> <<>>, recalled |-> <<>>]

ReadTail ==
    /\ hook.at = "tail"
    /\ hook' = [hook EXCEPT !.at = "messages", !.tail = RecentConversationalMessageIDs,
                            !.before = Len(log)]
    /\ UNCHANGED <<log, summaries>>

\* The hits outside the tail, under their rank in the search.
MessageRecallHits(found, excluded) ==
    LET out[n \in 0 .. Len(found)] ==
            IF n = 0 THEN <<>>
            ELSE IF found[n] \in excluded THEN out[n - 1]
            ELSE Append(out[n - 1], messageHit(found[n], n - 1))
    IN  out[Len(found)]

SearchMessages ==
    /\ hook.at = "messages"
    /\ \E found \in Hits(log, MessageLimit) :
          hook' = [hook EXCEPT !.at = "summaries", !.found = MessageRecallHits(found, hook.tail)]
    /\ UNCHANGED <<log, summaries>>

SearchSummaries ==
    /\ hook.at = "summaries"
    /\ \E found \in Hits(summaries, SummaryLimit) :
          LET hits == hook.found \o [r \in DOMAIN found |-> summaryHit(found[r], r - 1)]
          IN  hook' = [hook EXCEPT !.at = "done", !.hits = hits, !.recalled = RankRecall(hits)]
    /\ UNCHANGED <<log, summaries>>

Arrive ==
    /\ hook.at # "done" /\ Len(log) < MaxStored
    /\ \E message \in RecallMessages : log' = Append(log, message)
    /\ UNCHANGED <<summaries, hook>>

FoldSummary ==
    /\ hook.at # "done" /\ Len(summaries) < MaxStored
    /\ \E summary \in RecallSummaries : summaries' = Append(summaries, summary)
    /\ UNCHANGED <<log, hook>>

RecallInit ==
    /\ log = <<>> /\ summaries = <<>>
    /\ hook = NoRecall

RecallNext == Arrive \/ FoldSummary \/ ReadTail \/ SearchMessages \/ SearchSummaries

RecallSpec == RecallInit /\ [][RecallNext]_recallVars

-----------------------------------------------------------------------------
(* Properties *)

\* A message of the session was fresh when the hook read the tail: the messages
\* of the conversation after it did not fill both floors, nor the rows read.
Fresh(i) ==
    LET later == {j \in DOMAIN log : j > i /\ j <= hook.before /\ log[j].own /\ log[j].role # "tool"}
    IN  /\ i <= hook.before /\ log[i].own /\ log[i].role # "tool"
        /\ Cardinality(later) < MaxFreshTailRows
        /\ Cardinality(later) < FreshTailCount \/ tokensOf(log, later) < FreshTailSize

Better(hits, i, j) ==
    \/ recallScore(hits[j]) < recallScore(hits[i])
    \/ recallScore(hits[j]) = recallScore(hits[i]) /\ i < j

\* The hits a user would expect: within its kind's quota of better ones, and
\* then within the limit.
Eligible(hits) ==
    {i \in DOMAIN hits :
        Cardinality({j \in DOMAIN hits : Better(hits, j, i) /\ hits[j].kind = hits[i].kind})
            < (IF hits[i].kind = "summary" THEN MaxSummaryResults ELSE RecallLimit)}

Expected(hits) ==
    {i \in Eligible(hits) : Cardinality({j \in Eligible(hits) : Better(hits, j, i)}) < RecallLimit}

\* What is injected into the prompt is outside the tail that the session showed
\* when it was read, though messages arrive during the search, and it is what
\* sorting all hits by score and cutting at the quotas would give.
RecallSound ==
    hook.at = "done" =>
        /\ \A hit \in ToSet(hook.recalled) : hit.kind = "message" => ~ Fresh(hit.id)
        /\ ToSet(hook.recalled) = {hook.hits[i] : i \in Expected(hook.hits)}
        /\ \A i, j \in DOMAIN hook.recalled :
              i < j => recallScore(hook.recalled[j]) <= recallScore(hook.recalled[i])
        /\ Len(hook.recalled) = Cardinality(Expected(hook.hits))
=============================================================================
