----------------------------- MODULE SizeGuard -----------------------------
(***************************************************************************)
(* summarizeWithGuard (internal/engine/engine.go): a summary is asked for   *)
(* at the target size, then at half of it, and else the sources are cut    *)
(* off; with the token counter (internal/tokens), the summarizer that      *)
(* reuses a host's CLI and the deterministic one it falls back to          *)
(* (internal/summarize).                                                   *)
(*                                                                         *)
(* A text is a sequence of letters, spaces and line ends, for its size is  *)
(* what the guard is about.                                                *)
(***************************************************************************)
EXTENDS Integers, FiniteSets, Sequences, SequencesExt

CONSTANTS
    Texts,          \* the texts to take sources from
    Answers,        \* what the host's model may answer
    MaxSources,     \* bound: sources of a fold
    Limits          \* the values of TruncateTokens to consider

ASSUME GuardAssumption ==
    /\ \A t \in Texts \cup Answers : t \in Seq({"w", " "})
    /\ MaxSources \in Nat /\ Limits \subseteq Nat \ {0}

VARIABLES
    sources,        \* the texts to summarize
    limit,          \* cfg.TruncateTokens
    attempt,        \* "normal", "aggressive", "truncate" or "done"
    summary         \* the result

guardVars == <<sources, limit, attempt, summary>>

-----------------------------------------------------------------------------
(* Sizes *)

MaxOf(a, b) == IF a < b THEN b ELSE a

WordStarts(text) == {i \in DOMAIN text : text[i] = "w" /\ (i = 1 \/ text[i - 1] # "w")}

Words(text) == Cardinality(WordStarts(text))

\* Heuristic.Count: the larger of four characters a token and 4/3 a word.
CountTokens(text) ==
    LET byChars == (Len(text) + 3) \div 4
        byWords == (Words(text) * 4 + 2) \div 3
    IN  MaxOf(byWords, byChars)

inputTokens ==
    LET total[n \in 0 .. Len(sources)] ==
            IF n = 0 THEN 0 ELSE total[n - 1] + CountTokens(sources[n])
    IN  total[Len(sources)]

Joined ==
    LET join[n \in 0 .. Len(sources)] ==
            IF n = 0 THEN <<>>
            ELSE IF n = 1 THEN sources[1]
            ELSE join[n - 1] \o <<"n">> \o sources[n]
    IN  join[Len(sources)]

Ellipsis == <<"w">>

\* truncateToTokens counts characters only.
truncateToTokens(text) ==
    IF Len(text) <= limit * 4 THEN text ELSE SubSeq(text, 1, limit * 4) \o Ellipsis

-----------------------------------------------------------------------------
(* Summarizers *)

\* previewLine: the words with one space between them.
previewLine(text) ==
    LET solid(i) == /\ text[i] # "w"
                    /\ i < Len(text) /\ text[i + 1] = "w"
                    /\ \E j \in 1 .. i : text[j] = "w"
        kept == SelectSeq([i \in DOMAIN text |-> i], LAMBDA i : text[i] = "w" \/ solid(i))
    IN  [i \in DOMAIN kept |-> text[kept[i]]]

\* "[leaf summary depth=0 sources=1]": four words.
Header == [i \in 1 .. 32 |-> IF i \in {6, 14, 22} THEN " " ELSE "w"]

\* A header and a line for every source, none of which is long enough to be cut.
Deterministic ==
    FoldLeft(LAMBDA text, s : text \o <<"n", "w", " ">> \o previewLine(s), Header, sources)

\* CLISummarizer: what the model answers, else the deterministic summary.
Summaries == (Answers \ {<<>>}) \cup {Deterministic}

-----------------------------------------------------------------------------

GuardInit ==
    /\ \E n \in 1 .. MaxSources : sources \in [1 .. n -> Texts]
    /\ limit \in Limits
    /\ attempt = "normal"
    /\ summary = <<>>

Escalation == [normal |-> "aggressive", aggressive |-> "truncate"]

Smaller(answer) == CountTokens(answer) < inputTokens

\* An answer smaller than the sources is taken.
Ask ==
    /\ attempt \in DOMAIN Escalation
    /\ \E answer \in Summaries :
          IF Smaller(answer)
          THEN summary' = answer /\ attempt' = "done"
          ELSE attempt' = Escalation[attempt] /\ UNCHANGED summary
    /\ UNCHANGED <<sources, limit>>

\* The truncation is taken as it is.
Truncate ==
    /\ attempt = "truncate"
    /\ summary' = truncateToTokens(Joined)
    /\ attempt' = "done"
    /\ UNCHANGED <<sources, limit>>

GuardNext == Ask \/ Truncate

GuardSpec == GuardInit /\ [][GuardNext]_guardVars

-----------------------------------------------------------------------------
(* Properties *)

\* docs/architecture.md:79: "Each summary is produced under a size guard, so a
\* summary is never larger than its input".
NeverLarger == attempt = "done" => CountTokens(summary) <= inputTokens

\* The most that joining and cutting add: a line end between sources is a
\* character, the ellipsis may be a word.
Excess == MaxOf(2, (Len(sources) + 2) \div 4)

\* A summary is smaller than its sources, or it is their truncation, which is
\* never compared with them: it is larger than the limit's characters by the
\* ellipsis at most, and larger than the sources by what the line ends between
\* them and the ellipsis add.
SummaryBounded ==
    attempt = "done" =>
        \/ CountTokens(summary) < inputTokens
        \/ /\ Len(summary) <= 4 * limit + 1
           /\ CountTokens(summary) <= inputTokens + Excess
=============================================================================
