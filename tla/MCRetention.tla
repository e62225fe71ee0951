---------------------------- MODULE MCRetention ----------------------------
EXTENDS Retention, TLC

CONSTANTS Source, Target, Small, Big

\* One session with a small and a large message; the other is only ever
\* created by a carry-over.
Sessions == [c \in Conversations |-> IF c = Source THEN Events ELSE {}]

PrunersAlike == Permutations(Pruners)
=============================================================================
