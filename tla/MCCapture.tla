----------------------------- MODULE MCCapture -----------------------------
(***************************************************************************)
(* Small instances of Capture for TLC.                                     *)
(***************************************************************************)
EXTENDS Capture, TLC

\* The first turn's prompt is excluded, its reply has a secret, and so has the
\* prompt of the second turn.
ExcludedContents == {<<"prompt", 1>>}
SecretContents == {<<"reply", 1>>, <<"prompt", 2>>}

Symmetry == Permutations(Processes)
=============================================================================
