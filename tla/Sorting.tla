------------------------------- MODULE Sorting -------------------------------
(* Python's sorted(): a set of things in the order of their keys.          *)
EXTENDS Integers, Sequences, SequencesExt

\* The elements of S, each once, by rising key; equal keys come in any order.
SortedBy(S, key) ==
  CHOOSE order \in SetToSeqs(S) :
    \A i, j \in DOMAIN order : i < j => key[order[i]] <= key[order[j]]
=============================================================================
