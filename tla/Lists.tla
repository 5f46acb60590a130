-------------------------------- MODULE Lists --------------------------------
(***************************************************************************)
(* Lists in the order of their numbers: PMGD hands out nodes and edges,    *)
(* and loops go through frames, indices and intervals, from the least one  *)
(* on.  (The library sorts by way of the module TLC, which only TLC can    *)
(* evaluate; nothing can be proved about it.)                              *)
(***************************************************************************)
EXTENDS Integers, SequencesExt, FiniteSetsExt

\* the numbers in S, the least first
InOrder(S) ==
  [i \in 1..Cardinality(S) |-> CHOOSE n \in S : Cardinality({m \in S : m <= n}) = i]

\* what is in S of the list s
Filtered(s, S) ==
  LET at == InOrder({i \in DOMAIN s : s[i] \in S})
  IN  [n \in DOMAIN at |-> s[at[n]]]
=============================================================================
