------------------------------- MODULE Ranking -------------------------------
(***************************************************************************)
(* rank_stage1_candidates of scanner/stage1.py, the order that             *)
(* evaluate_stage1 and CandidateManager go by, with the settings both      *)
(* have.  A symbol is a number, its place in alphabetical order; a score   *)
(* stands for a score with its liquidity.                                  *)
(***************************************************************************)
EXTENDS Integers, FiniteSets

CONSTANTS Symbol,
          Permanent,   \* permanent_deep_symbols, permanent_symbols
          Score,
          MaxDynamic   \* max_dynamic_candidates

ASSUME RankingAssumption ==
    /\ Symbol \subseteq Nat /\ IsFiniteSet(Symbol)
    /\ Permanent \subseteq Symbol /\ Score \subseteq Nat /\ MaxDynamic \in Nat

Before(score, r, s) == score[r] > score[s] \/ (score[r] = score[s] /\ r < s)

Ahead(hot, score, s) == {r \in hot : Before(score, r, s)}

\* The first n of the order.
First(hot, score, n) == {s \in hot : Cardinality(Ahead(hot, score, s)) < n}
=============================================================================
