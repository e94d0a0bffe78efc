------------------------------ MODULE Selection ------------------------------
(***************************************************************************)
(* What the parent and the children of "assignment 3" compute together,    *)
(* seen as one set of candidates: the value with exactly n \div 2 larger   *)
(* ones among the n values of the files.  A round takes a candidate as     *)
(* pivot, counts the candidates above it and keeps the side the wanted     *)
(* value is on.                                                            *)
(***************************************************************************)
EXTENDS Integers, FiniteSets

VARIABLES data,        \* the numbers of all the files
          cand,        \* those no round has dropped
          rank,        \* how many candidates are above the wanted one
          answer       \* {} and then {the median}

search == <<data, cand, rank, answer>>

Larger(S, p) == {x \in S : x > p}

Middle == Cardinality(data) \div 2

SearchInit ==
  /\ data \subseteq Int /\ IsFiniteSet(data) /\ data # {}
  /\ cand = data /\ rank = Middle /\ answer = {}

\* More than rank candidates are above the pivot: so is the wanted one.
DropBelow(p) ==
  /\ Cardinality(Larger(cand, p)) > rank
  /\ cand' = {x \in cand : x >= p}
  /\ UNCHANGED <<data, rank, answer>>

\* Fewer than rank are: the wanted one is below, and rank counts only what is left.
DropAbove(p) ==
  /\ Cardinality(Larger(cand, p)) < rank
  /\ cand' = {x \in cand : x <= p}
  /\ rank' = rank - Cardinality(Larger(cand, p))
  /\ UNCHANGED <<data, answer>>

Found(p) ==
  /\ Cardinality(Larger(cand, p)) = rank
  /\ answer' = {p}
  /\ UNCHANGED <<data, cand, rank>>

Round == answer = {} /\ \E p \in cand : DropBelow(p) \/ DropAbove(p) \/ Found(p)

SearchSpec == SearchInit /\ [][Round]_search

-----------------------------------------------------------------------------
(* Properties.                                                             *)

\* The candidates are values of the files and rank is the rank of one of them.
SearchTypeOK ==
  /\ data \subseteq Int /\ IsFiniteSet(data)
  /\ cand \subseteq data /\ answer \subseteq data
  /\ rank \in Nat

\* Dropping values keeps ranks comparable: a candidate has as many dropped
\* values above it as rank has been lowered by, whatever pivots were drawn.
RankAccounting ==
  \A p \in cand :
    Cardinality(Larger(data, p)) - Cardinality(Larger(cand, p)) = Middle - rank

\* One of the candidates is the median: no round drops it.
MedianKept == \E p \in cand : Cardinality(Larger(data, p)) = Middle

\* The answer is the median of all the files, not of what is left of them.
AnswerIsMedian ==
  \A p \in answer : p \in data /\ Cardinality(Larger(data, p)) = Middle
=============================================================================
