---------------------------- MODULE DemandPaging ----------------------------
(***************************************************************************)
(* What every page replacement policy promises, whichever victim it picks. *)
(* A page that is held costs nothing.  Any other page is a fault: it is    *)
(* brought in, and if that makes more pages than there are frames one      *)
(* other page goes.  A page is never brought in before it is needed, never *)
(* dropped while a frame is free, and is there after it was referenced.    *)
(***************************************************************************)
EXTENDS Integers, FiniteSets

CONSTANT Page

VARIABLES held,      \* the pages in the frames
          frames,    \* how many frames there are
          faults     \* page faults so far

paging == <<held, frames, faults>>

Empty == held = {} /\ faults = 0

Init == Empty /\ frames \in Nat

\* A new run of the policy starts with empty frames, possibly other ones.
Restart == held' = {} /\ faults' = 0 /\ frames' \in Nat

Fault(p) ==
  /\ p \notin held
  /\ faults' = faults + 1
  /\ IF Cardinality(held) < frames
       THEN held' = held \union {p}
       ELSE \E victim \in held \union {p} :
              /\ victim = p => frames = 0
              /\ held' = (held \union {p}) \ {victim}
  /\ UNCHANGED frames

Next == Restart \/ \E p \in Page : Fault(p)

Spec == Init /\ [][Next]_paging
=============================================================================
