-------------------------- MODULE PageReplacement --------------------------
(***************************************************************************)
(* The paging simulator of "assignment 10/.../file_handling.cpp".  It      *)
(* makes the reference string of a product of two n x n matrices laid out  *)
(* row by row on pages of d elements, and counts, for each number of       *)
(* frames of a range, the page faults of one of four policies.  Each       *)
(* iteration of a policy's loop over the string is a step; the loop that   *)
(* looks for the victim of second chance is one step per page passed over. *)
(* fcfs and lru keep plain page numbers: their entries' bit stays 0.       *)
(***************************************************************************)
EXTENDS Integers, SequencesExt

CONSTANTS Sizes,      \* pairs <<n, d>> that main may read
          Ranges,     \* pairs <<a, b>> that main may read
          LeastInit   \* what ref_count_lfu starts from (1000 in the code)

ASSUME InputAssumption ==
  /\ \A s \in Sizes : s[1] \in Nat \ {0} /\ s[2] \in Nat \ {0}
  /\ \A r \in Ranges : r[1] \in Nat /\ r[2] \in Nat
  /\ LeastInit \in Nat \ {0}

FCFS == 1
LFU  == 2
LRU  == 3
SecondChance == 4

VARIABLES ref,              \* ref_str, the reference string
          pc, choice, last, \* where main is, and its choice and b
          frames,           \* the number of frames of this call (d)
          i,                \* the next reference
          deque, faults,    \* the policy's deque and page_fault
          out               \* the lines of the output file so far

run  == <<ref, choice, last, frames>>
vars == <<ref, pc, choice, last, frames, i, deque, faults, out>>

-----------------------------------------------------------------------------
(* The reference string.                                                   *)

\* Lines 35-48: the page of element <<r, c>>, counted within its matrix.
Add(n, d, r, c) == 1 + (r * n + c) \div d

\* Lines 49-60: row i by column j, then the element of the product.
ReferenceString(n, d) ==
  LET group == 2 * n + 1
      Ref(q) == LET r == q \div (n * group)
                    c == (q \div group) % n
                    k == q % group
                IN IF k = 2 * n THEN 1000 + Add(n, d, r, c)
                   ELSE IF k % 2 = 0 THEN 100 + Add(n, d, r, k \div 2)
                   ELSE 500 + Add(n, d, k \div 2, c)
  IN [q \in 1 .. n * n * group |-> Ref(q - 1)]

PageNumbers == UNION {Range(ReferenceString(s[1], s[2])) : s \in Sizes}

-----------------------------------------------------------------------------
(* The deque.  Its front is the first element.                             *)

Entry(p)  == [page |-> p, bit |-> 0]
Pages(dq) == {dq[k].page : k \in DOMAIN dq}
Where(p)  == CHOOSE k \in DOMAIN deque : deque[k].page = p
PushFront(e, dq) == <<e>> \o dq

New   == ref[i]
Hit   == New \in Pages(deque)
Full  == Len(deque) >= frames

\* A reference of the loop of policy c.
At(c) == pc = "run" /\ choice = c /\ i <= Len(ref)

\* The reference is dealt with; the deque is now dq.
Referenced(dq) ==
  /\ deque' = dq
  /\ i' = i + 1
  /\ faults' = IF Hit THEN faults ELSE faults + 1
  /\ UNCHANGED <<run, pc, out>>

\* back() or erase() on nothing: the behaviour is undefined from here on.
Undefined ==
  /\ pc' = "undefined"
  /\ UNCHANGED <<run, i, deque, faults, out>>

-----------------------------------------------------------------------------
(* The policies.                                                           *)

Fcfs_Unbounded ==
  /\ At(FCFS)
  /\ Referenced(IF Hit THEN deque ELSE Append(deque, Entry(New)))

Fcfs ==
  /\ At(FCFS)
  /\ LET pushed == Append(deque, Entry(New))
     IN Referenced(IF Hit THEN deque
                   ELSE IF Len(pushed) > frames THEN Tail(pushed) ELSE pushed)

Lru_HitStays ==
  /\ At(LRU)
  /\ LET pushed == PushFront(Entry(New), deque)
     IN Referenced(IF Hit THEN deque
                   ELSE IF Len(pushed) > frames THEN Front(pushed) ELSE pushed)

Lru ==
  /\ At(LRU)
  /\ LET pushed == PushFront(Entry(New), deque)
     IN Referenced(IF Hit THEN PushFront(deque[Where(New)], RemoveAt(deque, Where(New)))
                   ELSE IF Len(pushed) > frames THEN Front(pushed) ELSE pushed)

\* Lines 124-134: a page found is marked as referenced.
ScHit ==
  /\ At(SecondChance) /\ Hit
  /\ Referenced([deque EXCEPT ![Where(New)].bit = 1])

ScLoad ==
  /\ At(SecondChance) /\ ~Hit /\ ~Full
  /\ Referenced(PushFront(Entry(New), deque))

\* Lines 163-170: the last page was referenced; it goes to the front, unmarked.
ScPassOver ==
  /\ At(SecondChance) /\ ~Hit /\ Full /\ deque # <<>>
  /\ Last(deque).bit = 1
  /\ deque' = PushFront([Last(deque) EXCEPT !.bit = 0], Front(deque))
  /\ UNCHANGED <<run, pc, i, faults, out>>

ScReplace ==
  /\ At(SecondChance) /\ ~Hit /\ Full /\ deque # <<>>
  /\ Last(deque).bit = 0
  /\ Referenced(PushFront(Entry(New), Front(deque)))

\* Line 161 with no frames.
ScNoFrames ==
  /\ At(SecondChance) /\ ~Hit /\ Full /\ deque = <<>>
  /\ Undefined

LfuHit ==
  /\ At(LFU) /\ Hit
  /\ Referenced([deque EXCEPT ![Where(New)].bit = @ + 1])

LfuLoad ==
  /\ At(LFU) /\ ~Hit /\ ~Full
  /\ Referenced(PushFront(Entry(New), deque))

\* Lines 230-238: the first page with the least count below LeastInit.
IsVictim(v, dq) ==
  /\ dq[v].bit < LeastInit
  /\ \A k \in DOMAIN dq : /\ dq[v].bit <= dq[k].bit
                          /\ k < v => dq[v].bit < dq[k].bit

LfuReplace_PushFirst ==
  /\ At(LFU) /\ ~Hit /\ Full
  /\ LET pushed == PushFront(Entry(New), deque)
     IN \E v \in DOMAIN pushed :
          IsVictim(v, pushed) /\ Referenced(RemoveAt(pushed, v))

LfuReplace ==
  /\ At(LFU) /\ ~Hit /\ Full
  /\ \E v \in DOMAIN deque :
       /\ IsVictim(v, deque)
       /\ Referenced(PushFront(Entry(New), RemoveAt(deque, v)))

\* No count is below LeastInit: "it" points to nothing, or to a page erased
\* at an earlier fault, when line 241 erases it.
LfuNoVictim ==
  /\ At(LFU) /\ ~Hit /\ Full
  /\ \A v \in DOMAIN deque : ~IsVictim(v, deque)
  /\ Undefined

-----------------------------------------------------------------------------
(* main and plot_graph.                                                    *)

Init ==
  /\ \E s \in Sizes : ref = ReferenceString(s[1], s[2])
  /\ pc = "menu" /\ choice = FCFS /\ last = 0 /\ frames = 0
  /\ i = 1 /\ deque = <<>> /\ faults = 0 /\ out = <<>>

\* A call of the policy with f frames.
Call(f) == frames' = f /\ i' = 1 /\ deque' = <<>> /\ faults' = 0

\* Choices 1 to 4: plot_graph truncates the file and runs the loop a .. b.
Choose ==
  /\ pc = "menu"
  /\ choice' \in {FCFS, LFU, LRU, SecondChance}
  /\ \E r \in Ranges : /\ Call(r[1]) /\ last' = r[2]
                       /\ pc' = IF r[1] <= r[2] THEN "run" ELSE "menu"
  /\ out' = <<>>
  /\ UNCHANGED ref

\* The policy returns: a line is written, and the next number of frames taken.
WriteLine ==
  /\ pc = "run" /\ i > Len(ref)
  /\ out' = Append(out, [frames |-> frames, faults |-> faults])
  /\ IF frames < last THEN Call(frames + 1) /\ UNCHANGED pc
                      ELSE pc' = "menu" /\ UNCHANGED <<frames, i, deque, faults>>
  /\ UNCHANGED <<ref, choice, last>>

\* Choice 5.
Exit ==
  /\ pc = "menu"
  /\ pc' = "exit"
  /\ UNCHANGED <<run, i, deque, faults, out>>

Policy == \/ Fcfs \/ Lru
          \/ ScHit \/ ScLoad \/ ScPassOver \/ ScReplace \/ ScNoFrames
          \/ LfuHit \/ LfuLoad \/ LfuReplace \/ LfuNoVictim

Next == Policy \/ Choose \/ WriteLine \/ Exit

Spec == Init /\ [][Next]_vars

-----------------------------------------------------------------------------
(* Properties.                                                             *)

\* No policy holds a page twice or more pages than there are frames, and no
\* more faults are counted than references were made.
TypeOK ==
  /\ pc \in {"menu", "run", "undefined", "exit"} /\ choice \in 1 .. 4
  /\ i \in 1 .. Len(ref) + 1 /\ faults \in 0 .. i - 1
  /\ Len(deque) <= frames
  /\ \A j, k \in DOMAIN deque : deque[j].page = deque[k].page => j = k
  /\ \A k \in DOMAIN deque : deque[k].bit \in Nat

\* When page p was last referenced, 0 if it was not.
LastUse(p) == LET uses == {j \in 1 .. i - 1 : ref[j] = p}
              IN IF uses = {} THEN 0 ELSE Max(uses)

\* Least recently used holds exactly the pages used last, as many as there are
\* frames, the latest first.  (Hence with a frame more it holds no page less.)
LruKeepsRecent ==
  choice = LRU =>
    LET used == Range(SubSeq(ref, 1, i - 1))
        rank(p) == Cardinality({q \in used : LastUse(q) > LastUse(p)})
    IN /\ Pages(deque) = {p \in used : rank(p) < frames}
       /\ \A k \in DOMAIN deque : rank(deque[k].page) = k - 1

\* Every policy is demand paging, whichever victim it picks: it never gives up
\* a page while a frame is free, nor the page it just brought in.
Paging == INSTANCE DemandPaging
            WITH Page <- PageNumbers, held <- Pages(deque)
DemandPaged == Paging!Spec
=============================================================================
