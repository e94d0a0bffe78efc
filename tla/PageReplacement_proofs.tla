------------------------ MODULE PageReplacement_proofs ------------------------
(***************************************************************************)
(* What holds of the paging simulator for every list of inputs: no policy  *)
(* ever holds a page twice or more pages than frames, all four are demand  *)
(* paging, and least recently used holds exactly the pages used last.      *)
(***************************************************************************)
EXTENDS PageReplacement, FiniteSetTheorems, SequenceTheorems, TLAPS

Entries == [page : PageNumbers, bit : Nat]

\* A deque with no page twice.
Distinct(dq) == \A j, k \in DOMAIN dq : dq[j].page = dq[k].page => j = k

-----------------------------------------------------------------------------
(* The operations on a deque.                                              *)

\* Taking out the element at j moves those behind it one place forward.
LEMMA RemoveAtIndex ==
  ASSUME NEW S, NEW s \in Seq(S), NEW j \in 1..Len(s)
  PROVE  /\ RemoveAt(s, j) \in Seq(S) /\ Len(RemoveAt(s, j)) = Len(s) - 1
         /\ \A k \in 1..(Len(s) - 1) : RemoveAt(s, j)[k] = IF k < j THEN s[k] ELSE s[k + 1]
<1> DEFINE n == Len(s)
           front == SubSeq(s, 1, j - 1)
           back == SubSeq(s, j + 1, n)
<1>1. n \in Nat /\ j \in 1..n /\ \A k \in 1..n : s[k] \in S
  BY LenProperties, ElementOfSeq
<1>2. front \in Seq(S) /\ Len(front) = j - 1 /\ \A k \in 1..(j - 1) : front[k] = s[k]
  <2>1. /\ 1 \in Int /\ j - 1 \in Int /\ (\A k \in 1..(j - 1) : s[k] \in S)
        /\ (1 <= j - 1 \/ j - 1 = 0)
    BY <1>1
  <2>2. /\ front \in Seq(S) /\ Len(front) = IF 1 <= j - 1 THEN j - 1 - 1 + 1 ELSE 0
        /\ \A k \in 1..(j - 1 - 1 + 1) : front[k] = s[1 + k - 1]
    BY <2>1, SubSeqProperties, Z3
  <2> HIDE DEF front
  <2>3. QED
    BY <1>1, <2>1, <2>2
<1>3. back \in Seq(S) /\ Len(back) = n - j /\ \A k \in 1..(n - j) : back[k] = s[j + k]
  <2>1. n \in Int /\ j + 1 \in Int /\ \A k \in (j + 1)..n : s[k] \in S
    BY <1>1
  <2>2. /\ back \in Seq(S) /\ Len(back) = IF j + 1 <= n THEN n - (j + 1) + 1 ELSE 0
        /\ \A k \in 1..(n - (j + 1) + 1) : back[k] = s[j + 1 + k - 1]
    BY <2>1, SubSeqProperties, Z3
  <2> HIDE DEF back, n
  <2>3. QED
    BY <1>1, <2>2
<1> HIDE DEF front, back
<1>4. /\ front \o back \in Seq(S) /\ Len(front \o back) = Len(front) + Len(back)
      /\ \A k \in 1..(Len(front) + Len(back)) :
           (front \o back)[k] = IF k <= Len(front) THEN front[k] ELSE back[k - Len(front)]
  BY <1>2, <1>3, ConcatProperties
<1>5. RemoveAt(s, j) = front \o back
  BY DEF RemoveAt, front, back
<1> HIDE DEF n
<1>6. Len(front \o back) = n - 1
  BY <1>1, <1>2, <1>3, <1>4
<1>7. ASSUME NEW k \in 1..(n - 1)
      PROVE  (front \o back)[k] = IF k < j THEN s[k] ELSE s[k + 1]
  BY <1>1, <1>2, <1>3, <1>4
<1>8. QED
  BY <1>4, <1>5, <1>6, <1>7 DEF n

\* pop_back and pop_front take out the last and the first element.
LEMMA FrontIsRemoveAt ==
  ASSUME NEW S, NEW s \in Seq(S), s # <<>>
  PROVE  Len(s) \in 1..Len(s) /\ Front(s) = RemoveAt(s, Len(s))
<1>1. Len(s) \in Nat \ {0}
  BY EmptySeq
<1>2. /\ RemoveAt(s, Len(s)) \in Seq(S) /\ Len(RemoveAt(s, Len(s))) = Len(s) - 1
      /\ \A k \in 1..(Len(s) - 1) : RemoveAt(s, Len(s))[k] = IF k < Len(s) THEN s[k] ELSE s[k + 1]
  <2>1. Len(s) \in 1..Len(s)
    BY <1>1
  <2>2. QED
    BY <2>1, RemoveAtIndex
<1>3. /\ Front(s) \in Seq(S) /\ Len(Front(s)) = Len(s) - 1
      /\ \A k \in 1..(Len(s) - 1) : Front(s)[k] = s[k]
  <2>1. /\ 1 \in Int /\ Len(s) - 1 \in Int /\ \A k \in 1..(Len(s) - 1) : s[k] \in S
    BY <1>1, ElementOfSeq
  <2>2. /\ Front(s) \in Seq(S) /\ Len(Front(s)) = IF 1 <= Len(s) - 1 THEN Len(s) - 1 - 1 + 1 ELSE 0
        /\ \A k \in 1..(Len(s) - 1 - 1 + 1) : Front(s)[k] = s[1 + k - 1]
    BY <2>1, SubSeqProperties, Z3 DEF Front
  <2> DEFINE f == Front(s)
             n == Len(s)
  <2>3. f \in Seq(S) /\ Len(f) = (IF 1 <= n - 1 THEN n - 1 - 1 + 1 ELSE 0)
        /\ (\A k \in 1..(n - 1 - 1 + 1) : f[k] = s[1 + k - 1]) /\ n \in Nat \ {0}
    BY <1>1, <2>2
  <2> HIDE DEF f, n
  <2>4. Len(f) = n - 1 /\ \A k \in 1..(n - 1) : f[k] = s[k]
    BY <2>3
  <2>5. QED
    BY <2>3, <2>4 DEF f, n
<1> DEFINE f == Front(s)
           r == RemoveAt(s, Len(s))
           n == Len(s)
<1>4. /\ f \in Seq(S) /\ r \in Seq(S) /\ Len(f) = n - 1 /\ Len(r) = n - 1 /\ n \in Nat \ {0}
      /\ \A k \in 1..(n - 1) : f[k] = s[k] /\ r[k] = IF k < n THEN s[k] ELSE s[k + 1]
  BY <1>1, <1>2, <1>3
<1> HIDE DEF f, r, n
<1>5. Len(f) = Len(r) /\ \A k \in 1..Len(f) : f[k] = r[k]
  BY <1>4
<1>6. f = r
  BY <1>4, <1>5, SeqEqual
<1>7. QED
  BY <1>1, <1>6 DEF f, r, n

LEMMA TailIsRemoveAt ==
  ASSUME NEW S, NEW s \in Seq(S), s # <<>>
  PROVE  1 \in 1..Len(s) /\ Tail(s) = RemoveAt(s, 1)
<1> DEFINE f == Tail(s)
           r == RemoveAt(s, 1)
           n == Len(s)
<1>1. n \in Nat \ {0}
  BY EmptySeq
<1>2. 1 \in 1..Len(s)
  BY <1>1
<1>3. /\ r \in Seq(S) /\ Len(r) = n - 1
      /\ \A k \in 1..(n - 1) : r[k] = IF k < 1 THEN s[k] ELSE s[k + 1]
  BY <1>2, RemoveAtIndex
<1>4. f \in Seq(S) /\ Len(f) = n - 1 /\ \A k \in 1..Len(f) : f[k] = s[k + 1]
  BY HeadTailProperties
<1> HIDE DEF f, r, n
<1>5. Len(f) = Len(r) /\ \A k \in 1..Len(f) : f[k] = r[k]
  BY <1>1, <1>3, <1>4
<1>6. f = r
  BY <1>3, <1>4, <1>5, SeqEqual
<1>7. QED
  BY <1>2, <1>6 DEF f, r, n

\* push_front moves every element one place back.
LEMMA PushFrontIndex ==
  ASSUME NEW S, NEW s \in Seq(S), NEW e \in S
  PROVE  /\ PushFront(e, s) \in Seq(S) /\ Len(PushFront(e, s)) = Len(s) + 1
         /\ PushFront(e, s)[1] = e
         /\ \A k \in 2..(Len(s) + 1) : PushFront(e, s)[k] = s[k - 1]
<1>1. <<e>> \in Seq(S) /\ Len(<<e>>) = 1 /\ <<e>>[1] = e
  OBVIOUS
<1> DEFINE one == <<e>>
           p == one \o s
           n == Len(s)
<1>2. /\ p \in Seq(S) /\ Len(p) = Len(one) + n
      /\ \A k \in 1..(Len(one) + n) : p[k] = IF k <= Len(one) THEN one[k] ELSE s[k - Len(one)]
  BY <1>1, ConcatProperties
<1>3. n \in Nat
  BY LenProperties
<1>4. Len(one) = 1 /\ one[1] = e
  BY <1>1
<1>5. p = PushFront(e, s)
  BY DEF PushFront
<1> HIDE DEF one, p, n
<1>6. Len(p) = n + 1 /\ p[1] = e /\ \A k \in 2..(n + 1) : p[k] = s[k - 1]
  BY <1>2, <1>3, <1>4
<1>7. QED
  BY <1>2, <1>5, <1>6 DEF n

\* With a page that was not there, at either end, the deque has one page more.
LEMMA Pushed ==
  ASSUME NEW dq \in Seq(Entries), NEW e \in Entries, Distinct(dq), e.page \notin Pages(dq)
  PROVE  /\ PushFront(e, dq) \in Seq(Entries) /\ Distinct(PushFront(e, dq))
         /\ Pages(PushFront(e, dq)) = Pages(dq) \cup {e.page}
<1> DEFINE p == PushFront(e, dq)
           n == Len(dq)
<1>1. /\ p \in Seq(Entries) /\ Len(p) = n + 1 /\ p[1] = e
      /\ \A k \in 2..(n + 1) : p[k] = dq[k - 1]
  BY PushFrontIndex
<1>2. n \in Nat /\ DOMAIN dq = 1..n /\ DOMAIN p = 1..Len(p)
  BY <1>1, LenProperties
<1> HIDE DEF p, n
<1>3. DOMAIN p = 1..(n + 1)
  BY <1>1, <1>2
<1>4. \A k \in DOMAIN p : k = 1 \/ (k - 1 \in DOMAIN dq /\ p[k] = dq[k - 1] /\ k \in 2..(n + 1))
  BY <1>1, <1>2, <1>3
<1>5. \A k \in DOMAIN dq : k + 1 \in DOMAIN p /\ p[k + 1] = dq[k]
  BY <1>1, <1>2, <1>3
<1>6. \A k \in DOMAIN dq : dq[k].page # e.page
  BY DEF Pages
<1>7. Distinct(p)
  <2>1. SUFFICES ASSUME NEW j \in DOMAIN p, NEW k \in DOMAIN p, p[j].page = p[k].page
                 PROVE  j = k
    BY DEF Distinct
  <2>2. CASE j = 1
    BY <1>1, <1>4, <1>6, <2>1, <2>2
  <2>3. CASE k = 1
    BY <1>1, <1>4, <1>6, <2>1, <2>3
  <2>4. CASE j # 1 /\ k # 1
    <3>1. j - 1 \in DOMAIN dq /\ k - 1 \in DOMAIN dq /\ dq[j - 1].page = dq[k - 1].page
      BY <1>4, <2>1, <2>4
    <3>2. j - 1 = k - 1
      BY <3>1 DEF Distinct
    <3>3. QED
      BY <1>3, <2>1, <3>2
  <2>5. QED
    BY <2>2, <2>3, <2>4
<1>8. Pages(p) = Pages(dq) \cup {e.page}
  <2>1. 1 \in DOMAIN p
    BY <1>2, <1>3
  <2>2. Pages(p) \subseteq Pages(dq) \cup {e.page}
    BY <1>1, <1>4 DEF Pages
  <2>3. Pages(dq) \subseteq Pages(p)
    BY <1>5 DEF Pages
  <2>4. e.page \in Pages(p)
    BY <1>1, <2>1 DEF Pages
  <2>5. QED
    BY <2>2, <2>3, <2>4
<1>9. QED
  BY <1>1, <1>7, <1>8 DEF p

LEMMA Appended ==
  ASSUME NEW dq \in Seq(Entries), NEW e \in Entries, Distinct(dq), e.page \notin Pages(dq)
  PROVE  /\ Append(dq, e) \in Seq(Entries) /\ Len(Append(dq, e)) = Len(dq) + 1
         /\ Distinct(Append(dq, e)) /\ Pages(Append(dq, e)) = Pages(dq) \cup {e.page}
<1> DEFINE p == Append(dq, e)
           n == Len(dq)
<1>1. /\ p \in Seq(Entries) /\ Len(p) = n + 1 /\ p[n + 1] = e
      /\ \A k \in 1..n : p[k] = dq[k]
  BY AppendProperties
<1>2. n \in Nat /\ DOMAIN dq = 1..n /\ DOMAIN p = 1..Len(p)
  BY <1>1, LenProperties
<1> HIDE DEF p, n
<1>3. DOMAIN p = DOMAIN dq \cup {n + 1} /\ \A k \in DOMAIN dq : p[k] = dq[k]
  BY <1>1, <1>2
<1>4. \A k \in DOMAIN dq : dq[k].page # e.page
  BY DEF Pages
<1>5. Distinct(p)
  <2>1. SUFFICES ASSUME NEW j \in DOMAIN p, NEW k \in DOMAIN p, p[j].page = p[k].page
                 PROVE  j = k
    BY DEF Distinct
  <2>2. CASE j \in DOMAIN dq /\ k \in DOMAIN dq
    BY <1>3, <2>1, <2>2 DEF Distinct
  <2>3. QED
    BY <1>1, <1>3, <1>4, <2>1, <2>2
<1>6. Pages(p) = Pages(dq) \cup {e.page}
  BY <1>1, <1>3 DEF Pages
<1>7. QED
  BY <1>1, <1>5, <1>6 DEF p, n

\* Without the element at j the deque holds one page less, the one at j.
LEMMA Dropped ==
  ASSUME NEW dq \in Seq(Entries), NEW j \in DOMAIN dq, Distinct(dq)
  PROVE  /\ dq[j] \in Entries /\ dq[j].page \in Pages(dq)
         /\ RemoveAt(dq, j) \in Seq(Entries) /\ Len(RemoveAt(dq, j)) = Len(dq) - 1
         /\ Distinct(RemoveAt(dq, j)) /\ Pages(RemoveAt(dq, j)) = Pages(dq) \ {dq[j].page}
<1> DEFINE n == Len(dq)
           r == RemoveAt(dq, j)
<1>1. /\ n \in Nat /\ DOMAIN dq = 1..n /\ j \in 1..n
      /\ r \in Seq(Entries) /\ Len(r) = n - 1
      /\ \A k \in 1..(n - 1) : r[k] = IF k < j THEN dq[k] ELSE dq[k + 1]
  BY LenProperties, RemoveAtIndex
<1>2. DOMAIN r = 1..(n - 1)
  BY <1>1, LenProperties
<1>3. dq[j] \in Entries /\ dq[j].page \in Pages(dq)
  BY <1>1, ElementOfSeq DEF Pages
<1> HIDE DEF n, r
<1>4. \A k \in DOMAIN r : \/ k < j /\ k \in DOMAIN dq \ {j} /\ r[k] = dq[k]
                          \/ ~(k < j) /\ k + 1 \in DOMAIN dq \ {j} /\ r[k] = dq[k + 1]
  BY <1>1, <1>2
<1>5. \A m \in DOMAIN dq \ {j} : \/ m < j /\ m \in DOMAIN r /\ r[m] = dq[m]
                                 \/ m > j /\ m - 1 \in DOMAIN r /\ r[m - 1] = dq[m]
  BY <1>1, <1>2
<1>6. Distinct(r)
  <2>1. SUFFICES ASSUME NEW a \in DOMAIN r, NEW b \in DOMAIN r, r[a].page = r[b].page PROVE a = b
    BY DEF Distinct
  <2>2. PICK x \in DOMAIN dq \ {j} : r[a] = dq[x] /\ (a < j => x = a) /\ (~(a < j) => x = a + 1)
    BY <1>4
  <2>3. PICK y \in DOMAIN dq \ {j} : r[b] = dq[y] /\ (b < j => y = b) /\ (~(b < j) => y = b + 1)
    BY <1>4
  <2>4. x = y
    BY <2>1, <2>2, <2>3 DEF Distinct
  <2>5. QED
    BY <1>1, <1>2, <2>2, <2>3, <2>4
<1>7. Pages(r) = Pages(dq) \ {dq[j].page}
  <2>1. \A k \in DOMAIN r : r[k].page \in Pages(dq) \ {dq[j].page}
    BY <1>1, <1>4 DEF Pages, Distinct
  <2>2. \A m \in DOMAIN dq \ {j} : dq[m].page \in Pages(r)
    BY <1>5 DEF Pages
  <2>3. Pages(r) \subseteq Pages(dq) \ {dq[j].page}
    BY <2>1 DEF Pages
  <2>4. Pages(dq) \ {dq[j].page} \subseteq Pages(r)
    BY <2>2 DEF Pages
  <2>5. QED
    BY <2>3, <2>4
<1>8. QED
  BY <1>1, <1>3, <1>6, <1>7 DEF n, r

\* An element taken out and put in front, its bit changed or not.
LEMMA Moved ==
  ASSUME NEW dq \in Seq(Entries), NEW j \in DOMAIN dq, Distinct(dq),
         NEW e \in Entries, e.page = dq[j].page
  PROVE  LET p == PushFront(e, RemoveAt(dq, j))
         IN  /\ p \in Seq(Entries) /\ Len(p) = Len(dq)
             /\ Distinct(p) /\ Pages(p) = Pages(dq)
<1> DEFINE r == RemoveAt(dq, j)
<1>1. /\ dq[j].page \in Pages(dq) /\ r \in Seq(Entries) /\ Len(r) = Len(dq) - 1
      /\ Distinct(r) /\ Pages(r) = Pages(dq) \ {dq[j].page}
  BY Dropped
<1>2. Len(dq) \in Nat
  BY LenProperties
<1> HIDE DEF r
<1>3. Len(PushFront(e, r)) = Len(r) + 1
  BY <1>1, PushFrontIndex
<1>4. /\ PushFront(e, r) \in Seq(Entries) /\ Distinct(PushFront(e, r))
      /\ Pages(PushFront(e, r)) = Pages(r) \cup {e.page}
  BY <1>1, Pushed
<1>5. Len(PushFront(e, r)) = Len(dq)
  BY <1>1, <1>2, <1>3
<1>6. Pages(PushFront(e, r)) = Pages(dq)
  BY <1>1, <1>4
<1>7. QED
  BY <1>4, <1>5, <1>6 DEF r

\* An element in its place, its bit changed.
LEMMA Marked ==
  ASSUME NEW dq \in Seq(Entries), NEW j \in DOMAIN dq, Distinct(dq), NEW b \in Nat
  PROVE  LET p == [dq EXCEPT ![j].bit = b]
         IN  /\ p \in Seq(Entries) /\ Len(p) = Len(dq)
             /\ Distinct(p) /\ Pages(p) = Pages(dq)
<1> DEFINE p == [dq EXCEPT ![j] = [dq[j] EXCEPT !.bit = b]]
<1>1. j \in 1..Len(dq) /\ dq[j] \in Entries /\ DOMAIN dq = 1..Len(dq)
  BY LenProperties, Dropped
<1>2. [dq[j] EXCEPT !.bit = b] \in Entries /\ [dq[j] EXCEPT !.bit = b].page = dq[j].page
  BY <1>1 DEF Entries
<1>3. p \in Seq(Entries) /\ Len(p) = Len(dq)
  BY <1>1, <1>2, ExceptSeq
<1>4. DOMAIN p = DOMAIN dq /\ \A k \in DOMAIN dq : p[k].page = dq[k].page
  BY <1>2
<1>5. p = [dq EXCEPT ![j].bit = b]
  OBVIOUS
<1> HIDE DEF p
<1>6. Distinct(p) /\ Pages(p) = Pages(dq)
  BY <1>4 DEF Distinct, Pages
<1>7. QED
  BY <1>3, <1>5, <1>6

\* There are as many pages as elements.
LEMMA PagesCounted ==
  ASSUME NEW dq \in Seq(Entries), Distinct(dq)
  PROVE  IsFiniteSet(Pages(dq)) /\ Cardinality(Pages(dq)) = Len(dq) /\ Len(dq) \in Nat
<1> DEFINE f == [k \in 1..Len(dq) |-> dq[k].page]
<1>1. Len(dq) \in Nat /\ DOMAIN dq = 1..Len(dq)
  BY LenProperties
<1>2. f \in Bijection(1..Len(dq), Pages(dq))
  <2>1. f \in [1..Len(dq) -> Pages(dq)] /\ IsInjective(f)
    BY <1>1 DEF Pages, Distinct, IsInjective
  <2>2. \A p \in Pages(dq) : \E k \in 1..Len(dq) : f[k] = p
    BY <1>1 DEF Pages
  <2>3. QED
    BY <2>1, <2>2 DEF Bijection, Injection, Surjection
<1>3. ExistsBijection(1..Len(dq), Pages(dq))
  BY <1>2 DEF ExistsBijection
<1>4. IsFiniteSet(1..Len(dq)) /\ Cardinality(1..Len(dq)) = Len(dq)
  <2>1. 1 \in Int /\ Len(dq) \in Int
    BY <1>1
  <2>2. /\ IsFiniteSet(1..Len(dq))
        /\ Cardinality(1..Len(dq)) = IF 1 > Len(dq) THEN 0 ELSE Len(dq) - 1 + 1
    BY <2>1, FS_Interval
  <2>3. QED
    BY <1>1, <2>2
<1>5. QED
  BY <1>1, <1>3, <1>4, FS_Bijection

-----------------------------------------------------------------------------
(* The steps of the policies.                                              *)

Typed ==
  /\ ref \in Seq(PageNumbers) /\ deque \in Seq(Entries)
  /\ frames \in Nat /\ last \in Nat

IInv == Typed /\ TypeOK

\* A step that asks for no page that is missing.
Same ==
  /\ Pages(deque') = Pages(deque) /\ UNCHANGED faults
  /\ i' = i \/ (i <= Len(ref) /\ i' = i + 1)

\* A page fault.
Missed ==
  /\ i <= Len(ref) /\ i' = i + 1 /\ faults' = faults + 1
  /\ New \notin Pages(deque)
  /\ IF Len(deque) < frames
       THEN Pages(deque') = Pages(deque) \cup {New}
       ELSE \E victim \in Pages(deque) \cup {New} :
              /\ victim = New => frames = 0
              /\ Pages(deque') = (Pages(deque) \cup {New}) \ {victim}

Held == deque' \in Seq(Entries) /\ Distinct(deque') /\ Len(deque') <= frames

LEMMA NewIsPage ==
  ASSUME IInv, i <= Len(ref)
  PROVE  New \in PageNumbers /\ Entry(New) \in Entries /\ Entry(New).page = New
<1>1. ref \in Seq(PageNumbers) /\ i \in 1..(Len(ref) + 1)
  BY DEF IInv, Typed, TypeOK
<1>2. i \in 1..Len(ref)
  <2>1. Len(ref) \in Nat
    BY <1>1, LenProperties
  <2>2. QED
    BY <1>1, <2>1
<1>3. New \in PageNumbers
  BY <1>1, <1>2, ElementOfSeq DEF New
<1>4. QED
  BY <1>3 DEF Entry, Entries

LEMMA DequeOK ==
  ASSUME IInv
  PROVE  /\ deque \in Seq(Entries) /\ Distinct(deque) /\ Len(deque) <= frames
         /\ frames \in Nat /\ Len(deque) \in Nat /\ DOMAIN deque = 1..Len(deque)
         /\ deque = <<>> <=> Len(deque) = 0
<1>1. deque \in Seq(Entries) /\ Distinct(deque) /\ Len(deque) <= frames /\ frames \in Nat
  BY DEF IInv, Typed, TypeOK, Distinct
<1>2. QED
  BY <1>1, LenProperties, EmptySeq

\* A page found is where Where says.
LEMMA WhereIs ==
  ASSUME IInv, Hit
  PROVE  Where(New) \in DOMAIN deque /\ deque[Where(New)].page = New
<1>1. \E k \in DOMAIN deque : deque[k].page = New
  BY DEF Hit, Pages
<1>2. QED
  BY <1>1 DEF Where

\* A missing page that one free frame takes in, in front.
LEMMA Loaded ==
  ASSUME IInv, i <= Len(ref), ~Hit, Len(deque) < frames,
         Referenced(PushFront(Entry(New), deque))
  PROVE  Held /\ Missed
<1>1. /\ deque' = PushFront(Entry(New), deque) /\ i' = i + 1 /\ faults' = faults + 1
  BY DEF Referenced
<1>2. Entry(New) \in Entries /\ Entry(New).page = New /\ New \notin Pages(deque)
  BY NewIsPage DEF Hit
<1>3. /\ deque' \in Seq(Entries) /\ Distinct(deque') /\ Pages(deque') = Pages(deque) \cup {New}
  BY <1>1, <1>2, DequeOK, Pushed
<1>4. Len(deque') = Len(deque) + 1
  BY <1>1, <1>2, DequeOK, PushFrontIndex
<1>5. Len(deque') <= frames
  BY <1>4, DequeOK
<1>6. QED
  BY <1>1, <1>2, <1>3, <1>5 DEF Held, Missed

\* A missing page that comes to the front for the page at v.
LEMMA Replaced ==
  ASSUME IInv, i <= Len(ref), ~Hit, Full, NEW v \in DOMAIN deque,
         Referenced(PushFront(Entry(New), RemoveAt(deque, v)))
  PROVE  Held /\ Missed
<1> DEFINE r == RemoveAt(deque, v)
<1>1. /\ deque' = PushFront(Entry(New), r) /\ i' = i + 1 /\ faults' = faults + 1
  BY DEF Referenced
<1>2. Entry(New) \in Entries /\ Entry(New).page = New /\ New \notin Pages(deque)
  BY NewIsPage DEF Hit
<1>3. /\ r \in Seq(Entries) /\ Distinct(r) /\ Len(r) = Len(deque) - 1
      /\ Pages(r) = Pages(deque) \ {deque[v].page} /\ deque[v].page \in Pages(deque)
  BY DequeOK, Dropped
<1> HIDE DEF r
<1>4. /\ deque' \in Seq(Entries) /\ Distinct(deque') /\ Pages(deque') = Pages(r) \cup {New}
  BY <1>1, <1>2, <1>3, Pushed
<1>5. Len(deque') = Len(r) + 1
  BY <1>1, <1>2, <1>3, PushFrontIndex
<1>6. Len(deque') <= frames /\ ~(Len(deque) < frames)
  BY <1>3, <1>5, DequeOK DEF Full
<1>7. Pages(deque') = (Pages(deque) \cup {New}) \ {deque[v].page} /\ deque[v].page # New
  BY <1>2, <1>3, <1>4
<1>8. QED
  BY <1>1, <1>2, <1>3, <1>4, <1>6, <1>7 DEF Held, Missed

\* A page found: the deque is rearranged.
LEMMA Rearranged ==
  ASSUME IInv, i <= Len(ref), Hit, NEW dq \in Seq(Entries), Referenced(dq),
         Distinct(dq), Pages(dq) = Pages(deque), Len(dq) = Len(deque)
  PROVE  Held /\ Same
BY DequeOK DEF Referenced, Held, Same

LEMMA FcfsStep == IInv /\ Fcfs => Held /\ (Same \/ Missed)
<1> SUFFICES ASSUME IInv, Fcfs PROVE Held /\ (Same \/ Missed)
  OBVIOUS
<1> DEFINE pushed == Append(deque, Entry(New))
<1>1. i <= Len(ref)
  BY DEF Fcfs, At
<1>2. CASE Hit
  <2>1. Referenced(deque)
    BY <1>2 DEF Fcfs
  <2>2. QED
    BY <1>1, <1>2, <2>1, DequeOK, Rearranged
<1>3. CASE ~Hit
  <2>1. Referenced(IF Len(pushed) > frames THEN Tail(pushed) ELSE pushed)
    BY <1>3 DEF Fcfs
  <2>2. Entry(New) \in Entries /\ Entry(New).page = New /\ New \notin Pages(deque)
    BY <1>1, <1>3, NewIsPage DEF Hit
  <2>3. /\ pushed \in Seq(Entries) /\ Len(pushed) = Len(deque) + 1
        /\ Distinct(pushed) /\ Pages(pushed) = Pages(deque) \cup {New}
    BY <2>2, DequeOK, Appended
  <2>4. /\ pushed # <<>> /\ pushed[Len(deque) + 1].page = New
    BY <2>2, DequeOK, AppendProperties
  <2> HIDE DEF pushed
  <2>5. i' = i + 1 /\ faults' = faults + 1
    BY <1>3, <2>1 DEF Referenced
  <2>6. CASE ~(Len(pushed) > frames)
    <3>1. deque' = pushed
      BY <2>1, <2>6 DEF Referenced
    <3>2. Len(deque') <= frames /\ Len(deque) < frames
      BY <2>3, <2>6, <3>1, DequeOK
    <3>3. QED
      BY <1>1, <2>2, <2>3, <2>5, <3>1, <3>2 DEF Held, Missed
  <2>7. CASE Len(pushed) > frames
    <3>1. deque' = Tail(pushed)
      BY <2>1, <2>7 DEF Referenced
    <3>2. 1 \in 1..Len(pushed) /\ Tail(pushed) = RemoveAt(pushed, 1)
      BY <2>3, <2>4, TailIsRemoveAt
    <3>3. DOMAIN pushed = 1..Len(pushed)
      BY <2>3, LenProperties
    <3>4. /\ deque' \in Seq(Entries) /\ Len(deque') = Len(pushed) - 1 /\ Distinct(deque')
          /\ Pages(deque') = Pages(pushed) \ {pushed[1].page} /\ pushed[1].page \in Pages(pushed)
      <4>1. 1 \in DOMAIN pushed
        BY <3>2, <3>3
      <4>2. LET r == RemoveAt(pushed, 1)
            IN  /\ r \in Seq(Entries) /\ Len(r) = Len(pushed) - 1 /\ Distinct(r)
                /\ Pages(r) = Pages(pushed) \ {pushed[1].page} /\ pushed[1].page \in Pages(pushed)
        BY <2>3, <4>1, Dropped
      <4>3. deque' = RemoveAt(pushed, 1)
        BY <3>1, <3>2
      <4>4. QED
        BY <4>2, <4>3
    <3>5. Len(deque') <= frames /\ ~(Len(deque) < frames)
      BY <2>3, <2>7, <3>4, DequeOK
    <3>6. pushed[1].page = New => frames = 0
      <4>1. SUFFICES ASSUME pushed[1].page = New PROVE frames = 0
        OBVIOUS
      <4>2. Len(deque) + 1 \in DOMAIN pushed
        BY <2>3, <3>3, DequeOK
      <4>3. 1 = Len(deque) + 1
        BY <2>3, <2>4, <3>2, <3>3, <4>1, <4>2 DEF Distinct
      <4>4. QED
        BY <3>5, <4>3, DequeOK
    <3>7. QED
      BY <1>1, <2>2, <2>3, <2>5, <3>4, <3>5, <3>6 DEF Held, Missed
  <2>8. QED
    BY <2>6, <2>7
<1>4. QED
  BY <1>2, <1>3

\* Least recently used on a page found: it comes to the front.
LEMMA LruHit ==
  ASSUME IInv, Lru, Hit
  PROVE  /\ deque' = PushFront(deque[Where(New)], RemoveAt(deque, Where(New)))
         /\ Held /\ Same /\ Len(deque') = Len(deque)
<1> DEFINE w == Where(New)
           dq == PushFront(deque[w], RemoveAt(deque, w))
<1>1. i <= Len(ref) /\ Referenced(dq) /\ deque' = dq
  BY DEF Lru, At, Referenced
<1>2. w \in DOMAIN deque
  BY WhereIs
<1>3. deque[w] \in Entries
  BY <1>2, DequeOK, ElementOfSeq
<1> HIDE DEF w
<1>4. /\ dq \in Seq(Entries) /\ Len(dq) = Len(deque)
      /\ Distinct(dq) /\ Pages(dq) = Pages(deque)
  BY <1>2, <1>3, DequeOK, Moved
<1> HIDE DEF dq
<1>5. Held /\ Same
  BY <1>1, <1>4, Rearranged
<1>6. QED
  BY <1>1, <1>4, <1>5 DEF dq, w

\* With a frame free a missing page comes in front, else the last one goes too.
LEMMA LruMiss ==
  ASSUME IInv, Lru, ~Hit
  PROVE  /\ Held /\ Missed
         /\ IF Len(deque) < frames
              THEN deque' = PushFront(Entry(New), deque)
              ELSE deque' = Front(PushFront(Entry(New), deque))
<1> DEFINE pushed == PushFront(Entry(New), deque)
<1>1. /\ i <= Len(ref)
      /\ Referenced(IF Len(pushed) > frames THEN Front(pushed) ELSE pushed)
  BY DEF Lru, At
<1>2. Entry(New) \in Entries /\ Entry(New).page = New /\ New \notin Pages(deque)
  BY <1>1, NewIsPage DEF Hit
<1>3. /\ pushed \in Seq(Entries) /\ Distinct(pushed) /\ Pages(pushed) = Pages(deque) \cup {New}
  BY <1>2, DequeOK, Pushed
<1>4. Len(pushed) = Len(deque) + 1 /\ pushed[1].page = New
  <2>1. Len(pushed) = Len(deque) + 1 /\ pushed[1] = Entry(New)
    BY <1>2, DequeOK, PushFrontIndex
  <2>2. QED
    BY <1>2, <2>1
<1>5. Len(pushed) > frames <=> ~(Len(deque) < frames)
  BY <1>4, DequeOK
<1>6. CASE Len(deque) < frames
  <2>1. Referenced(pushed) /\ deque' = pushed
    BY <1>1, <1>5, <1>6 DEF Referenced
  <2>2. QED
    BY <1>1, <1>6, <2>1, Loaded
<1>7. CASE ~(Len(deque) < frames)
  <2>1. deque' = Front(pushed) /\ i' = i + 1 /\ faults' = faults + 1
    BY <1>1, <1>5, <1>7 DEF Referenced
  <2> DEFINE n == Len(pushed)
  <2> HIDE DEF pushed
  <2>2. pushed # <<>>
    BY <1>4, DequeOK, EmptySeq
  <2>3. n \in 1..n /\ Front(pushed) = RemoveAt(pushed, n) /\ DOMAIN pushed = 1..n
    BY <1>3, <2>2, FrontIsRemoveAt, LenProperties
  <2>4. LET r == RemoveAt(pushed, n)
        IN  /\ r \in Seq(Entries) /\ Len(r) = n - 1 /\ Distinct(r)
            /\ Pages(r) = Pages(pushed) \ {pushed[n].page} /\ pushed[n].page \in Pages(pushed)
    BY <1>3, <2>3, Dropped
  <2>5. deque' = RemoveAt(pushed, n)
    BY <2>1, <2>3
  <2>6. /\ deque' \in Seq(Entries) /\ Len(deque') = n - 1 /\ Distinct(deque')
        /\ Pages(deque') = Pages(pushed) \ {pushed[n].page} /\ pushed[n].page \in Pages(pushed)
    BY <2>4, <2>5
  <2>7. Len(deque') <= frames
    BY <1>4, <1>7, <2>6, DequeOK
  <2>8. pushed[n].page = New => frames = 0
    <3>1. SUFFICES ASSUME pushed[n].page = New PROVE frames = 0
      OBVIOUS
    <3>2. 1 \in DOMAIN pushed /\ n \in DOMAIN pushed
      BY <1>4, <2>3, DequeOK
    <3>3. n = 1
      BY <1>3, <1>4, <3>1, <3>2 DEF Distinct
    <3>4. QED
      BY <1>4, <1>7, <3>3, DequeOK
  <2>9. Held
    BY <2>6, <2>7 DEF Held
  <2>10. Missed
    <3>1. /\ pushed[n].page \in Pages(deque) \cup {New}
          /\ Pages(deque') = (Pages(deque) \cup {New}) \ {pushed[n].page}
      BY <1>3, <2>6
    <3>2. QED
      BY <1>1, <1>2, <1>7, <2>1, <2>8, <3>1 DEF Missed
  <2>11. QED
    BY <1>7, <2>1, <2>9, <2>10 DEF pushed
<1>8. QED
  BY <1>6, <1>7

LEMMA SecondChanceStep ==
  IInv /\ (ScHit \/ ScLoad \/ ScPassOver \/ ScReplace) => Held /\ (Same \/ Missed)
<1> SUFFICES ASSUME IInv, ScHit \/ ScLoad \/ ScPassOver \/ ScReplace
             PROVE  Held /\ (Same \/ Missed)
  OBVIOUS
<1>1. CASE ScHit
  <2>1. i <= Len(ref) /\ Hit /\ Referenced([deque EXCEPT ![Where(New)].bit = 1])
    BY <1>1 DEF ScHit, At
  <2>2. Where(New) \in DOMAIN deque /\ 1 \in Nat
    BY <2>1, WhereIs
  <2> DEFINE dq == [deque EXCEPT ![Where(New)].bit = 1]
  <2>3. /\ dq \in Seq(Entries) /\ Len(dq) = Len(deque)
        /\ Distinct(dq) /\ Pages(dq) = Pages(deque)
    BY <2>2, DequeOK, Marked
  <2> HIDE DEF dq
  <2>4. Referenced(dq)
    BY <2>1 DEF dq
  <2>5. QED
    BY <2>1, <2>3, <2>4, Rearranged
<1>2. CASE ScLoad
  <2>1. i <= Len(ref) /\ ~Hit /\ ~Full /\ Referenced(PushFront(Entry(New), deque))
    BY <1>2 DEF ScLoad, At
  <2>2. Len(deque) < frames
    BY <2>1, DequeOK DEF Full
  <2>3. QED
    BY <2>1, <2>2, Loaded
<1>3. CASE ScPassOver \/ ScReplace
  <2> DEFINE n == Len(deque)
  <2>1. deque # <<>>
    BY <1>3 DEF ScPassOver, ScReplace
  <2>2. n \in DOMAIN deque /\ Front(deque) = RemoveAt(deque, n)
    BY <2>1, DequeOK, FrontIsRemoveAt
  <2>3. CASE ScReplace
    <3>1. i <= Len(ref) /\ ~Hit /\ Full /\ Referenced(PushFront(Entry(New), Front(deque)))
      BY <2>3 DEF ScReplace, At
    <3>2. Referenced(PushFront(Entry(New), RemoveAt(deque, n)))
      BY <2>2, <3>1
    <3> HIDE DEF n
    <3>3. QED
      BY <2>2, <3>1, <3>2, Replaced
  <2>4. CASE ScPassOver
    <3> DEFINE e == [deque[n] EXCEPT !.bit = 0]
               dq == PushFront(e, RemoveAt(deque, n))
    <3>1. /\ deque' = PushFront([Last(deque) EXCEPT !.bit = 0], Front(deque))
          /\ UNCHANGED <<run, pc, i, faults, out>>
      BY <2>4 DEF ScPassOver
    <3>2. deque' = dq
      BY <2>2, <3>1 DEF Last
    <3>3. deque[n] \in Entries
      BY <2>2, DequeOK, ElementOfSeq
    <3>4. e \in Entries /\ e.page = deque[n].page
      BY <3>3 DEF Entries
    <3> HIDE DEF e, n
    <3>5. /\ dq \in Seq(Entries) /\ Len(dq) = Len(deque)
          /\ Distinct(dq) /\ Pages(dq) = Pages(deque)
      BY <2>2, <3>4, DequeOK, Moved
    <3> HIDE DEF dq
    <3>6. QED
      BY <3>1, <3>2, <3>5, DequeOK DEF Held, Same
  <2>5. QED
    BY <1>3, <2>3, <2>4
<1>4. QED
  BY <1>1, <1>2, <1>3

LEMMA LfuStep == IInv /\ (LfuHit \/ LfuLoad \/ LfuReplace) => Held /\ (Same \/ Missed)
<1> SUFFICES ASSUME IInv, LfuHit \/ LfuLoad \/ LfuReplace PROVE Held /\ (Same \/ Missed)
  OBVIOUS
<1>1. CASE LfuHit
  <2> DEFINE w == Where(New)
             b == deque[w].bit + 1
             dq == [deque EXCEPT ![w].bit = b]
  <2>1. i <= Len(ref) /\ Hit /\ Referenced([deque EXCEPT ![Where(New)].bit = @ + 1])
    BY <1>1 DEF LfuHit, At
  <2>2. Referenced(dq)
    BY <2>1
  <2>3. w \in DOMAIN deque
    BY <2>1, WhereIs
  <2>4. deque[w] \in Entries
    BY <2>3, DequeOK, ElementOfSeq
  <2>5. b \in Nat
    BY <2>4 DEF Entries
  <2> HIDE DEF w, b
  <2>6. /\ dq \in Seq(Entries) /\ Len(dq) = Len(deque)
        /\ Distinct(dq) /\ Pages(dq) = Pages(deque)
    BY <2>3, <2>5, DequeOK, Marked
  <2> HIDE DEF dq
  <2>7. QED
    BY <2>1, <2>2, <2>6, Rearranged
<1>2. CASE LfuLoad
  <2>1. i <= Len(ref) /\ ~Hit /\ ~Full /\ Referenced(PushFront(Entry(New), deque))
    BY <1>2 DEF LfuLoad, At
  <2>2. Len(deque) < frames
    BY <2>1, DequeOK DEF Full
  <2>3. QED
    BY <2>1, <2>2, Loaded
<1>3. CASE LfuReplace
  <2>1. i <= Len(ref) /\ ~Hit /\ Full
    BY <1>3 DEF LfuReplace, At
  <2>2. PICK v \in DOMAIN deque : Referenced(PushFront(Entry(New), RemoveAt(deque, v)))
    BY <1>3 DEF LfuReplace
  <2>3. QED
    BY <2>1, <2>2, Replaced
<1>4. QED
  BY <1>1, <1>2, <1>3

\* What a step of any policy does to the deque.
LEMMA PolicyStep ==
  ASSUME IInv, Policy
  PROVE  /\ Held /\ (Same \/ Missed) /\ UNCHANGED <<ref, choice, last, frames>>
         /\ pc' \in {pc, "undefined"}
<1>1. CASE Fcfs
  BY <1>1, FcfsStep DEF Fcfs, Referenced, run
<1>2. CASE Lru
  BY <1>2, LruHit, LruMiss DEF Lru, Referenced, run
<1>3. CASE ScHit \/ ScLoad \/ ScPassOver \/ ScReplace
  BY <1>3, SecondChanceStep DEF ScHit, ScLoad, ScPassOver, ScReplace, Referenced, run
<1>4. CASE LfuHit \/ LfuLoad \/ LfuReplace
  BY <1>4, LfuStep DEF LfuHit, LfuLoad, LfuReplace, Referenced, run
<1>5. CASE ScNoFrames \/ LfuNoVictim
  BY <1>5, DequeOK DEF ScNoFrames, LfuNoVictim, Undefined, run, Held, Same
<1>6. QED
  BY <1>1, <1>2, <1>3, <1>4, <1>5 DEF Policy

-----------------------------------------------------------------------------
(* The invariant.                                                          *)

LEMMA ReferenceStringType ==
  ASSUME NEW s \in Sizes
  PROVE  ReferenceString(s[1], s[2]) \in Seq(PageNumbers)
<1> DEFINE n == s[1]
           m == n * n * (2 * n + 1)
           rs == ReferenceString(s[1], s[2])
<1>1. m \in Nat
  <2>1. n \in Nat
    BY InputAssumption
  <2> HIDE DEF n
  <2>2. n * n \in Nat /\ 2 * n + 1 \in Nat
    BY <2>1
  <2>3. QED
    BY <2>2
<1>2. rs = [q \in 1..m |-> rs[q]]
  BY DEF ReferenceString
<1>3. DOMAIN rs = 1..m
  BY <1>2
<1> HIDE DEF m, n, rs
<1>4. \A q \in 1..m : rs[q] \in PageNumbers
  <2>1. Range(rs) \subseteq PageNumbers
    BY DEF PageNumbers, rs
  <2>2. QED
    BY <1>3, <2>1 DEF Range
<1>5. rs \in [1..m -> PageNumbers]
  BY <1>2, <1>4
<1>6. rs \in Seq(PageNumbers)
  BY <1>1, <1>5, SeqDef
<1>7. QED
  BY <1>6 DEF rs

LEMMA InitIInv == Init => IInv
<1> SUFFICES ASSUME Init PROVE IInv
  OBVIOUS
<1>1. PICK s \in Sizes : ref = ReferenceString(s[1], s[2])
  BY DEF Init
<1>2. ref \in Seq(PageNumbers)
  BY <1>1, ReferenceStringType
<1>3. Len(ref) \in Nat
  BY <1>2, LenProperties
<1>4. /\ pc = "menu" /\ choice = 1 /\ last = 0 /\ frames = 0
      /\ i = 1 /\ deque = <<>> /\ faults = 0
  BY DEF Init, FCFS
<1>5. deque \in Seq(Entries) /\ Len(deque) = 0 /\ DOMAIN deque = {}
  BY <1>4, EmptySeq
<1>6. Typed
  BY <1>2, <1>4, <1>5 DEF Typed
<1>7. /\ pc \in {"menu", "run", "undefined", "exit"} /\ choice \in 1..4
      /\ Len(deque) <= frames
  BY <1>4, <1>5
<1>8. i \in 1..(Len(ref) + 1) /\ faults \in 0..(i - 1)
  BY <1>3, <1>4
<1>9. QED
  BY <1>5, <1>6, <1>7, <1>8 DEF IInv, TypeOK

\* The deque of a new call.
LEMMA NewCall ==
  ASSUME NEW f \in Nat, Call(f), IInv, UNCHANGED ref,
         pc' \in {"menu", "run", "undefined", "exit"}, choice' \in 1..4, last' \in Nat
  PROVE  IInv'
<1>1. frames' = f /\ i' = 1 /\ deque' = <<>> /\ faults' = 0
  BY DEF Call
<1>2. deque' \in Seq(Entries) /\ Len(deque') = 0 /\ DOMAIN deque' = {}
  BY <1>1, EmptySeq
<1>3. ref' \in Seq(PageNumbers) /\ Len(ref') \in Nat
  BY LenProperties DEF IInv, Typed
<1>4. Typed'
  BY <1>1, <1>2, <1>3 DEF Typed
<1>5. i' \in 1..(Len(ref') + 1) /\ faults' \in 0..(i' - 1) /\ Len(deque') <= frames'
  BY <1>1, <1>2, <1>3
<1>6. QED
  BY <1>2, <1>4, <1>5 DEF IInv, TypeOK

LEMMA NextIInv == IInv /\ [Next]_vars => IInv'
<1> SUFFICES ASSUME IInv, [Next]_vars PROVE IInv'
  OBVIOUS
<1>1. CASE Policy
  <2>1. /\ Held /\ UNCHANGED <<ref, choice, last, frames>>
        /\ pc' \in {pc, "undefined"} /\ (Same \/ Missed)
    BY <1>1, PolicyStep
  <2>2. Typed'
    BY <2>1 DEF IInv, Typed, Held
  <2>3. /\ pc' \in {"menu", "run", "undefined", "exit"} /\ choice' \in 1..4
        /\ Len(deque') <= frames'
    BY <2>1 DEF IInv, TypeOK, Held
  <2>4. i' \in 1..(Len(ref') + 1) /\ faults' \in 0..(i' - 1)
    <3>1. i \in 1..(Len(ref) + 1) /\ faults \in 0..(i - 1) /\ Len(ref) \in Nat /\ ref' = ref
      BY <2>1, LenProperties DEF IInv, Typed, TypeOK
    <3>2. \/ i' = i /\ faults' = faults
          \/ i <= Len(ref) /\ i' = i + 1 /\ (faults' = faults \/ faults' = faults + 1)
      BY <2>1 DEF Same, Missed
    <3>3. QED
      BY <3>1, <3>2
  <2>5. /\ \A j, k \in DOMAIN deque' : deque'[j].page = deque'[k].page => j = k
        /\ \A k \in DOMAIN deque' : deque'[k].bit \in Nat
    <3>1. deque' \in Seq(Entries) /\ Distinct(deque')
      BY <2>1 DEF Held
    <3>2. \A k \in DOMAIN deque' : deque'[k] \in Entries
      BY <3>1, LenProperties, ElementOfSeq
    <3>3. QED
      BY <3>1, <3>2 DEF Distinct, Entries
  <2>6. QED
    BY <2>2, <2>3, <2>4, <2>5 DEF IInv, TypeOK
<1>2. CASE Choose
  <2>1. PICK r \in Ranges : /\ Call(r[1]) /\ last' = r[2]
                            /\ pc' = IF r[1] <= r[2] THEN "run" ELSE "menu"
    BY <1>2 DEF Choose
  <2>2. r[1] \in Nat /\ r[2] \in Nat
    BY InputAssumption
  <2>3. pc' \in {"menu", "run", "undefined", "exit"} /\ choice' \in 1..4 /\ UNCHANGED ref
    BY <1>2, <2>1 DEF Choose, FCFS, LFU, LRU, SecondChance
  <2>4. QED
    BY <2>1, <2>2, <2>3, NewCall
<1>3. CASE WriteLine
  <2>1. UNCHANGED <<ref, choice, last>> /\ pc = "run"
    BY <1>3 DEF WriteLine
  <2>2. CASE frames < last
    <3>1. Call(frames + 1) /\ pc' = "run"
      BY <1>3, <2>1, <2>2 DEF WriteLine
    <3>2. frames + 1 \in Nat /\ last' \in Nat /\ choice' \in 1..4
      BY <2>1 DEF IInv, Typed, TypeOK
    <3>3. QED
      BY <2>1, <3>1, <3>2, NewCall
  <2>3. CASE ~(frames < last)
    <3>1. pc' = "menu" /\ UNCHANGED <<ref, choice, last, frames, i, deque, faults>>
      BY <1>3, <2>3 DEF WriteLine
    <3>2. QED
      BY <3>1 DEF IInv, Typed, TypeOK
  <2>4. QED
    BY <2>2, <2>3
<1>4. CASE Exit \/ UNCHANGED vars
  <2>1. pc' \in {pc, "exit"} /\ UNCHANGED <<ref, choice, last, frames, i, deque, faults>>
    BY <1>4 DEF Exit, vars, run
  <2>2. QED
    BY <2>1 DEF IInv, Typed, TypeOK
<1>5. QED
  BY <1>1, <1>2, <1>3, <1>4 DEF Next

LEMMA Invariance == Spec => []IInv
<1>1. QED
  BY InitIInv, NextIInv, PTL DEF Spec

\* Whatever the policy, no page is in the deque twice and there are never more
\* than frames (file_handling.cpp lines 63-110, 116-178 and 194-246),
\* and no more faults are counted than references were made.
THEOREM TypeCorrect == Spec => []TypeOK
<1>1. IInv => TypeOK
  BY DEF IInv
<1>2. QED
  BY Invariance, <1>1, PTL

-----------------------------------------------------------------------------
(* The refinement.                                                         *)

LEMMA InitPaging == Init => Paging!Init
<1> SUFFICES ASSUME Init PROVE Paging!Init
  OBVIOUS
<1>1. deque = <<>> /\ faults = 0 /\ frames = 0
  BY DEF Init
<1>2. Pages(deque) = {}
  BY <1>1 DEF Pages
<1>3. QED
  BY <1>1, <1>2 DEF Paging!Init, Paging!Empty

\* The cardinality the abstract module speaks of is the same operator.
LEMMA SameCardinality == \A S : Paging!Cardinality(S) = Cardinality(S)
BY DEF Paging!Cardinality, Cardinality

LEMMA CallRestarts == ASSUME NEW f \in Nat, Call(f) PROVE Paging!Restart
<1>1. deque' = <<>> /\ faults' = 0 /\ frames' = f
  BY DEF Call
<1>2. Pages(deque)' = {}
  BY <1>1 DEF Pages
<1>3. QED
  BY <1>1, <1>2 DEF Paging!Restart

LEMMA NextPaging == IInv /\ [Next]_vars => [Paging!Next]_Paging!paging
<1> SUFFICES ASSUME IInv, [Next]_vars PROVE [Paging!Next]_Paging!paging
  OBVIOUS
<1>1. CASE Policy
  <2>1. (Same \/ Missed) /\ frames' = frames
    BY <1>1, PolicyStep
  <2>2. CASE Same
    <3>1. Pages(deque)' = Pages(deque) /\ faults' = faults
      BY <2>2 DEF Same, Pages
    <3>2. QED
      BY <2>1, <3>1 DEF Paging!paging
  <2>3. CASE Missed
    <3>1. New \in PageNumbers
      BY <2>3, NewIsPage DEF Missed
    <3>2. Cardinality(Pages(deque)) = Len(deque)
      BY DequeOK, PagesCounted
    <3>3. Pages(deque)' = Pages(deque')
      BY DEF Pages
    <3>4. Paging!Fault(New)
      <4> DEFINE h == Pages(deque)
                 k == Pages(deque)'
                 p == New
      <4>1. p \notin h /\ faults' = faults + 1
        BY <2>3 DEF Missed
      <4>2. IF Cardinality(h) < frames
              THEN k = h \cup {p}
              ELSE \E victim \in h \cup {p} :
                     (victim = p => frames = 0) /\ k = (h \cup {p}) \ {victim}
        BY <2>3, <3>2, <3>3 DEF Missed
      <4> HIDE DEF h, k, p
      <4>3. /\ p \notin h /\ faults' = faults + 1
            /\ IF Cardinality(h) < frames
                 THEN k = h \cup {p}
                 ELSE \E victim \in h \cup {p} :
                        /\ victim = p => frames = 0
                        /\ k = (h \cup {p}) \ {victim}
            /\ UNCHANGED frames
        BY <2>1, <4>1, <4>2
      <4>4. QED
        BY <4>3, SameCardinality DEF h, k, p, Paging!Fault
    <3>5. QED
      BY <3>1, <3>4 DEF Paging!Next
  <2>4. QED
    BY <2>1, <2>2, <2>3
<1>2. CASE Choose
  <2>1. PICK r \in Ranges : Call(r[1])
    BY <1>2 DEF Choose
  <2>2. r[1] \in Nat
    BY InputAssumption
  <2>3. QED
    BY <2>1, <2>2, CallRestarts DEF Paging!Next
<1>3. CASE WriteLine
  <2>1. CASE frames < last
    <3>1. Call(frames + 1) /\ frames + 1 \in Nat
      BY <1>3, <2>1 DEF WriteLine, IInv, Typed
    <3>2. QED
      BY <3>1, CallRestarts DEF Paging!Next
  <2>2. CASE ~(frames < last)
    <3>1. UNCHANGED <<frames, deque, faults>>
      BY <1>3, <2>2 DEF WriteLine
    <3>2. QED
      BY <3>1 DEF Paging!paging, Pages
  <2>3. QED
    BY <2>1, <2>2
<1>4. CASE Exit \/ UNCHANGED vars
  <2>1. UNCHANGED <<frames, deque, faults>>
    BY <1>4 DEF Exit, vars, run
  <2>2. QED
    BY <2>1 DEF Paging!paging, Pages
<1>5. QED
  BY <1>1, <1>2, <1>3, <1>4 DEF Next

\* All four policies are demand paging, whichever victim they pick: a page is
\* brought in only when it is referenced and missing, none goes while a frame
\* is free, and the page just brought in stays unless there is no frame at all.
THEOREM ImplementsDemandPaging == Spec => DemandPaged
<1>1. QED
  BY InitPaging, NextPaging, Invariance, PTL DEF Spec, DemandPaged, Paging!Spec

-----------------------------------------------------------------------------
(* Least recently used.                                                    *)

Used == {ref[j] : j \in 1..(i - 1)}
Use  == [p \in PageNumbers |-> LastUse(p)]

\* The deque is in the order of last use, the latest first; a page used but not
\* there was last used before all that are, and then no frame is free.
InOrder ==
  /\ Use \in [PageNumbers -> 0..(i - 1)]
  /\ \A j, k \in DOMAIN deque : j < k => Use[deque[k].page] < Use[deque[j].page]
  /\ Pages(deque) \subseteq Used
  /\ \A p \in Used \ Pages(deque) :
       /\ Len(deque) = frames
       /\ \A q \in Pages(deque) : Use[p] < Use[q]

Recency == choice = LRU => InOrder

\* A reference makes its page the one used last, and moves no other.
LEMMA UseStep ==
  ASSUME IInv, i <= Len(ref), i' = i + 1, UNCHANGED ref, Use \in [PageNumbers -> 0..(i - 1)]
  PROVE  /\ i \in Nat /\ New \in PageNumbers /\ Used' = Used \cup {New}
         /\ Use' = [Use EXCEPT ![New] = i]
<1>1. i \in Nat \ {0} /\ New = ref[i]
  BY DEF IInv, TypeOK, New
<1>2. New \in PageNumbers
  BY NewIsPage
<1>3. 1..(i' - 1) = 1..(i - 1) \cup {i}
  BY <1>1
<1>4. Used' = Used \cup {New}
  BY <1>1, <1>3 DEF Used
<1>5. ASSUME NEW p \in PageNumbers
      PROVE  LastUse(p)' = IF p = New THEN i ELSE LastUse(p)
  <2> DEFINE uses == {j \in 1..(i - 1) : ref[j] = p}
             now == {j \in 1..(i' - 1) : ref[j] = p}
  <2>1. LastUse(p)' = IF now = {} THEN 0 ELSE Max(now)
    BY DEF LastUse
  <2>2. LastUse(p) = IF uses = {} THEN 0 ELSE Max(uses)
    BY DEF LastUse
  <2>3. CASE p # New
    <3>1. now = uses
      BY <1>1, <1>3, <2>3
    <3>2. QED
      BY <2>1, <2>2, <2>3, <3>1
  <2>4. CASE p = New
    <3>1. i \in now /\ \A y \in now : y \in Nat /\ y <= i
      BY <1>1, <1>3, <2>4
    <3> HIDE DEF now
    <3>2. \A y \in now : i >= y
      BY <1>1, <3>1
    <3>3. \A x \in now : (\A y \in now : x >= y) => x = i
      BY <1>1, <3>1
    <3>4. Max(now) = i
      BY <3>1, <3>2, <3>3 DEF Max
    <3>5. QED
      BY <2>1, <2>4, <3>1, <3>4
  <2>5. QED
    BY <2>3, <2>4
<1>6. Use' = [Use EXCEPT ![New] = i]
  <2>1. Use' = [p \in PageNumbers |-> LastUse(p)']
    BY DEF Use
  <2>2. Use = [p \in PageNumbers |-> LastUse(p)]
    BY DEF Use
  <2>3. QED
    BY <1>2, <1>5, <2>1, <2>2
<1>7. QED
  BY <1>1, <1>2, <1>4, <1>6

LEMMA UsedPages ==
  ASSUME IInv
  PROVE  Used \subseteq PageNumbers /\ Pages(deque) \subseteq PageNumbers
<1>1. \A k \in DOMAIN deque : deque[k] \in Entries
  BY DequeOK, ElementOfSeq
<1>2. ref \in Seq(PageNumbers) /\ i \in 1..(Len(ref) + 1) /\ Len(ref) \in Nat
  BY LenProperties DEF IInv, Typed, TypeOK
<1>3. \A j \in 1..(i - 1) : j \in 1..Len(ref)
  BY <1>2
<1>4. \A j \in 1..(i - 1) : ref[j] \in PageNumbers
  BY <1>2, <1>3, ElementOfSeq
<1>5. QED
  BY <1>1, <1>4 DEF Used, Pages, Entries

\* What makes a deque ordered again: the new page in front of others kept in
\* their order, m saying where each was.
LEMMA FrontOrdered ==
  ASSUME IInv, InOrder, i \in Nat, New \in PageNumbers, Use' = [Use EXCEPT ![New] = i],
         NEW dq \in Seq(Entries), 1 \in DOMAIN dq => dq[1].page = New,
         NEW m, \A k \in DOMAIN dq \ {1} : /\ m[k] \in DOMAIN deque /\ dq[k] = deque[m[k]]
                                           /\ deque[m[k]].page # New,
         \A j, k \in DOMAIN dq \ {1} : j < k => m[j] < m[k]
  PROVE  \A j, k \in DOMAIN dq : j < k => Use'[dq[k].page] < Use'[dq[j].page]
<1>1. SUFFICES ASSUME NEW j \in DOMAIN dq, NEW k \in DOMAIN dq, j < k
               PROVE  Use'[dq[k].page] < Use'[dq[j].page]
  OBVIOUS
<1>2. DOMAIN dq = 1..Len(dq) /\ Len(dq) \in Nat
  BY LenProperties
<1>3. k # 1
  BY <1>1, <1>2
<1>4. dq[k].page # New /\ dq[k].page \in PageNumbers /\ dq[k] = deque[m[k]] /\ m[k] \in DOMAIN deque
  <2>1. dq[k] \in Entries
    BY <1>2, ElementOfSeq
  <2>2. QED
    BY <1>3, <2>1 DEF Entries
<1>5. Use \in [PageNumbers -> 0..(i - 1)]
  BY DEF InOrder
<1>6. Use'[dq[k].page] = Use[dq[k].page] /\ Use[dq[k].page] \in 0..(i - 1)
  BY <1>4, <1>5
<1>7. CASE j = 1
  <2>1. Use'[dq[j].page] = i
    BY <1>1, <1>5, <1>7
  <2>2. QED
    BY <1>6, <2>1
<1>8. CASE j # 1
  <2>1. dq[j].page # New /\ dq[j].page \in PageNumbers /\ dq[j] = deque[m[j]] /\ m[j] \in DOMAIN deque
    <3>1. dq[j] \in Entries
      BY <1>2, ElementOfSeq
    <3>2. QED
      BY <1>8, <3>1 DEF Entries
  <2>2. Use'[dq[j].page] = Use[dq[j].page]
    BY <1>5, <2>1
  <2>3. m[j] < m[k]
    BY <1>1, <1>3, <1>8
  <2>4. Use[deque[m[k]].page] < Use[deque[m[j]].page]
    BY <1>4, <2>1, <2>3 DEF InOrder
  <2>5. QED
    BY <1>4, <1>6, <2>1, <2>2, <2>4
<1>9. QED
  BY <1>7, <1>8

LEMMA LruHitOrdered == ASSUME IInv, InOrder, Lru, Hit PROVE InOrder'
<1> DEFINE w == Where(New)
           r == RemoveAt(deque, w)
           n == Len(deque)
<1>1. /\ i <= Len(ref) /\ i' = i + 1 /\ UNCHANGED <<ref, frames>>
  BY DEF Lru, At, Referenced, run
<1>2. /\ i \in Nat /\ New \in PageNumbers /\ Used' = Used \cup {New}
      /\ Use' = [Use EXCEPT ![New] = i]
  BY <1>1, UseStep DEF InOrder
<1>3. /\ deque' = PushFront(deque[w], r) /\ Len(deque') = n
      /\ deque' \in Seq(Entries) /\ Pages(deque') = Pages(deque)
  BY LruHit DEF Held, Same
<1>4. w \in DOMAIN deque /\ deque[w].page = New
  BY WhereIs
<1>5. /\ deque \in Seq(Entries) /\ Distinct(deque) /\ n \in Nat /\ DOMAIN deque = 1..n
  BY DequeOK
<1> HIDE DEF w
<1>6. /\ r \in Seq(Entries) /\ Len(r) = n - 1
      /\ \A k \in 1..(n - 1) : r[k] = IF k < w THEN deque[k] ELSE deque[k + 1]
  BY <1>4, <1>5, RemoveAtIndex
<1>7. deque[w] \in Entries
  BY <1>4, <1>5, ElementOfSeq
<1> HIDE DEF r, n
<1>8. /\ deque'[1] = deque[w]
      /\ \A k \in 2..n : deque'[k] = r[k - 1]
  <2>1. \A k \in 2..(Len(r) + 1) : deque'[k] = r[k - 1]
    BY ZenonT(60), <1>3, <1>6, <1>7, PushFrontIndex
  <2>2. Len(r) + 1 = n
    BY <1>5, <1>6
  <2>3. QED
    BY ZenonT(60), <1>3, <1>6, <1>7, <2>1, <2>2, PushFrontIndex
<1>9. DOMAIN deque' = 1..n
  BY <1>3, LenProperties
<1> DEFINE m == [k \in 1..n |-> IF k - 1 < w THEN k - 1 ELSE k]
<1>10. \A k \in DOMAIN deque' \ {1} : /\ m[k] \in DOMAIN deque /\ deque'[k] = deque[m[k]]
                                      /\ m[k] # w
  <2>1. SUFFICES ASSUME NEW k \in 2..n
                 PROVE  m[k] \in DOMAIN deque /\ deque'[k] = deque[m[k]] /\ m[k] # w
    <3>1. DOMAIN deque' \ {1} = 2..n
      BY <1>5, <1>9
    <3> HIDE DEF m
    <3>2. QED
      BY <3>1
  <2>2. k - 1 \in 1..(n - 1) /\ k \in 1..n /\ w \in 1..n /\ deque'[k] = r[k - 1]
    BY <1>4, <1>5, <1>8, <2>1
  <2>3. r[k - 1] = IF k - 1 < w THEN deque[k - 1] ELSE deque[k - 1 + 1]
    BY <1>6, <2>2
  <2>4. CASE k - 1 < w
    <3>1. m[k] = k - 1 /\ k - 1 \in 1..n /\ k - 1 # w
      BY <1>5, <2>2, <2>4
    <3>2. QED
      BY <1>5, <2>2, <2>3, <2>4, <3>1
  <2>5. CASE ~(k - 1 < w)
    <3>1. m[k] = k /\ k - 1 + 1 = k /\ k # w
      BY <1>5, <2>2, <2>5
    <3>2. QED
      BY <1>5, <2>2, <2>3, <2>5, <3>1
  <2>6. QED
    BY <2>4, <2>5
<1>11. \A j, k \in DOMAIN deque' \ {1} : j < k => m[j] < m[k]
  BY <1>4, <1>5, <1>9
<1> HIDE DEF m
<1>12. \A k \in DOMAIN deque' \ {1} : deque[m[k]].page # New
  BY <1>4, <1>5, <1>10 DEF Distinct
<1>13. \A j, k \in DOMAIN deque' : j < k => Use'[deque'[k].page] < Use'[deque'[j].page]
  BY ZenonT(60), <1>2, <1>3, <1>4, <1>8, <1>10, <1>11, <1>12, FrontOrdered
<1>14. Use' \in [PageNumbers -> 0..(i' - 1)]
  BY <1>1, <1>2 DEF InOrder
<1>15. Pages(deque') \subseteq Used'
  BY <1>2, <1>3 DEF InOrder
<1>16. ASSUME NEW p \in Used' \ Pages(deque')
       PROVE  Len(deque') = frames' /\ \A q \in Pages(deque') : Use'[p] < Use'[q]
  <2>1. New \in Pages(deque)
    BY DEF Hit
  <2>2. p \in Used \ Pages(deque) /\ p # New
    BY <1>2, <1>3, <1>16, <2>1
  <2>3. Len(deque') = frames' /\ \A q \in Pages(deque) : Use[p] < Use[q]
    BY <1>1, <1>3, <2>2 DEF InOrder, n
  <2>4. p \in PageNumbers /\ \A q \in Pages(deque) : q \in PageNumbers
    BY <2>2, UsedPages
  <2>5. Use \in [PageNumbers -> 0..(i - 1)]
    BY DEF InOrder
  <2>6. ASSUME NEW q \in Pages(deque) PROVE Use'[p] < Use'[q]
    <3>1. Use'[p] = Use[p] /\ Use[p] \in 0..(i - 1) /\ Use[p] < Use[q]
      BY <1>2, <2>2, <2>3, <2>4, <2>5
    <3>2. CASE q = New
      BY <1>2, <2>5, <3>1, <3>2
    <3>3. CASE q # New
      BY <1>2, <2>4, <2>5, <3>1, <3>3
    <3>4. QED
      BY <3>2, <3>3
  <2>7. QED
    BY <1>3, <2>3, <2>6
<1>17. Pages(deque)' = Pages(deque')
  BY DEF Pages
<1>18. QED
  BY <1>13, <1>14, <1>15, <1>16, <1>17 DEF InOrder

LEMMA LruMissOrdered == ASSUME IInv, InOrder, Lru, ~Hit PROVE InOrder'
<1> DEFINE pushed == PushFront(Entry(New), deque)
           n == Len(deque)
<1>1. /\ i <= Len(ref) /\ i' = i + 1 /\ UNCHANGED <<ref, frames>>
  BY DEF Lru, At, Referenced, run
<1>2. /\ i \in Nat /\ New \in PageNumbers /\ Used' = Used \cup {New}
      /\ Use' = [Use EXCEPT ![New] = i]
  BY <1>1, UseStep DEF InOrder
<1>3. /\ deque' = IF n < frames THEN pushed ELSE Front(pushed)
      /\ deque' \in Seq(Entries)
  BY LruMiss DEF Held
<1>4. /\ deque \in Seq(Entries) /\ n \in Nat /\ DOMAIN deque = 1..n
      /\ n <= frames /\ frames \in Nat
  BY DequeOK
<1>5. Entry(New) \in Entries /\ Entry(New).page = New /\ New \notin Pages(deque)
  BY <1>1, NewIsPage DEF Hit
<1> HIDE DEF n
<1>6. /\ pushed \in Seq(Entries) /\ Len(pushed) = n + 1 /\ pushed[1] = Entry(New)
      /\ \A k \in 2..(n + 1) : pushed[k] = deque[k - 1]
  BY <1>4, <1>5, PushFrontIndex DEF n
<1> HIDE DEF pushed
<1>7. /\ Len(deque') = IF n < frames THEN n + 1 ELSE n
      /\ \A k \in 1..Len(deque') : deque'[k] = pushed[k]
  <2>1. CASE n < frames
    BY <1>3, <1>6, <2>1
  <2>2. CASE ~(n < frames)
    <3>1. pushed # <<>>
      BY <1>4, <1>6, EmptySeq
    <3>2. Front(pushed) = RemoveAt(pushed, n + 1) /\ n + 1 \in 1..Len(pushed)
      BY <1>6, <3>1, FrontIsRemoveAt
    <3>3. /\ Len(RemoveAt(pushed, n + 1)) = Len(pushed) - 1
          /\ \A k \in 1..(Len(pushed) - 1) :
               RemoveAt(pushed, n + 1)[k] = IF k < n + 1 THEN pushed[k] ELSE pushed[k + 1]
      BY <1>6, <3>2, RemoveAtIndex
    <3>4. deque' = RemoveAt(pushed, n + 1)
      BY <1>3, <2>2, <3>2
    <3>5. /\ Len(deque') = n + 1 - 1
          /\ \A k \in 1..(n + 1 - 1) :
               deque'[k] = IF k < n + 1 THEN pushed[k] ELSE pushed[k + 1]
      <4> DEFINE last1 == Len(pushed) - 1
                 r == RemoveAt(pushed, n + 1)
      <4>1. /\ Len(r) = last1
            /\ \A k \in 1..last1 : r[k] = IF k < n + 1 THEN pushed[k] ELSE pushed[k + 1]
        BY <3>3
      <4>2. last1 = n + 1 - 1
        BY <1>4, <1>6
      <4>3. deque' = r
        BY <3>4
      <4> HIDE DEF last1, r
      <4>4. QED
        BY <4>1, <4>2, <4>3
    <3>6. QED
      BY <1>4, <2>2, <3>5
  <2>3. QED
    BY <2>1, <2>2
<1>8. DOMAIN deque' = 1..Len(deque') /\ Len(deque') \in 0..(n + 1)
  <2>1. DOMAIN deque' = 1..Len(deque')
    BY <1>3, LenProperties
  <2>2. QED
    BY <1>4, <1>7, <2>1
<1> DEFINE m == [k \in 1..(n + 1) |-> k - 1]
<1>9. 1 \in DOMAIN deque' => deque'[1].page = New
  BY <1>5, <1>6, <1>7, <1>8
<1>10. \A k \in DOMAIN deque' \ {1} : m[k] = k - 1 /\ m[k] \in DOMAIN deque /\ deque'[k] = deque[m[k]]
  <2>1. SUFFICES ASSUME NEW k \in DOMAIN deque' \ {1}
                 PROVE  m[k] = k - 1 /\ m[k] \in DOMAIN deque /\ deque'[k] = deque[m[k]]
    OBVIOUS
  <2>2. k \in 2..(n + 1) /\ k \in 1..Len(deque')
    BY <1>4, <1>8, <2>1
  <2>3. m[k] = k - 1 /\ k - 1 \in 1..n
    BY <1>4, <2>2
  <2>4. deque'[k] = deque[k - 1]
    BY <1>6, <1>7, <2>2
  <2>5. QED
    BY <1>4, <2>3, <2>4
<1>11. \A j, k \in DOMAIN deque' \ {1} : j < k => m[j] < m[k]
  <2>1. \A k \in DOMAIN deque' : k \in Nat
    BY <1>8
  <2> HIDE DEF m
  <2>2. QED
    BY <1>10, <2>1
<1> HIDE DEF m
<1>12. \A k \in DOMAIN deque' \ {1} : deque[m[k]].page # New
  BY <1>5, <1>10 DEF Pages
<1>13. \A j, k \in DOMAIN deque' : j < k => Use'[deque'[k].page] < Use'[deque'[j].page]
  <2>1. \A k \in DOMAIN deque' \ {1} : /\ m[k] \in DOMAIN deque /\ deque'[k] = deque[m[k]]
                                         /\ deque[m[k]].page # New
    BY <1>10, <1>12
  <2>2. deque' \in Seq(Entries)
    BY <1>3
  <2>3. QED
    BY <1>2, <1>9, <1>11, <2>1, <2>2, FrontOrdered
<1>14. Use' \in [PageNumbers -> 0..(i' - 1)]
  BY <1>1, <1>2 DEF InOrder
<1>15. Pages(deque') \subseteq Used'
  <2>1. ASSUME NEW k \in DOMAIN deque' PROVE deque'[k].page \in Used'
    <3>1. CASE k = 1
      BY <1>2, <1>9, <2>1, <3>1
    <3>2. CASE k # 1
      <4>1. deque'[k].page \in Pages(deque)
        BY <1>10, <2>1, <3>2 DEF Pages
      <4>2. QED
        BY <1>2, <4>1 DEF InOrder
    <3>3. QED
      BY <3>1, <3>2
  <2>2. QED
    BY <2>1 DEF Pages
<1>16. ASSUME NEW p \in Used' \ Pages(deque')
       PROVE  Len(deque') = frames' /\ \A q \in Pages(deque') : Use'[p] < Use'[q]
  <2>1. CASE n < frames
    <3>1. p \in Pages(deque) \cup {New}
      <4>1. p \in Used \cup {New}
        BY <1>2, <1>16
      <4>2. p \in Used \ Pages(deque) => n = frames
        BY DEF InOrder, n
      <4>3. n # frames
        BY <1>4, <2>1
      <4>4. QED
        BY <4>1, <4>2, <4>3
    <3>2. Pages(deque) \cup {New} \subseteq Pages(deque')
      <4>1. 1 \in DOMAIN deque'
        BY <1>4, <1>7, <1>8, <2>1
      <4>2. New \in Pages(deque')
        BY <1>9, <4>1 DEF Pages
      <4>3. ASSUME NEW k \in DOMAIN deque PROVE deque[k].page \in Pages(deque')
        <5>1. k + 1 \in DOMAIN deque' /\ k + 1 \in 2..(n + 1) /\ k + 1 - 1 = k
          BY <1>4, <1>7, <1>8, <2>1, <4>3
        <5>2. deque'[k + 1] = pushed[k + 1]
          BY <1>7, <1>8, <5>1
        <5>3. pushed[k + 1] = deque[k + 1 - 1]
          BY <1>6, <5>1
        <5>4. deque'[k + 1] = deque[k]
          BY <5>1, <5>2, <5>3
        <5>5. QED
          BY <5>1, <5>4 DEF Pages
      <4>4. QED
        BY <4>2, <4>3 DEF Pages
    <3>3. QED
      BY <1>16, <3>1, <3>2
  <2>2. CASE ~(n < frames)
    <3>1. Len(deque') = frames' /\ n = frames /\ DOMAIN deque' = 1..n
      BY <1>1, <1>4, <1>7, <1>8, <2>2
    <3>2. SUFFICES ASSUME NEW k \in DOMAIN deque' PROVE Use'[p] < Use'[deque'[k].page]
      BY <3>1 DEF Pages
    <3>3. 1 \in DOMAIN deque' /\ k \in 1..n
      BY <1>4, <3>1, <3>2
    <3>4. p # New
      BY <1>9, <1>16, <3>3 DEF Pages
    <3>5. p \in Used /\ p \in PageNumbers
      BY <1>2, <1>16, <3>4, UsedPages
    <3>6. Use \in [PageNumbers -> 0..(i - 1)]
      BY DEF InOrder
    <3>7. Use'[p] = Use[p] /\ Use[p] \in 0..(i - 1)
      BY <1>2, <3>4, <3>5, <3>6
    <3>8. CASE k = 1
      <4>1. Use'[deque'[k].page] = i
        BY <1>2, <1>9, <3>3, <3>6, <3>8
      <4>2. QED
        BY <1>2, <3>7, <4>1
    <3>9. CASE k # 1
      <4> DEFINE q == deque[k - 1].page
      <4>1. k - 1 \in DOMAIN deque /\ deque'[k].page = q /\ q # New /\ q \in Pages(deque)
        BY <1>10, <1>12, <3>2, <3>9 DEF Pages
      <4>2. q \in PageNumbers
        BY <4>1, UsedPages
      <4> HIDE DEF q
      <4>3. Use'[q] = Use[q]
        BY <1>2, <3>6, <4>1, <4>2
      <4>4. Use[p] < Use[q]
        <5>1. CASE p \notin Pages(deque)
          BY <3>5, <4>1, <5>1 DEF InOrder
        <5>2. CASE p \in Pages(deque)
          <6>1. PICK l \in DOMAIN deque : deque[l].page = p
            BY <5>2 DEF Pages
          <6>2. l = n
            <7>1. SUFFICES ASSUME l # n PROVE FALSE
              OBVIOUS
            <7>2. l + 1 \in DOMAIN deque' /\ l + 1 \in 2..(n + 1) /\ l + 1 - 1 = l
              BY <1>4, <3>1, <6>1, <7>1
            <7>3. deque'[l + 1] = pushed[l + 1]
              BY <1>7, <1>8, <7>2
            <7>4. pushed[l + 1] = deque[l + 1 - 1]
              BY <1>4, <1>6, <6>1, <7>2
            <7>5. deque'[l + 1] = deque[l]
              BY <7>2, <7>3, <7>4
            <7>6. p \in Pages(deque')
              BY <6>1, <7>2, <7>5 DEF Pages
            <7>7. QED
              BY <1>16, <7>6
          <6>3. k - 1 < l
            BY <1>4, <3>3, <6>2
          <6>4. QED
            BY <4>1, <6>1, <6>3 DEF InOrder, q
        <5>3. QED
          BY <5>1, <5>2
      <4>5. QED
        BY <3>7, <4>1, <4>3, <4>4
    <3>10. QED
      BY <3>8, <3>9
  <2>3. QED
    BY <2>1, <2>2
<1>17. Pages(deque)' = Pages(deque')
  BY DEF Pages
<1>18. QED
  BY <1>13, <1>14, <1>15, <1>16, <1>17 DEF InOrder

LEMMA CallInOrder == ASSUME NEW f, Call(f) PROVE InOrder'
<1>1. i' = 1 /\ deque' = <<>>
  BY DEF Call
<1>2. 1..(i' - 1) = {} /\ 0 \in 0..(i' - 1) /\ DOMAIN deque' = {}
  BY <1>1
<1>3. Used' = {}
  BY <1>2 DEF Used
<1>4. \A p \in PageNumbers : LastUse(p)' = 0
  BY <1>2 DEF LastUse
<1>5. Use' = [p \in PageNumbers |-> LastUse(p)']
  BY DEF Use
<1>6. Use' \in [PageNumbers -> 0..(i' - 1)]
  BY <1>2, <1>4, <1>5
<1>7. Pages(deque)' = {}
  BY <1>2 DEF Pages
<1>8. \A j, k \in DOMAIN deque' : j < k => Use'[deque'[k].page] < Use'[deque'[j].page]
  BY <1>2
<1>9. QED
  BY <1>3, <1>6, <1>7, <1>8 DEF InOrder

LEMMA SameInOrder ==
  ASSUME Recency, UNCHANGED <<ref, choice, frames, i, deque>> PROVE Recency'
<1>1. Used' = Used /\ Pages(deque)' = Pages(deque)
  BY DEF Used, Pages
<1>2. \A p \in PageNumbers : LastUse(p)' = LastUse(p)
  BY DEF LastUse
<1>3. Use' = Use
  BY <1>2 DEF Use
<1>4. InOrder => InOrder'
  BY <1>1, <1>3 DEF InOrder
<1>5. QED
  BY <1>4 DEF Recency

LEMMA NextRecency == IInv /\ Recency /\ [Next]_vars => Recency'
<1> SUFFICES ASSUME IInv, Recency, [Next]_vars PROVE Recency'
  OBVIOUS
<1>1. CASE Policy
  <2>1. SUFFICES ASSUME choice' = LRU PROVE InOrder'
    BY DEF Recency
  <2>2. choice = LRU
    BY <1>1, <2>1, PolicyStep
  <2>3. InOrder
    BY <2>2 DEF Recency
  <2>4. Lru \/ UNCHANGED <<ref, choice, frames, i, deque>>
    <3>1. ~(Fcfs \/ ScHit \/ ScLoad \/ ScPassOver \/ ScReplace \/ LfuHit \/ LfuLoad \/ LfuReplace)
      BY <2>2 DEF Fcfs, ScHit, ScLoad, ScPassOver, ScReplace, LfuHit, LfuLoad, LfuReplace,
                  At, FCFS, LRU, LFU, SecondChance
    <3>2. ~(ScNoFrames \/ LfuNoVictim)
      BY <2>2 DEF ScNoFrames, LfuNoVictim, At, LRU, LFU, SecondChance
    <3>3. QED
      BY <1>1, <3>1, <3>2 DEF Policy
  <2>5. CASE Lru
    BY <2>3, <2>5, LruHitOrdered, LruMissOrdered
  <2>6. CASE UNCHANGED <<ref, choice, frames, i, deque>>
    BY <2>1, <2>6, SameInOrder DEF Recency
  <2>7. QED
    BY <2>4, <2>5, <2>6
<1>2. CASE Choose
  <2>1. PICK r \in Ranges : Call(r[1])
    BY <1>2 DEF Choose
  <2>2. QED
    BY <2>1, CallInOrder DEF Recency
<1>3. CASE WriteLine
  <2>1. CASE frames < last
    <3>1. Call(frames + 1)
      BY <1>3, <2>1 DEF WriteLine
    <3>2. QED
      BY <3>1, CallInOrder DEF Recency
  <2>2. CASE ~(frames < last)
    <3>1. UNCHANGED <<ref, choice, frames, i, deque>>
      BY <1>3, <2>2 DEF WriteLine
    <3>2. QED
      BY <3>1, SameInOrder
  <2>3. QED
    BY <2>1, <2>2
<1>4. CASE Exit \/ UNCHANGED vars
  <2>1. UNCHANGED <<ref, choice, frames, i, deque>>
    BY <1>4 DEF Exit, vars, run
  <2>2. QED
    BY <2>1, SameInOrder
<1>5. QED
  BY <1>1, <1>2, <1>3, <1>4 DEF Next

\* How many pages were used after p.
Later(p) == {q \in Used : LastUse(q) > LastUse(p)}

LEMMA UsedFinite == ASSUME IInv PROVE IsFiniteSet(Used) /\ Range(SubSeq(ref, 1, i - 1)) = Used
<1> DEFINE f == [j \in 1..(i - 1) |-> ref[j]]
           s == SubSeq(ref, 1, i - 1)
<1>1. ref \in Seq(PageNumbers) /\ i \in 1..(Len(ref) + 1) /\ Len(ref) \in Nat
  BY LenProperties DEF IInv, Typed, TypeOK
<1>2. IsFiniteSet(Used)
  <2>1. 1 \in Int /\ i - 1 \in Int
    BY <1>1
  <2>2. IsFiniteSet(1..(i - 1))
    BY <2>1, FS_Interval
  <2>3. f \in Surjection(1..(i - 1), Used)
    BY DEF Surjection, Used
  <2>4. QED
    BY <2>2, <2>3, FS_Surjection
<1>3. Range(s) = Used
  <2>1. 1 \in Int /\ i - 1 \in Int
    BY <1>1
  <2>2. \A j \in 1..(i - 1) : ref[j] \in PageNumbers
    <3>1. \A j \in 1..(i - 1) : j \in 1..Len(ref)
      BY <1>1
    <3>2. QED
      BY <1>1, <3>1, ElementOfSeq
  <2>3. /\ s \in Seq(PageNumbers) /\ Len(s) = IF 1 <= i - 1 THEN i - 1 - 1 + 1 ELSE 0
        /\ \A j \in 1..(i - 1 - 1 + 1) : s[j] = ref[1 + j - 1]
    BY <2>1, <2>2, SubSeqProperties, Z3
  <2> HIDE DEF s
  <2>4. Len(s) = i - 1 /\ \A j \in 1..(i - 1) : s[j] = ref[j]
    BY <1>1, <2>3
  <2>5. DOMAIN s = 1..(i - 1)
    BY <2>3, <2>4, LenProperties
  <2>6. QED
    BY <2>4, <2>5 DEF Range, Used
<1>4. QED
  BY <1>2, <1>3

\* The pages used after the one at k are those before it in the deque.
LEMMA RankOfHeld ==
  ASSUME IInv, InOrder, NEW k \in DOMAIN deque
  PROVE  Cardinality(Later(deque[k].page)) = k - 1
<1> DEFINE p == deque[k].page
           f == [j \in 1..(k - 1) |-> deque[j].page]
<1>1. DOMAIN deque = 1..Len(deque) /\ Len(deque) \in Nat /\ Distinct(deque)
  BY DequeOK
<1>2. \A j \in 1..(k - 1) : j \in DOMAIN deque /\ j < k
  BY <1>1
<1>3. \A q \in Used : q \in PageNumbers /\ Use[q] = LastUse(q) /\ Use[q] \in Int
  BY UsedPages DEF Use, InOrder
<1>4. \A j \in DOMAIN deque : deque[j].page \in Used /\ deque[j].page \in Pages(deque)
  BY DEF InOrder, Pages
<1>5. f \in [1..(k - 1) -> Later(p)]
  <2>1. SUFFICES ASSUME NEW j \in 1..(k - 1) PROVE deque[j].page \in Later(p)
    OBVIOUS
  <2>2. Use[deque[k].page] < Use[deque[j].page]
    BY <1>2, <2>1 DEF InOrder
  <2>3. deque[j].page \in Used /\ p \in Used
    BY <1>2, <1>4, <2>1
  <2>4. QED
    BY <1>3, <2>2, <2>3 DEF Later
<1>6. IsInjective(f)
  BY <1>1, <1>2 DEF IsInjective, Distinct
<1>7. ASSUME NEW q \in Later(p) PROVE \E j \in 1..(k - 1) : f[j] = q
  <2>1. q \in Used /\ p \in Used /\ Use[q] > Use[p]
    BY <1>3, <1>4, <1>7 DEF Later
  <2>2. q \in Pages(deque)
    <3>1. SUFFICES ASSUME q \notin Pages(deque) PROVE FALSE
      OBVIOUS
    <3>2. Use[q] < Use[p]
      BY <1>4, <2>1, <3>1 DEF InOrder
    <3>3. QED
      BY <1>3, <2>1, <3>2
  <2>3. PICK j \in DOMAIN deque : deque[j].page = q
    BY <2>2 DEF Pages
  <2>4. j # k /\ ~(k < j)
    <3>1. k < j => Use[q] < Use[p]
      BY <2>3 DEF InOrder
    <3>2. j = k => q = p
      BY <2>3
    <3>3. QED
      BY <1>3, <2>1, <3>1, <3>2
  <2>5. j \in 1..(k - 1)
    BY <1>1, <2>4
  <2>6. QED
    BY <2>3, <2>5
<1>8. k - 1 \in Nat /\ 1 \in Int
  BY <1>1
<1> HIDE DEF p
<1>9. f \in Bijection(1..(k - 1), Later(p))
  BY <1>5, <1>6, <1>7 DEF Bijection, Injection, Surjection
<1>10. /\ IsFiniteSet(1..(k - 1))
       /\ Cardinality(1..(k - 1)) = IF 1 > k - 1 THEN 0 ELSE k - 1 - 1 + 1
  BY <1>8, FS_Interval
<1>11. Cardinality(Later(p)) = Cardinality(1..(k - 1))
  BY <1>9, <1>10, FS_Bijection DEF ExistsBijection
<1>12. QED
  BY <1>8, <1>10, <1>11 DEF p

\* Every page held was used after one that is used but not held.
LEMMA RankOfGone ==
  ASSUME IInv, InOrder, NEW p \in Used \ Pages(deque)
  PROVE  ~(Cardinality(Later(p)) < frames)
<1>1. /\ deque \in Seq(Entries) /\ Distinct(deque) /\ frames \in Nat
      /\ IsFiniteSet(Pages(deque)) /\ Cardinality(Pages(deque)) = Len(deque)
  BY DequeOK, PagesCounted
<1>2. Len(deque) = frames /\ \A q \in Pages(deque) : q \in Used /\ Use[p] < Use[q]
  BY DEF InOrder
<1>3. \A q \in Used : q \in PageNumbers /\ Use[q] = LastUse(q) /\ Use[q] \in Int
  BY UsedPages DEF Use, InOrder
<1>4. Pages(deque) \subseteq Later(p)
  BY <1>2, <1>3 DEF Later
<1>5. IsFiniteSet(Later(p)) /\ Cardinality(Later(p)) \in Nat
  <2>1. Later(p) \in SUBSET Used /\ IsFiniteSet(Used)
    BY UsedFinite DEF Later
  <2>2. IsFiniteSet(Later(p))
    BY <2>1, FS_Subset
  <2>3. QED
    BY <2>2, FS_CardinalityType
<1>6. Cardinality(Pages(deque)) <= Cardinality(Later(p))
  BY <1>4, <1>5, FS_Subset
<1>7. QED
  BY <1>1, <1>2, <1>5, <1>6

LEMMA RecencyHolds == Spec => []Recency
<1>1. Init => Recency
  BY DEF Init, Recency, FCFS, LRU
<1>2. QED
  BY <1>1, NextRecency, Invariance, PTL DEF Spec

\* Least recently used (lines 84-110) holds exactly the pages used last, as
\* many as there are frames, the latest first, after every reference of every
\* reference string: a page in a smaller number of frames is in a larger one.
THEOREM LruExact == Spec => []LruKeepsRecent
<1>1. IInv /\ Recency => LruKeepsRecent
  <2>1. SUFFICES ASSUME IInv, InOrder
                 PROVE  LET used == Range(SubSeq(ref, 1, i - 1))
                            rank(p) == Cardinality({q \in used : LastUse(q) > LastUse(p)})
                        IN /\ Pages(deque) = {p \in used : rank(p) < frames}
                           /\ \A k \in DOMAIN deque : rank(deque[k].page) = k - 1
    BY DEF Recency, LruKeepsRecent
  <2>2. Range(SubSeq(ref, 1, i - 1)) = Used
    BY <2>1, UsedFinite
  <2>3. \A k \in DOMAIN deque : Cardinality(Later(deque[k].page)) = k - 1 /\ k - 1 < frames
    BY <2>1, RankOfHeld, DequeOK
  <2>4. Pages(deque) = {p \in Used : Cardinality(Later(p)) < frames}
    <3>1. \A p \in Pages(deque) : p \in Used /\ Cardinality(Later(p)) < frames
      BY <2>1, <2>3 DEF Pages, InOrder
    <3>2. \A p \in Used \ Pages(deque) : ~(Cardinality(Later(p)) < frames)
      BY <2>1, RankOfGone
    <3>3. QED
      BY <3>1, <3>2
  <2>5. \A p : Cardinality(Later(p)) = Cardinality({q \in Used : LastUse(q) > LastUse(p)})
    BY DEF Later
  <2>6. QED
    BY <2>2, <2>3, <2>4, <2>5
<1>2. QED
  BY Invariance, RecencyHolds, <1>1, PTL
=============================================================================
