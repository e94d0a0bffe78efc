---------------------------- MODULE Median_proofs ----------------------------
(***************************************************************************)
(* The median search for every number of children, length of the files and *)
(* set of values: what is in the pipes at each line of the parent, that    *)
(* parent and children together carry out Selection, and that the answer   *)
(* is the median.  Selection's own theorems come first.                    *)
(***************************************************************************)
EXTENDS Median, Selection, FiniteSetTheorems, FunctionTheorems,
        SequenceTheorems, TLAPS

-----------------------------------------------------------------------------
(* What a child and its two pipes may be like.                             *)

One(m) == Append(<<>>, m)

Two(d, m) == Append(One(d), m)

Msg(code, arg) == [code |-> code, arg |-> arg]

Small == Msg("SMALL", 0)
Large == Msg("LARGE", 0)

\* A message m waits for child c, perhaps behind the outcome of the last round.
Awaits(c, m) ==
  up[c] = <<>> /\ (down[c] = One(m) \/ down[c] = Two(Small, m) \/ down[c] = Two(Large, m))

Answered(c, v) == down[c] = <<>> /\ up[c] = One(v)

Silent(c) == down[c] = <<>> /\ up[c] = <<>>

Off(c) == cpc[c] = "boot" /\ Silent(c)

Booting(c) ==
  \/ cpc[c] = "boot" /\ down[c] = One(Msg("ID", c)) /\ up[c] = <<>>
  \/ cpc[c] = "serve" /\ Answered(c, READY)

Idle(c) == cpc[c] = "serve" /\ Silent(c)

Quiet(c) ==
  /\ cpc[c] = "serve"
  /\ up[c] = <<>> /\ (down[c] = <<>> \/ down[c] = One(Small) \/ down[c] = One(Large))

Requested(c) ==
  /\ cpc[c] = "serve"
  /\ \/ Awaits(c, Msg("REQUEST", 0))
     \/ \E x \in num_arr[c] : Answered(c, x)
     \/ num_arr[c] = {} /\ Answered(c, -1)

PivotSent(c) ==
  /\ cpc[c] = "serve"
  /\ \/ Awaits(c, Msg("PIVOT", pivot))
     \/ Answered(c, Cardinality(Above(num_arr[c], pivot))) /\ cpivot[c] = pivot

Counted(c) == Idle(c) /\ cpivot[c] = pivot

CheckSent(c) ==
  /\ cpc[c] = "serve"
  /\ \/ down[c] = One(Msg("CHECK", pivot)) /\ up[c] = <<>>
     \/ Answered(c, Cardinality(Above(actual[c], pivot)))

\* The state of every child at every line of the parent.
Conversation ==
  \A c \in Child :
    /\ pc = "id" => IF c < i THEN Booting(c) ELSE Off(c)
    /\ pc = "ready" => IF c < i THEN Idle(c) ELSE Booting(c)
    /\ pc = "pick" => Quiet(c)
    /\ pc = "reply" => IF c = r THEN Requested(c) ELSE Quiet(c)
    /\ pc = "pivot" => IF c < i THEN PivotSent(c) ELSE Quiet(c)
    /\ pc = "count" => IF c < i THEN Counted(c) ELSE PivotSent(c)
    /\ pc = "decide" => Counted(c)
    /\ pc \in {"small", "large"} => IF c < i THEN Quiet(c) ELSE Counted(c)
    /\ pc = "check" => IF c < i THEN CheckSent(c) ELSE Idle(c)
    /\ pc = "sum" => IF c < i THEN Idle(c) ELSE CheckSent(c)
    /\ pc \in {"kill", "wait", "done"} => Silent(c) /\ cpc[c] # "boot"

\* A loop over the children has been left with the index reset; no child is ended early.
LoopsReset ==
  /\ pc \in {"pick", "reply", "decide"} => i = 1
  /\ sig # {} => pc \in {"kill", "wait", "done"}

\* What a child considers is in its file.
FromFile == \A c \in Child : num_arr[c] \subseteq actual[c]

\* The pivot of a round is a number of the child asked, which has nothing to drop.
PivotIsLeft ==
  pc \in {"pivot", "count", "decide"} =>
    pivot \in num_arr[r] /\ ~Sent(r, "SMALL") /\ ~Sent(r, "LARGE")

\* The numbers above the pivot among what f gives for the first n children.
HowMany(f, n) == Cardinality(UNION {Above(f[c], pivot) : c \in 1..n})

\* num is the sum of the answers of the children asked so far.
Tally ==
  /\ pc = "count" => num = HowMany(num_arr, i - 1)
  /\ pc = "decide" => num = HowMany(num_arr, N)
  /\ pc = "check" => num = 0
  /\ pc = "sum" => num = HowMany(actual, i - 1)
  /\ pc \in {"kill", "wait", "done"} => num = HowMany(actual, N)

\* The median has been found in the lines after the decision, and only there.
FoundSince == med_found <=> pc \in {"check", "sum", "kill", "wait", "done"}

\* The candidates C of all numbers D, with kk the rank of the wanted one in C
\* and h its rank in D: C has lost h - kk numbers above each, and not the one.
Ranked(D, C, h, kk) ==
  /\ C \subseteq D /\ kk \in Nat
  /\ \A p \in C : Cardinality(Above(D, p)) - Cardinality(Above(C, p)) = h - kk
  /\ \A p \in D : Cardinality(Above(D, p)) = h => p \in C

Cand == UNION {Left(c) : c \in Child}

Rank == IF pc = "large" THEN k - num ELSE k

RanksKept == Ranked(Data, Cand, Half, Rank)

\* What has been found has half of the numbers above it.
FoundIsMedian == med_found => pivot \in Data /\ Cardinality(Above(Data, pivot)) = Half

IInv == /\ TypeOK /\ Conversation /\ LoopsReset /\ FromFile /\ PivotIsLeft
        /\ Tally /\ FoundSince /\ RanksKept /\ FoundIsMedian

-----------------------------------------------------------------------------
(* Pipes of one and of two messages.                                       *)

LEMMA OneIs ==
  ASSUME NEW m
  PROVE  /\ One(m) # <<>> /\ Head(One(m)) = m /\ Tail(One(m)) = <<>>
         /\ Len(One(m)) = 1 /\ DOMAIN One(m) = {1} /\ One(m)[1] = m
<1>1. <<>> \in Seq({m}) /\ Len(<<>>) = 0
  BY EmptySeq
<1>2. /\ One(m) \in Seq({m}) /\ One(m) # <<>> /\ Len(One(m)) = 0 + 1
      /\ One(m)[0 + 1] = m
  BY <1>1, AppendProperties DEF One
<1>3. Head(One(m)) = m /\ Tail(One(m)) = <<>>
  BY <1>1, HeadTailAppend DEF One
<1>4. DOMAIN One(m) = 1..Len(One(m))
  BY <1>2, LenProperties
<1> HIDE DEF One
<1>5. QED
  BY <1>2, <1>3, <1>4

LEMMA TwoIs ==
  ASSUME NEW d, NEW m
  PROVE  /\ Two(d, m) # <<>> /\ Head(Two(d, m)) = d /\ Tail(Two(d, m)) = One(m)
         /\ Len(Two(d, m)) = 2 /\ DOMAIN Two(d, m) = {1, 2}
         /\ Two(d, m)[1] = d /\ Two(d, m)[2] = m
<1>1. One(d) \in Seq({d, m})
  BY EmptySeq, AppendProperties DEF One
<1>2. Len(One(d)) = 1 /\ One(d)[1] = d /\ Tail(One(d)) = <<>> /\ One(d) # <<>> /\ Head(One(d)) = d
  BY OneIs
<1>3. /\ Two(d, m) \in Seq({d, m}) /\ Two(d, m) # <<>> /\ Len(Two(d, m)) = 1 + 1
      /\ Two(d, m)[1] = d /\ Two(d, m)[1 + 1] = m
  <2> DEFINE s == One(d)
  <2>1. s \in Seq({d, m}) /\ m \in {d, m}
    BY <1>1
  <2>2. /\ Append(s, m) \in Seq({d, m}) /\ Append(s, m) # <<>> /\ Len(Append(s, m)) = Len(s) + 1
        /\ \A j \in 1..Len(s) : Append(s, m)[j] = s[j]
        /\ Append(s, m)[Len(s) + 1] = m
    BY <2>1, AppendProperties
  <2>3. QED
    BY <1>2, <2>2 DEF Two
<1>4. Head(Two(d, m)) = d /\ Tail(Two(d, m)) = Append(<<>>, m)
  BY <1>1, <1>2, HeadTailAppend DEF Two
<1>5. DOMAIN Two(d, m) = 1..Len(Two(d, m))
  BY <1>3, LenProperties
<1> HIDE DEF Two
<1>6. QED
  BY <1>3, <1>4, <1>5 DEF One

\* Which codes are in a pipe of at most two messages.
LEMMA SentIn ==
  ASSUME NEW c \in Child, NEW d, NEW m, NEW code
  PROVE  /\ down[c] = <<>> => ~Sent(c, code)
         /\ down[c] = One(m) => (Sent(c, code) <=> m.code = code)
         /\ down[c] = Two(d, m) => (Sent(c, code) <=> d.code = code \/ m.code = code)
BY OneIs, TwoIs DEF Sent

LEMMA SentAfter ==
  ASSUME NEW c \in Child, NEW m, NEW code
  PROVE  /\ down'[c] = <<>> => ~Sent(c, code)'
         /\ down'[c] = One(m) => (Sent(c, code)' <=> m.code = code)
BY OneIs DEF Sent

-----------------------------------------------------------------------------
(* Counting the numbers above another.                                     *)

\* The values above a number are finitely many, and counted by a natural.
LEMMA AboveFinite ==
  ASSUME NEW S, IsFiniteSet(S), NEW p
  PROVE  IsFiniteSet(Above(S, p)) /\ Cardinality(Above(S, p)) \in Nat
BY FS_Subset, FS_CardinalityType DEF Above

\* The lower of two numbers has at least as many values above it.
LEMMA AboveMonotone ==
  ASSUME NEW S, IsFiniteSet(S), S \subseteq Int,
         NEW p \in Int, NEW q \in Int, q <= p
  PROVE  Cardinality(Above(S, p)) <= Cardinality(Above(S, q))
<1>1. \A x \in S : x \in Int /\ (x > p => x > q)
  OBVIOUS
<1>2. Above(S, p) \in SUBSET Above(S, q)
  BY <1>1 DEF Above
<1>3. QED
  BY <1>2, AboveFinite, FS_Subset

\* What is above q in S is what is above q up to p, and what is above p.
LEMMA AboveSplit ==
  ASSUME NEW S, IsFiniteSet(S), S \subseteq Int,
         NEW p \in Int, NEW q \in Int, q <= p
  PROVE  Cardinality(Above(S, q))
           = Cardinality(Above({x \in S : x <= p}, q)) + Cardinality(Above(S, p))
<1> DEFINE low == Above({x \in S : x <= p}, q)
           high == Above(S, p)
<1>1. IsFiniteSet(low) /\ IsFiniteSet(high)
  <2>1. IsFiniteSet({x \in S : x <= p})
    BY FS_Subset
  <2>2. QED
    BY <2>1, AboveFinite
<1>2. low \cap high = {} /\ Above(S, q) = low \cup high
  <2>1. \A x \in S : x > p <=> ~(x <= p)
    OBVIOUS
  <2>2. \A x \in S : x > p => x > q
    OBVIOUS
  <2>3. QED
    BY <2>1, <2>2 DEF Above
<1>3. Cardinality(low \cup high) = Cardinality(low) + Cardinality(high)
        - Cardinality(low \cap high)
  BY <1>1, FS_Union
<1>4. Cardinality(low \cap high) = 0
  BY <1>2, FS_EmptySet
<1>5. Cardinality(low) \in Nat /\ Cardinality(high) \in Nat
  BY <1>1, FS_CardinalityType
<1>6. Cardinality(Above(S, q)) = Cardinality(low \cup high)
  BY <1>2
<1> HIDE DEF low, high
<1>7. Cardinality(Above(S, q)) = Cardinality(low) + Cardinality(high)
  BY <1>3, <1>4, <1>5, <1>6
<1>8. QED
  BY <1>7 DEF low, high

-----------------------------------------------------------------------------
(* The rounds of the search keep the ranks.                                *)

\* More than kk candidates are above p: those below it can go.
LEMMA KeepUpper ==
  ASSUME NEW D, IsFiniteSet(D), D \subseteq Int, NEW C, NEW h \in Nat, NEW kk,
         Ranked(D, C, h, kk), NEW p \in C, Cardinality(Above(C, p)) > kk
  PROVE  Ranked(D, {x \in C : x >= p}, h, kk)
<1> DEFINE B == {x \in C : x >= p}
<1>1. C \subseteq D /\ IsFiniteSet(C) /\ C \subseteq Int /\ kk \in Nat
  BY FS_Subset DEF Ranked
<1>2. \A q \in B : Above(B, q) = Above(C, q)
  <2>1. \A q \in B, x \in C : x > q => x >= p
    BY <1>1
  <2>2. QED
    BY <2>1 DEF Above
<1>3. ASSUME NEW q \in D, Cardinality(Above(D, q)) = h
      PROVE  q \in B
  <2>1. q \in C /\ q \in Int
    BY <1>3 DEF Ranked
  <2>2. Cardinality(Above(C, q)) \in Nat /\ Cardinality(Above(D, q)) \in Nat
    BY <1>1, AboveFinite
  <2>3. Cardinality(Above(C, q)) = kk
    BY <1>1, <1>3, <2>1, <2>2 DEF Ranked
  <2>4. CASE q < p
    <3>1. Cardinality(Above(C, p)) <= Cardinality(Above(C, q))
      <4>1. p \in Int /\ q <= p
        BY <1>1, <2>1, <2>4
      <4>2. QED
        BY <1>1, <2>1, <4>1, AboveMonotone
    <3>2. Cardinality(Above(C, p)) \in Nat
      BY <1>1, AboveFinite
    <3>3. QED
      BY <1>1, <2>3, <3>1, <3>2
  <2>5. CASE ~(q < p)
    BY <1>1, <2>1, <2>5
  <2>6. QED
    BY <2>4, <2>5
<1>4. B \subseteq C
  OBVIOUS
<1> HIDE DEF B
<1>5. Ranked(D, B, h, kk)
  BY <1>1, <1>2, <1>3, <1>4 DEF Ranked
<1>6. QED
  BY <1>5 DEF B

\* Fewer than kk are: those above it can go, and the rank is lowered by their number.
LEMMA KeepLower ==
  ASSUME NEW D, IsFiniteSet(D), D \subseteq Int, NEW C, NEW h \in Nat, NEW kk,
         Ranked(D, C, h, kk), NEW p \in C, Cardinality(Above(C, p)) < kk
  PROVE  Ranked(D, {x \in C : x <= p}, h, kk - Cardinality(Above(C, p)))
<1> DEFINE B == {x \in C : x <= p}
           m == Cardinality(Above(C, p))
<1>1. C \subseteq D /\ IsFiniteSet(C) /\ C \subseteq Int /\ kk \in Nat
  BY FS_Subset DEF Ranked
<1>2. m \in Nat /\ IsFiniteSet(B) /\ B \subseteq D
  BY <1>1, AboveFinite, FS_Subset
<1>3. ASSUME NEW q \in B
      PROVE  Cardinality(Above(D, q)) - Cardinality(Above(B, q)) = h - (kk - m)
  <2>1. q \in C /\ q \in Int /\ q <= p /\ p \in Int
    BY <1>1
  <2>2. Cardinality(Above(C, q)) = Cardinality(Above(B, q)) + m
    BY <1>1, <2>1, AboveSplit
  <2>3. Cardinality(Above(D, q)) - Cardinality(Above(C, q)) = h - kk
    BY <2>1 DEF Ranked
  <2>4. Cardinality(Above(B, q)) \in Nat /\ Cardinality(Above(D, q)) \in Nat
    BY <1>2, AboveFinite
  <2> HIDE DEF B, m
  <2>5. QED
    BY <1>1, <1>2, <2>2, <2>3, <2>4
<1>4. ASSUME NEW q \in D, Cardinality(Above(D, q)) = h
      PROVE  q \in B
  <2>1. q \in C /\ q \in Int /\ p \in Int
    BY <1>1, <1>4 DEF Ranked
  <2>2. Cardinality(Above(C, q)) \in Nat
    BY <1>1, AboveFinite
  <2>3. Cardinality(Above(C, q)) = kk
    BY <1>1, <1>4, <2>1, <2>2 DEF Ranked
  <2>4. CASE p < q
    <3>1. Cardinality(Above(C, q)) <= m
      <4>1. p <= q
        BY <2>1, <2>4
      <4>2. QED
        BY <1>1, <2>1, <4>1, AboveMonotone
    <3>2. QED
      BY <1>1, <1>2, <2>3, <3>1
  <2>5. CASE ~(p < q)
    BY <2>1, <2>5
  <2>6. QED
    BY <2>4, <2>5
<1>5. kk - m \in Nat
  BY <1>1, <1>2
<1> HIDE DEF B, m
<1>6. Ranked(D, B, h, kk - m)
  BY <1>2, <1>3, <1>4, <1>5 DEF Ranked
<1>7. QED
  BY <1>6 DEF B, m

\* Exactly kk are: p is the wanted one.
LEMMA RankFound ==
  ASSUME NEW D, IsFiniteSet(D), NEW C, NEW h \in Nat, NEW kk,
         Ranked(D, C, h, kk), NEW p \in C, Cardinality(Above(C, p)) = kk
  PROVE  p \in D /\ Cardinality(Above(D, p)) = h
<1>1. p \in D /\ kk \in Nat /\ Cardinality(Above(D, p)) - kk = h - kk
  BY DEF Ranked
<1>2. Cardinality(Above(D, p)) \in Nat
  BY AboveFinite
<1>3. QED
  BY <1>1, <1>2

-----------------------------------------------------------------------------
(* There is a median.                                                      *)

\* A set of natural numbers has a least one.
LEMMA LeastNatural ==
  ASSUME NEW T, T \subseteq Nat, T # {}
  PROVE  \E n \in T : \A m \in T : n <= m
<1>1. PICK n \in T : \A m \in T : ~(<<m, n>> \in OpToRel(<, Nat))
  BY WFMin, NatLessThanWellFounded
<1>2. ASSUME NEW m \in T, m < n PROVE FALSE
  <2>1. <<m, n>> \in {ss \in Nat \X Nat : ss[1] < ss[2]}
    BY <1>2
  <2>2. QED
    BY <1>1, <2>1 DEF OpToRel
<1>3. \A m \in T : m \in Nat /\ n \in Nat
  OBVIOUS
<1>4. QED
  BY <1>2, <1>3

\* A finite set of integers has a least one: the one most others are above.
LEMMA LeastInteger ==
  ASSUME NEW S, IsFiniteSet(S), S \subseteq Int, S # {}
  PROVE  \E p \in S : \A q \in S : p <= q
<1> DEFINE n == Cardinality(S)
           higher(p) == Cardinality(Above(S, p))
           T == {n - higher(p) : p \in S}
<1>1. n \in Nat /\ \A p : higher(p) \in Nat /\ higher(p) <= n
  <2>1. \A p : Above(S, p) \in SUBSET S
    BY DEF Above
  <2>2. QED
    BY <2>1, FS_Subset, FS_CardinalityType
<1>2. T \subseteq Nat /\ T # {}
  <2>1. \A p \in S : n - higher(p) \in Nat
    <3> HIDE DEF n, higher
    <3>1. QED
      BY <1>1
  <2>2. QED
    BY <2>1
<1>3. PICK t \in T : \A m \in T : t <= m
  <2> HIDE DEF T
  <2>1. QED
    BY <1>2, LeastNatural
<1>4. PICK p \in S : t = n - higher(p)
  BY <1>3
<1>5. \A q \in S : n - higher(p) <= n - higher(q)
  <2>1. \A q \in S : n - higher(q) \in T
    OBVIOUS
  <2>2. QED
    BY <1>3, <1>4, <2>1
<1>6. ASSUME NEW q \in S, q < p PROVE FALSE
  <2>1. Above(S, p) \cup {p} \in SUBSET Above(S, q) /\ p \notin Above(S, p)
    <3>1. p \in Int /\ q \in Int /\ ~(p > p) /\ p > q
      BY <1>6
    <3>2. \A x \in S : x > p => x > q
      BY <3>1
    <3>3. QED
      BY <3>1, <3>2 DEF Above
  <2>2. IsFiniteSet(Above(S, p)) /\ IsFiniteSet(Above(S, q))
    BY AboveFinite
  <2>3. Cardinality(Above(S, p) \cup {p}) = higher(p) + 1
    BY <2>1, <2>2, FS_AddElement
  <2>4. higher(p) + 1 <= higher(q)
    BY <2>1, <2>2, <2>3, FS_Subset
  <2> HIDE DEF n, higher
  <2>5. QED
    BY <1>1, <1>5, <2>4
<1>7. QED
  BY <1>6

\* Every rank below the number of elements is the rank of one of them.
LEMMA RankTaken ==
  ASSUME NEW S, IsFiniteSet(S), S \subseteq Int, NEW h \in Nat, h < Cardinality(S)
  PROVE  \E p \in S : Cardinality(Above(S, p)) = h
<1> DEFINE higher(p) == Cardinality(Above(S, p))
           T == {higher(p) : p \in {x \in S : higher(x) >= h}}
<1>1. \A p : higher(p) \in Nat
  BY AboveFinite
<1>2. S # {} /\ Cardinality(S) \in Nat
  BY FS_EmptySet, FS_CardinalityType
<1>3. PICK low \in S : \A q \in S : low <= q
  BY <1>2, LeastInteger
<1>4. higher(low) = Cardinality(S) - 1
  <2>1. Above(S, low) = S \ {low}
    <3>1. \A x \in S : x > low <=> x # low
      <4>1. low \in Int /\ \A x \in S : x \in Int /\ low <= x
        BY <1>3
      <4>2. QED
        BY <4>1
    <3>2. QED
      BY <3>1 DEF Above
  <2>2. QED
    BY <2>1, FS_RemoveElement
<1>5. T \subseteq Nat /\ T # {}
  <2>1. higher(low) >= h
    BY <1>2, <1>4
  <2>2. QED
    BY <1>1, <2>1
<1>6. PICK t \in T : \A m \in T : t <= m
  <2> HIDE DEF T
  <2>1. QED
    BY <1>5, LeastNatural
<1>7. PICK p \in S : t = higher(p) /\ higher(p) >= h
  BY <1>6
<1>8. \A q \in S : higher(q) >= h => higher(p) <= higher(q)
  BY <1>6, <1>7
<1>9. ASSUME higher(p) > h PROVE FALSE
  <2>1. IsFiniteSet(Above(S, p)) /\ Above(S, p) \subseteq S
    BY AboveFinite DEF Above
  <2>2. Above(S, p) # {} /\ Above(S, p) \subseteq Int
    <3>1. higher(p) # 0
      <4> HIDE DEF higher
      <4>1. QED
        BY <1>1, <1>9
    <3>2. QED
      BY <2>1, <3>1, FS_EmptySet
  <2>3. PICK q \in Above(S, p) : \A x \in Above(S, p) : q <= x
    BY <2>1, <2>2, LeastInteger
  <2>4. Above(S, q) = Above(S, p) \ {q}
    <3>1. p \in Int /\ q \in Int /\ q > p /\ q \in S
      BY <2>1, <2>2, <2>3 DEF Above
    <3>2. \A x \in S : x > q <=> (x > p /\ x # q)
      <4>1. \A x \in S : x > p => q <= x
        BY <2>3 DEF Above
      <4>2. QED
        BY <3>1, <4>1
    <3>3. QED
      BY <3>2 DEF Above
  <2>5. higher(q) = higher(p) - 1
    BY <2>1, <2>3, <2>4, FS_RemoveElement
  <2>6. q \in S
    BY <2>1, <2>3
  <2> HIDE DEF higher
  <2>7. QED
    BY <1>1, <1>8, <1>9, <2>5, <2>6
<1>10. QED
  <2>1. higher(p) = h
    BY <1>1, <1>7, <1>9
  <2>2. QED
    BY <2>1

-----------------------------------------------------------------------------
(* Selection, by itself.                                                   *)

SearchIInv == /\ SearchTypeOK /\ AnswerIsMedian /\ data # {}
              /\ Ranked(data, cand, Middle, rank)

\* Selection counts the larger numbers as Median does.
LEMMA SameOperators == \A S, p : Larger(S, p) = Above(S, p)
BY DEF Larger, Above

\* Half of a finite set's size is a natural number, less than the size.
LEMMA DataFinite ==
  ASSUME NEW S, IsFiniteSet(S)
  PROVE  /\ Cardinality(S) \div 2 \in Nat
         /\ S # {} => Cardinality(S) \div 2 < Cardinality(S)
<1>1. Cardinality(S) \in Nat /\ (S # {} => Cardinality(S) # 0)
  BY FS_CardinalityType, FS_EmptySet
<1>2. \A n \in Nat : n \div 2 \in Nat /\ (n # 0 => n \div 2 < n)
  OBVIOUS
<1>3. QED
  BY <1>1, <1>2

\* A set of candidates with the ranks it should have holds the median.
LEMMA MedianRanked ==
  ASSUME NEW S, IsFiniteSet(S), S # {}, S \subseteq Int, NEW T, NEW rk,
         Ranked(S, T, Cardinality(S) \div 2, rk)
  PROVE  \E p \in T : Cardinality(Above(S, p)) = Cardinality(S) \div 2
<1>1. PICK p \in S : Cardinality(Above(S, p)) = Cardinality(S) \div 2
  BY DataFinite, RankTaken
<1>2. p \in T
  BY <1>1 DEF Ranked
<1>3. QED
  BY <1>1, <1>2

LEMMA SearchStep ==
  ASSUME SearchIInv, Round
  PROVE  SearchIInv'
<1> USE DEF SearchIInv
<1>1. IsFiniteSet(data) /\ data \subseteq Int /\ Middle \in Nat
  BY DataFinite DEF SearchTypeOK, Middle
<1>2. data' = data /\ Middle' = Middle
  BY DEF Round, DropBelow, DropAbove, Found, Middle
<1>3. PICK p \in cand : DropBelow(p) \/ DropAbove(p) \/ Found(p)
  BY DEF Round
<1>4. CASE DropBelow(p)
  <2>1. /\ Cardinality(Above(cand, p)) > rank /\ cand' = {x \in cand : x >= p}
        /\ rank' = rank /\ answer' = answer
    BY <1>4, SameOperators DEF DropBelow
  <2>2. Ranked(data, cand', Middle, rank)
    BY <1>1, <2>1, KeepUpper
  <2>3. cand' \subseteq cand
    BY <2>1
  <2>4. Ranked(data, cand, Middle, rank)'
    BY <1>2, <2>1, <2>2
  <2>5. QED
    BY <1>2, <2>1, <2>3, <2>4 DEF SearchTypeOK, AnswerIsMedian, Larger, Middle
<1>5. CASE DropAbove(p)
  <2>1. /\ Cardinality(Above(cand, p)) < rank /\ cand' = {x \in cand : x <= p}
        /\ rank' = rank - Cardinality(Above(cand, p)) /\ answer' = answer
    BY <1>5, SameOperators DEF DropAbove
  <2>2. Ranked(data, cand', Middle, rank')
    BY <1>1, <2>1, KeepLower
  <2>3. cand' \subseteq cand /\ rank' \in Nat
    BY <2>1, <2>2 DEF Ranked
  <2>4. Ranked(data, cand, Middle, rank)'
    BY <1>2, <2>2
  <2>5. QED
    BY <1>2, <2>1, <2>3, <2>4 DEF SearchTypeOK, AnswerIsMedian, Larger, Middle
<1>6. CASE Found(p)
  <2>1. Cardinality(Above(cand, p)) = rank /\ UNCHANGED <<data, cand, rank>> /\ answer' = {p}
    BY <1>6, SameOperators DEF Found
  <2>2. p \in data /\ Cardinality(Above(data, p)) = Middle
    BY <1>1, <2>1, RankFound
  <2>3. AnswerIsMedian'
    <3>1. \A q \in answer' : q \in data /\ Cardinality(Larger(data, q)) = Middle
      BY <2>1, <2>2, SameOperators
    <3>2. QED
      BY <1>2, <3>1 DEF AnswerIsMedian, Larger
  <2>4. Ranked(data, cand, Middle, rank)'
    BY <1>2, <2>1
  <2>5. QED
    BY <1>2, <2>1, <2>2, <2>3, <2>4 DEF SearchTypeOK
<1>7. QED
  BY <1>3, <1>4, <1>5, <1>6

LEMMA SearchInductive == SearchSpec => []SearchIInv
<1>1. SearchInit => SearchIInv
  <2> SUFFICES ASSUME SearchInit PROVE SearchIInv
    OBVIOUS
  <2>1. /\ data \subseteq Int /\ cand = data /\ rank = Middle /\ answer = {}
        /\ IsFiniteSet(data) /\ Middle \in Nat /\ data # {}
    BY DataFinite DEF SearchInit, Middle
  <2>2. SearchTypeOK /\ AnswerIsMedian
    BY <2>1 DEF SearchTypeOK, AnswerIsMedian
  <2>3. \A p : Cardinality(Above(data, p)) \in Nat
    BY <2>1, AboveFinite
  <2>4. Ranked(data, cand, Middle, rank)
    BY <2>1, <2>3 DEF Ranked
  <2>5. QED
    BY <2>1, <2>2, <2>4 DEF SearchIInv
<1>2. SearchIInv /\ [Round]_search => SearchIInv'
  <2>1. ASSUME SearchIInv, UNCHANGED search PROVE SearchIInv'
    BY <2>1 DEF search, SearchIInv, SearchTypeOK, AnswerIsMedian,
                Middle, Larger, Ranked, Above
  <2>2. QED
    BY <2>1, SearchStep
<1>3. QED
  BY <1>1, <1>2, PTL DEF SearchSpec

\* rank never becomes negative and nothing that is not in a file is a candidate.
THEOREM SearchTypeCorrect == SearchSpec => []SearchTypeOK
<1>1. SearchIInv => SearchTypeOK
  BY DEF SearchIInv
<1>2. QED
  BY SearchInductive, <1>1, PTL

\* The ranks among the candidates and among all the data stay as far apart as
\* rank has been lowered.
THEOREM RanksAccounted == SearchSpec => []RankAccounting
<1>1. SearchIInv => RankAccounting
  BY SameOperators DEF SearchIInv, Ranked, RankAccounting
<1>2. QED
  BY SearchInductive, <1>1, PTL

\* There is always a candidate that is the median, whatever pivots are drawn: it
\* is never dropped (child.c:97-130), and a search that has not answered can go on.
THEOREM MedianSurvives == SearchSpec => []MedianKept
<1>1. SearchIInv => MedianKept
  <2> SUFFICES ASSUME SearchIInv PROVE MedianKept
    OBVIOUS
  <2>1. /\ IsFiniteSet(data) /\ data \subseteq Int /\ data # {}
        /\ Ranked(data, cand, Cardinality(data) \div 2, rank)
    BY DEF SearchIInv, SearchTypeOK, Middle
  <2>2. \E p \in cand : Cardinality(Above(data, p)) = Cardinality(data) \div 2
    BY <2>1, MedianRanked
  <2>3. QED
    BY <2>2, SameOperators DEF MedianKept, Middle
<1>2. QED
  BY SearchInductive, <1>1, PTL

\* What is answered has exactly half of all the numbers above it (parent.c:174).
THEOREM AnswerCorrect == SearchSpec => []AnswerIsMedian
<1>1. SearchIInv => AnswerIsMedian
  BY DEF SearchIInv
<1>2. QED
  BY SearchInductive, <1>1, PTL
-----------------------------------------------------------------------------
(* The files.                                                              *)

\* A file's numbers, and those of all files, are finitely many natural numbers.
LEMMA FilesFinite ==
  ASSUME actual \in DataFiles
  PROVE  /\ \A c \in Child : /\ actual[c] \subseteq Values /\ IsFiniteSet(actual[c])
                             /\ Cardinality(actual[c]) = PerFile
         /\ \A c, d \in Child : c # d => actual[c] \cap actual[d] = {}
         /\ IsFiniteSet(Data) /\ Data \subseteq Values
         /\ Values \subseteq Int /\ Half \in Nat
<1>1. IsFiniteSet(Values) /\ \A x \in Values : x \in Int
  BY MedianAssumption
<1>2. actual \in [Child -> SUBSET Values]
  BY DEF DataFiles
<1>3. \A c \in Child : actual[c] \in SUBSET Values
  BY <1>2
<1>4. \A c \in Child : IsFiniteSet(actual[c])
  BY <1>1, <1>3, FS_Subset
<1>5. Data \in SUBSET Values
  BY <1>3 DEF Data
<1>6. IsFiniteSet(Data)
  BY <1>1, <1>5, FS_Subset
<1>7. N * PerFile \in Nat
  BY MedianAssumption
<1>8. Half \in Nat
  BY <1>7 DEF Half
<1>9. QED
  BY <1>1, <1>3, <1>4, <1>5, <1>6, <1>8 DEF DataFiles

\* N files of PerFile numbers, none of them in two, hold N * PerFile numbers.
LEMMA DataCounted ==
  ASSUME actual \in DataFiles
  PROVE  Cardinality(Data) = N * PerFile
<1> DEFINE Place == Child \X (1..PerFile)
           pick == [c \in Child |-> CHOOSE b : b \in Bijection(1..PerFile, actual[c])]
           F == [q \in Place |-> pick[q[1]][q[2]]]
<1>1. \A c \in Child : pick[c] \in Bijection(1..PerFile, actual[c])
  <2> SUFFICES ASSUME NEW c \in Child
               PROVE  \E b : b \in Bijection(1..PerFile, actual[c])
    OBVIOUS
  <2>1. IsFiniteSet(actual[c]) /\ Cardinality(actual[c]) = PerFile
    BY FilesFinite
  <2>2. ExistsBijection(1..PerFile, actual[c])
    BY <2>1, FS_CardinalityType
  <2>3. QED
    BY <2>2 DEF ExistsBijection
<1>2. \A c \in Child : /\ pick[c] \in [1..PerFile -> actual[c]]
                       /\ \A a, b \in 1..PerFile : pick[c][a] = pick[c][b] => a = b
                       /\ \A x \in actual[c] : \E a \in 1..PerFile : pick[c][a] = x
  <2> SUFFICES ASSUME NEW c \in Child, NEW g, g = pick[c]
               PROVE  /\ g \in [1..PerFile -> actual[c]]
                      /\ \A a, b \in 1..PerFile : g[a] = g[b] => a = b
                      /\ \A x \in actual[c] : \E a \in 1..PerFile : g[a] = x
    BY ZenonT(60)
  <2>1. g \in Bijection(1..PerFile, actual[c])
    BY <1>1
  <2>2. g \in [1..PerFile -> actual[c]] /\ DOMAIN g = 1..PerFile /\ IsInjective(g)
    BY <2>1 DEF Bijection, Injection
  <2>3. \A x \in actual[c] : \E a \in 1..PerFile : g[a] = x
    BY <2>1 DEF Bijection, Surjection
  <2>4. QED
    BY <2>2, <2>3 DEF IsInjective
<1> HIDE DEF pick
<1>3. F \in [Place -> Data]
  <2> SUFFICES ASSUME NEW q \in Place PROVE pick[q[1]][q[2]] \in Data
    OBVIOUS
  <2>1. q[1] \in Child /\ q[2] \in 1..PerFile
    OBVIOUS
  <2>2. pick[q[1]][q[2]] \in actual[q[1]]
    <3>1. pick[q[1]] \in [1..PerFile -> actual[q[1]]]
      BY <1>2, <2>1
    <3>2. QED
      BY <2>1, <3>1
  <2>3. QED
    BY <2>1, <2>2 DEF Data
<1>4. ASSUME NEW q \in Place, NEW s \in Place, F[q] = F[s]
      PROVE  q = s
  <2>1. /\ q[1] \in Child /\ q[2] \in 1..PerFile /\ q = <<q[1], q[2]>>
        /\ s[1] \in Child /\ s[2] \in 1..PerFile /\ s = <<s[1], s[2]>>
    OBVIOUS
  <2>2. pick[q[1]][q[2]] \in actual[q[1]] /\ pick[s[1]][s[2]] \in actual[s[1]]
    BY ZenonT(60), <1>2, <2>1
  <2>3. pick[q[1]][q[2]] = pick[s[1]][s[2]]
    BY <1>4
  <2>4. q[1] = s[1]
    BY <2>1, <2>2, <2>3, FilesFinite
  <2>5. q[2] = s[2]
    BY <1>2, <2>1, <2>3, <2>4
  <2>6. QED
    BY <2>1, <2>4, <2>5
<1>5. ASSUME NEW x \in Data
      PROVE  \E q \in Place : F[q] = x
  <2>1. PICK c \in Child : x \in actual[c]
    BY DEF Data
  <2>2. PICK a \in 1..PerFile : pick[c][a] = x
    BY <1>2, <2>1
  <2>3. <<c, a>> \in Place /\ F[<<c, a>>] = x
    BY <2>2
  <2>4. QED
    BY <2>3
<1> HIDE DEF F
<1>6. ExistsBijection(Place, Data)
  <2>1. F \in Bijection(Place, Data)
    BY <1>3, <1>4, <1>5, Fun_IsBij
  <2>2. QED
    BY <2>1 DEF ExistsBijection
<1>7. /\ IsFiniteSet(Child) /\ Cardinality(Child) = N
      /\ IsFiniteSet(1..PerFile) /\ Cardinality(1..PerFile) = PerFile
  <2>1. 1 \in Int /\ N \in Int /\ PerFile \in Int /\ N >= 1 /\ PerFile >= 1
    BY MedianAssumption
  <2>2. QED
    BY <2>1, FS_Interval DEF Child
<1>8. IsFiniteSet(Place) /\ Cardinality(Place) = N * PerFile
  BY <1>7, FS_Product
<1>9. QED
  BY <1>6, <1>8, FS_Bijection

\* The numbers above the pivot in parts of different files add up child by child.
LEMMA HowManyAdds ==
  ASSUME actual \in DataFiles, NEW f, \A c \in Child : f[c] \subseteq actual[c]
  PROVE  /\ HowMany(f, 0) = 0
         /\ \A n \in Child : HowMany(f, n) = HowMany(f, n - 1) + Cardinality(Above(f[n], pivot))
         /\ \A n \in 0..N : HowMany(f, n) \in Nat
         /\ HowMany(f, N) = Cardinality(Above(UNION {f[c] : c \in Child}, pivot))
<1> DEFINE U(n) == UNION {Above(f[c], pivot) : c \in 1..n}
<1>1. N \in Nat \ {0}
  BY MedianAssumption
<1>2. \A c \in Child : Above(f[c], pivot) \subseteq actual[c]
  BY DEF Above
<1>3. \A n \in 0..N : IsFiniteSet(U(n)) /\ Cardinality(U(n)) \in Nat
  <2> SUFFICES ASSUME NEW n \in 0..N PROVE IsFiniteSet(U(n))
    BY FS_CardinalityType
  <2>1. \A c \in 1..n : c \in Child
    BY <1>1 DEF Child
  <2>2. U(n) \in SUBSET Data
    BY <1>2, <2>1 DEF Data
  <2>3. QED
    BY <2>2, FilesFinite, FS_Subset
<1>4. ASSUME NEW n \in Child
      PROVE  Cardinality(U(n)) = Cardinality(U(n - 1)) + Cardinality(Above(f[n], pivot))
  <2>1. n \in 1..N /\ n \in 0..N /\ n - 1 \in 0..N
    BY <1>1 DEF Child
  <2>2. 1..n = (1..(n - 1)) \cup {n}
    BY <2>1
  <2>3. U(n) = U(n - 1) \cup Above(f[n], pivot)
    BY <2>2
  <2>4. U(n - 1) \cap Above(f[n], pivot) = {}
    <3>1. \A c \in 1..(n - 1) : c \in Child /\ c # n
      BY <1>1, <2>1 DEF Child
    <3>2. \A c \in 1..(n - 1) : actual[c] \cap actual[n] = {}
      BY <3>1, FilesFinite
    <3>3. QED
      BY <1>2, <3>1, <3>2
  <2>5. IsFiniteSet(f[n])
    <3>1. f[n] \in SUBSET actual[n] /\ IsFiniteSet(actual[n])
      BY FilesFinite
    <3>2. QED
      BY <3>1, FS_Subset
  <2>6. IsFiniteSet(Above(f[n], pivot)) /\ Cardinality(Above(f[n], pivot)) \in Nat
    BY <2>5, AboveFinite
  <2>7. IsFiniteSet(U(n - 1)) /\ Cardinality(U(n - 1)) \in Nat
    BY <1>3, <2>1
  <2> HIDE DEF U
  <2>8. Cardinality(U(n - 1) \cup Above(f[n], pivot))
          = Cardinality(U(n - 1)) + Cardinality(Above(f[n], pivot)) - Cardinality({})
    BY <2>4, <2>6, <2>7, FS_Union
  <2>9. QED
    BY <2>3, <2>6, <2>7, <2>8, FS_EmptySet
<1>5. Cardinality(U(0)) = 0
  <2>1. U(0) = {}
    OBVIOUS
  <2>2. QED
    BY <2>1, FS_EmptySet
<1>6. U(N) = Above(UNION {f[c] : c \in Child}, pivot)
  BY DEF Child, Above
<1>7. \A n : HowMany(f, n) = Cardinality(U(n))
  BY DEF HowMany
<1> HIDE DEF U
<1>8. QED
  BY <1>3, <1>4, <1>5, <1>6, <1>7
-----------------------------------------------------------------------------
(* What a step has to leave alone.                                         *)

Untouched(c) ==
  /\ num_arr'[c] = num_arr[c] /\ cpivot'[c] = cpivot[c] /\ cpc'[c] = cpc[c]
  /\ down'[c] = down[c] /\ up'[c] = up[c]

\* Child c goes on where it was in the conversation.
Kept(c) ==
  /\ Off(c) => Off(c)'
  /\ Booting(c) => Booting(c)'
  /\ Idle(c) => Idle(c)'
  /\ Quiet(c) => Quiet(c)'
  /\ Requested(c) => Requested(c)'
  /\ PivotSent(c) => PivotSent(c)'
  /\ Counted(c) => Counted(c)'
  /\ CheckSent(c) => CheckSent(c)'

LEMMA UntouchedKept ==
  ASSUME NEW c \in Child, Untouched(c), actual' = actual
  PROVE  /\ Off(c)' = Off(c) /\ Booting(c)' = Booting(c) /\ Idle(c)' = Idle(c)
         /\ Quiet(c)' = Quiet(c) /\ Requested(c)' = Requested(c) /\ Silent(c)' = Silent(c)
         /\ pivot' = pivot => /\ PivotSent(c)' = PivotSent(c) /\ Counted(c)' = Counted(c)
                             /\ CheckSent(c)' = CheckSent(c)
<1>1. Off(c)' = Off(c) /\ Idle(c)' = Idle(c) /\ Quiet(c)' = Quiet(c) /\ Silent(c)' = Silent(c)
  BY DEF Untouched, Off, Idle, Quiet, Silent
<1>2. Booting(c)' = Booting(c) /\ Requested(c)' = Requested(c)
  BY DEF Untouched, Booting, Requested, Awaits, Answered
<1>3. ASSUME pivot' = pivot
      PROVE  PivotSent(c)' = PivotSent(c) /\ Counted(c)' = Counted(c) /\ CheckSent(c)' = CheckSent(c)
  BY <1>1, <1>3 DEF Untouched, PivotSent, Counted, CheckSent, Awaits, Answered, Above
<1>4. QED
  BY <1>1, <1>2, <1>3

\* A step of child c alone, while the parent waits, keeps the conversation.
LEMMA ChildKeepsConversation ==
  ASSUME Conversation, UNCHANGED <<actual, parent>>, NEW c \in Child, Kept(c),
         \A d \in Child \ {c} : Untouched(d), pc \notin {"kill", "wait", "done"}
  PROVE  Conversation'
<1>1. pc' = pc /\ i' = i /\ r' = r /\ pivot' = pivot /\ actual' = actual
  BY DEF parent
<1>2. ASSUME NEW d \in Child
      PROVE  Kept(d)
  <2>1. CASE d = c
    BY <2>1
  <2>2. CASE d # c
    BY <1>1, <2>2, UntouchedKept DEF Kept
  <2>3. QED
    BY <2>1, <2>2
<1>3. QED
  BY <1>1, <1>2 DEF Conversation, Kept

\* A step that decides nothing keeps the ranks and is no step of Selection.
Stutters ==
  /\ Data' = Data /\ Cand' = Cand /\ Rank' = Rank
  /\ med_found' = med_found /\ (med_found => pivot' = pivot)

LEMMA StutterKeeps ==
  ASSUME IInv, actual' = actual, \A c \in Child : Left(c)' = Left(c), Rank' = Rank,
         med_found' = med_found, med_found => pivot' = pivot
  PROVE  RanksKept' /\ FoundIsMedian' /\ Stutters
<1>1. Data' = Data /\ Half' = Half
  BY DEF Data, Half
<1>2. Cand' = Cand
  BY DEF Cand
<1>3. RanksKept'
  BY <1>1, <1>2 DEF IInv, RanksKept, Ranked, Above
<1>4. FoundIsMedian'
  BY <1>1 DEF IInv, FoundIsMedian, Above
<1>5. QED
  BY <1>1, <1>2, <1>3, <1>4 DEF Stutters

\* What is left of a child no step touches, unless the parent decides or drops.
LEMMA LeftKept ==
  ASSUME NEW c \in Child, Untouched(c), actual' = actual,
         \/ UNCHANGED <<pc, i, pivot>>
         \/ pc \notin {"small", "large"} /\ pc' \notin {"small", "large"}
  PROVE  Left(c)' = Left(c)
<1>1. \A code : Sent(c, code)' <=> Sent(c, code)
  BY DEF Sent, Untouched
<1>2. QED
  BY <1>1 DEF Left, Untouched

-----------------------------------------------------------------------------
(* The children's steps.                                                   *)

\* A child is somewhere in the conversation.
LEMMA SomeWhere ==
  ASSUME TypeOK, Conversation, NEW c \in Child
  PROVE  \/ Off(c) \/ Booting(c) \/ Idle(c) \/ Quiet(c) \/ Requested(c)
         \/ PivotSent(c) \/ Counted(c) \/ CheckSent(c) \/ Silent(c)
BY DEF TypeOK, ParentAt, Conversation

\* The message that a child takes, and what was waiting behind it.
LEMMA TakeFacts ==
  ASSUME TypeOK, Conversation, NEW c \in Child, NEW code, Take(c, code)
  PROVE  /\ up[c] = <<>> /\ cpc[c] = "serve"
         /\ \A d \in Child \ {c} : down'[d] = down[d]
         /\ \/ /\ code = "REQUEST" /\ Requested(c)
               /\ down[c] = One(Msg("REQUEST", 0)) /\ down'[c] = <<>>
            \/ /\ code = "PIVOT" /\ PivotSent(c)
               /\ down[c] = One(Msg("PIVOT", pivot)) /\ down'[c] = <<>>
            \/ /\ code = "CHECK" /\ CheckSent(c)
               /\ down[c] = One(Msg("CHECK", pivot)) /\ down'[c] = <<>>
            \/ /\ code \in {"SMALL", "LARGE"}
               /\ down[c] = One(Msg(code, 0)) /\ down'[c] = <<>>
            \/ /\ code \in {"SMALL", "LARGE"}
               /\ \E m \in {Msg("REQUEST", 0), Msg("PIVOT", pivot)} :
                    down[c] = Two(Msg(code, 0), m) /\ down'[c] = One(m)
<1>1. /\ cpc[c] = "serve" /\ down[c] # <<>> /\ Head(down[c]).code = code
      /\ down'[c] = Tail(down[c]) /\ \A d \in Child \ {c} : down'[d] = down[d]
  BY DEF Take, TypeOK
<1>2. \A code1, arg1 : Msg(code1, arg1).code = code1 /\ Msg(code1, arg1).arg = arg1
  BY DEF Msg
<1>3. Quiet(c) \/ Requested(c) \/ PivotSent(c) \/ CheckSent(c)
  BY <1>1, SomeWhere DEF Off, Booting, Idle, Counted, Silent, Answered
<1>4. CASE Quiet(c)
  BY <1>1, <1>2, <1>4, OneIs DEF Quiet, Small, Large
<1>5. CASE Requested(c)
  BY <1>1, <1>2, <1>5, OneIs, TwoIs DEF Requested, Awaits, Answered, Small, Large
<1>6. CASE PivotSent(c)
  BY <1>1, <1>2, <1>6, OneIs, TwoIs DEF PivotSent, Awaits, Answered, Small, Large
<1>7. CASE CheckSent(c)
  BY <1>1, <1>2, <1>7, OneIs DEF CheckSent, Answered
<1>8. QED
  BY <1>3, <1>4, <1>5, <1>6, <1>7
\* A child's numbers change only before it answers READY and when it drops some.
LEMMA ChildRest ==
  ASSUME IInv, NEW c \in Child, UNCHANGED <<actual, sig, parent>>, TypeOK',
         Kept(c), \A d \in Child \ {c} : Untouched(d), pc \notin {"kill", "wait", "done"},
         Left(c)' = Left(c), num_arr'[c] \subseteq actual[c],
         \A code : Sent(c, code)' => Sent(c, code),
         \/ num_arr'[c] = num_arr[c]
         \/ pc \in {"id", "ready"}
         \/ Sent(c, "SMALL") \/ Sent(c, "LARGE")
  PROVE  IInv' /\ Stutters
<1>1. /\ actual' = actual /\ sig' = sig /\ pc' = pc /\ i' = i /\ r' = r
      /\ pivot' = pivot /\ k' = k /\ num' = num /\ med_found' = med_found
  BY DEF parent
<1>2. Conversation'
  BY ChildKeepsConversation DEF IInv
<1>3. LoopsReset' /\ FoundSince' /\ Rank' = Rank
  BY <1>1 DEF IInv, LoopsReset, FoundSince, Rank
<1>4. FromFile'
  <2> SUFFICES ASSUME NEW d \in Child PROVE num_arr'[d] \subseteq actual[d]
    BY <1>1 DEF FromFile
  <2>1. QED
    BY DEF IInv, FromFile, Untouched
<1>5. PivotIsLeft'
  <2> SUFFICES ASSUME pc \in {"pivot", "count", "decide"}
               PROVE  pivot \in num_arr'[r] /\ ~Sent(r, "SMALL")' /\ ~Sent(r, "LARGE")'
    BY <1>1 DEF PivotIsLeft
  <2>1. pivot \in num_arr[r] /\ ~Sent(r, "SMALL") /\ ~Sent(r, "LARGE") /\ r \in Child
    BY DEF IInv, PivotIsLeft, TypeOK
  <2>2. CASE r = c
    BY <1>1, <2>1, <2>2 DEF Sent
  <2>3. CASE r # c
    <3>1. Untouched(r)
      BY <2>1, <2>3
    <3>2. QED
      BY <1>1, <2>1, <3>1 DEF Sent, Untouched
  <2>4. QED
    BY <2>2, <2>3
<1>6. Tally'
  <2>1. ASSUME NEW n \in Nat, \A d \in 1..n : num_arr'[d] = num_arr[d]
        PROVE  HowMany(num_arr, n)' = HowMany(num_arr, n)
    <3>1. {Above(num_arr'[d], pivot') : d \in 1..n} = {Above(num_arr[d], pivot) : d \in 1..n}
      BY <1>1, <2>1
    <3>2. QED
      BY <3>1 DEF HowMany
  <2>2. \A n : HowMany(actual, n)' = HowMany(actual, n)
    BY <1>1 DEF HowMany, Above
  <2>3. ASSUME NEW d \in Child, (pc = "count" /\ d < i) \/ pc = "decide"
        PROVE  num_arr'[d] = num_arr[d]
    <3>1. Counted(d)
      BY <2>3 DEF IInv, Conversation
    <3>2. ~Sent(d, "SMALL") /\ ~Sent(d, "LARGE")
      BY <3>1, SentIn DEF Counted, Idle, Silent
    <3>3. QED
      BY <2>3, <3>2 DEF Untouched
  <2>4. N \in Nat /\ i \in 1..N /\ Child = 1..N
    BY MedianAssumption DEF IInv, TypeOK, Child
  <2>5. CASE pc = "count"
    <3>1. i - 1 \in Nat /\ \A d \in 1..(i - 1) : d \in Child /\ d < i
      BY <2>4
    <3>2. HowMany(num_arr, i - 1)' = HowMany(num_arr, i - 1)
      BY <1>1, <2>1, <2>3, <2>5, <3>1
    <3>3. QED
      BY <1>1, <2>5, <3>2 DEF IInv, Tally
  <2>6. CASE pc = "decide"
    <3>1. HowMany(num_arr, N)' = HowMany(num_arr, N)
      BY <2>1, <2>3, <2>4, <2>6
    <3>2. QED
      BY <1>1, <2>6, <3>1 DEF IInv, Tally
  <2>7. CASE pc \notin {"count", "decide"}
    BY <1>1, <2>2, <2>7 DEF IInv, Tally
  <2>8. QED
    BY <2>5, <2>6, <2>7
<1>7. \A d \in Child : Left(d)' = Left(d)
  BY <1>1, LeftKept
<1>8. RanksKept' /\ FoundIsMedian' /\ Stutters
  BY <1>1, <1>3, <1>7, StutterKeeps
<1>9. QED
  BY <1>2, <1>3, <1>4, <1>5, <1>6, <1>8 DEF IInv

\* A message taken is gone, and no other has come.
LEMMA TakeSends ==
  ASSUME TypeOK, NEW c \in Child, down[c] # <<>>, down' = [down EXCEPT ![c] = Tail(@)]
  PROVE  /\ down' \in [Child -> Seq(Messages)]
         /\ \A d \in Child : \A code : Sent(d, code)' => Sent(d, code)
<1>1. down[c] \in Seq(Messages) /\ down[c] # <<>>
  BY DEF TypeOK
<1>2. /\ Tail(down[c]) \in Seq(Messages) /\ Len(Tail(down[c])) = Len(down[c]) - 1
      /\ \A j \in 1..Len(Tail(down[c])) : Tail(down[c])[j] = down[c][j + 1]
  BY <1>1, HeadTailProperties
<1>3. /\ DOMAIN Tail(down[c]) = 1..Len(Tail(down[c])) /\ DOMAIN down[c] = 1..Len(down[c])
      /\ Len(down[c]) \in Nat
  BY <1>1, <1>2, LenProperties
<1>4. down'[c] = Tail(down[c]) /\ \A d \in Child \ {c} : down'[d] = down[d]
  BY DEF TypeOK
<1>5. \A code : Sent(c, code)' => Sent(c, code)
  <2> SUFFICES ASSUME NEW code, NEW j \in DOMAIN Tail(down[c]), Tail(down[c])[j].code = code
               PROVE  \E l \in DOMAIN down[c] : down[c][l].code = code
    BY <1>4 DEF Sent
  <2>1. j + 1 \in DOMAIN down[c] /\ down[c][j + 1].code = code
    BY <1>2, <1>3
  <2>2. QED
    BY <2>1
<1>6. \A d \in Child : \A code : Sent(d, code)' => Sent(d, code)
  BY <1>4, <1>5 DEF Sent
<1>7. QED
  BY <1>2, <1>6 DEF TypeOK

\* What a child writes is added to its pipe.
LEMMA ReplySends ==
  ASSUME TypeOK, NEW c \in Child, NEW v \in Int, Reply(c, v)
  PROVE  /\ up' \in [Child -> Seq(Int)]
         /\ up[c] = <<>> => up'[c] = One(v)
         /\ \A d \in Child \ {c} : up'[d] = up[d]
<1>1. Append(up[c], v) \in Seq(Int)
  BY AppendProperties DEF TypeOK
<1>2. QED
  BY <1>1 DEF Reply, TypeOK, One
LEMMA BootStep ==
  ASSUME IInv, NEW c \in Child, Boot(c)
  PROVE  IInv' /\ Stutters
<1>1. TypeOK /\ Conversation
  BY DEF IInv
<1>2. cpc[c] = "boot" /\ down[c] # <<>>
  BY DEF Boot
<1>3. Booting(c) /\ down[c] = One(Msg("ID", c)) /\ up[c] = <<>>
  BY <1>1, <1>2, SomeWhere, OneIs
     DEF Off, Booting, Idle, Quiet, Requested, PivotSent, Counted, CheckSent, Silent, Conversation,
         TypeOK, ParentAt, IInv
<1>4. Msg("ID", c).code = "ID" /\ Msg("ID", c).arg = c
  BY DEF Msg
<1>5. /\ down' = [down EXCEPT ![c] = Tail(@)] /\ down'[c] = <<>>
      /\ num_arr' = [num_arr EXCEPT ![c] = actual[c]] /\ num_arr'[c] = actual[c]
      /\ cpc' = [cpc EXCEPT ![c] = "serve"] /\ cpc'[c] = "serve"
      /\ Reply(c, READY) /\ UNCHANGED <<actual, cpivot, sig, parent>>
  <2>1. Arg(c) = c /\ Tail(down[c]) = <<>>
    BY <1>3, <1>4, OneIs DEF Arg
  <2>2. /\ down \in [Child -> Seq(Messages)] /\ num_arr \in [Child -> SUBSET Values]
        /\ cpc \in [Child -> {"boot", "serve", "dead"}]
    BY <1>1 DEF TypeOK
  <2>3. QED
    BY <2>1, <2>2 DEF Boot
<1>6. /\ up' \in [Child -> Seq(Int)] /\ up'[c] = One(READY)
      /\ \A d \in Child \ {c} : up'[d] = up[d]
  <2>1. READY \in Int
    BY DEF READY
  <2>2. QED
    BY <1>1, <1>3, <1>5, <2>1, ReplySends
<1>7. \A d \in Child \ {c} : Untouched(d)
  BY <1>1, <1>5, <1>6 DEF TypeOK, Untouched
<1>8. /\ down' \in [Child -> Seq(Messages)]
      /\ \A code : Sent(c, code)' => Sent(c, code)
  BY <1>1, <1>2, <1>5, TakeSends
<1>9. TypeOK'
  <2>1. actual[c] \in SUBSET Values
    BY <1>1, FilesFinite DEF TypeOK
  <2>2. QED
    BY <1>1, <1>5, <1>6, <1>8, <2>1 DEF TypeOK, parent
<1>10. pc \in {"id", "ready"}
  BY <1>1, <1>2 DEF TypeOK, ParentAt, Conversation, Idle, Quiet, Requested, PivotSent, Counted,
                    CheckSent
<1>11. Kept(c)
  BY <1>2, <1>3, <1>5, <1>6, OneIs
     DEF Kept, Off, Booting, Idle, Quiet, Requested, PivotSent, Counted, CheckSent, Silent, Answered
<1>12. Left(c)' = Left(c)
  <2>1. /\ ~Sent(c, "SMALL") /\ ~Sent(c, "LARGE")
        /\ ~Sent(c, "SMALL")' /\ ~Sent(c, "LARGE")'
    BY <1>3, <1>4, <1>8, SentIn
  <2>2. pc' = pc
    BY <1>5 DEF parent
  <2>3. QED
    BY <1>2, <1>5, <1>10, <2>1, <2>2 DEF Left
<1>13. QED
  BY <1>5, <1>7, <1>8, <1>9, <1>10, <1>11, <1>12, ChildRest

LEMMA AnswerRequestStep ==
  ASSUME IInv, NEW c \in Child, NEW x \in Values \cup {-1}, AnswerRequest(c, x)
  PROVE  IInv' /\ Stutters
<1>1. TypeOK /\ Conversation
  BY DEF IInv
<1>2. Take(c, "REQUEST") /\ Reply(c, x) /\ UNCHANGED <<actual, child, sig, parent>>
  BY DEF AnswerRequest
<1>3. /\ Requested(c) /\ up[c] = <<>> /\ cpc[c] = "serve"
      /\ down[c] = One(Msg("REQUEST", 0)) /\ down'[c] = <<>>
      /\ \A d \in Child \ {c} : down'[d] = down[d]
  BY <1>1, <1>2, TakeFacts
<1>4. x \in Int /\ (x \in num_arr[c] \/ (num_arr[c] = {} /\ x = -1))
  <2>1. \A y \in Values : y \in Int
    BY MedianAssumption
  <2>2. QED
    BY <2>1 DEF AnswerRequest
<1>5. /\ up' \in [Child -> Seq(Int)] /\ up'[c] = One(x)
      /\ \A d \in Child \ {c} : up'[d] = up[d]
  BY <1>1, <1>2, <1>3, <1>4, ReplySends
<1>6. num_arr' = num_arr /\ cpivot' = cpivot /\ cpc' = cpc
  BY <1>2 DEF child
<1>7. \A d \in Child \ {c} : Untouched(d)
  BY <1>3, <1>5, <1>6 DEF Untouched
<1>8. /\ down' \in [Child -> Seq(Messages)]
      /\ \A code : Sent(c, code)' => Sent(c, code)
  BY <1>1, <1>2, TakeSends DEF Take
<1>9. TypeOK'
  BY <1>1, <1>2, <1>5, <1>6, <1>8 DEF TypeOK, parent
<1>10. Msg("REQUEST", 0).code = "REQUEST"
  BY DEF Msg
<1>11. Kept(c)
  <2>1. Requested(c)'
    BY <1>3, <1>4, <1>5, <1>6 DEF Requested, Answered
  <2>2. ~Off(c) /\ ~Booting(c) /\ ~Idle(c) /\ ~Quiet(c) /\ ~Counted(c)
    BY <1>3, <1>10, OneIs DEF Off, Booting, Idle, Quiet, Counted, Silent, Answered, Small, Large, Msg
  <2>3. ~PivotSent(c) /\ ~CheckSent(c)
    <3>1. Head(down[c]).code = "REQUEST"
      BY <1>3, <1>10, OneIs
    <3>2. QED
      BY <1>3, <3>1, OneIs, TwoIs DEF PivotSent, CheckSent, Awaits, Answered, Small, Large, Msg
  <2>4. QED
    BY <2>1, <2>2, <2>3 DEF Kept
<1>12. Left(c)' = Left(c)
  <2>1. /\ ~Sent(c, "SMALL") /\ ~Sent(c, "LARGE")
        /\ ~Sent(c, "SMALL")' /\ ~Sent(c, "LARGE")'
    BY <1>3, <1>8, <1>10, SentIn
  <2>2. pc' = pc /\ i' = i /\ pivot' = pivot
    BY <1>2 DEF parent
  <2>3. QED
    BY <1>2, <1>6, <2>1, <2>2 DEF Left
<1>13. num_arr'[c] \subseteq actual[c] /\ num_arr'[c] = num_arr[c]
  BY <1>6 DEF IInv, FromFile
<1>14. pc \notin {"kill", "wait", "done"}
  BY <1>1, <1>3, OneIs DEF Conversation, Silent
<1>15. QED
  BY <1>2, <1>7, <1>8, <1>9, <1>11, <1>12, <1>13, <1>14, ChildRest
\* A child drops what its pivot and the message say, and only that was to be dropped.
LEMMA DropStep ==
  ASSUME IInv, NEW c \in Child, NEW code \in {"SMALL", "LARGE"}, Take(c, code),
         UNCHANGED <<actual, cpivot, cpc, up, sig, parent>>, NEW B,
         B = {x \in num_arr[c] : IF code = "SMALL" THEN x >= cpivot[c] ELSE x <= cpivot[c]},
         num_arr' = [num_arr EXCEPT ![c] = B]
  PROVE  IInv' /\ Stutters
<1>1. TypeOK /\ Conversation
  BY DEF IInv
<1>2. /\ up[c] = <<>> /\ cpc[c] = "serve"
      /\ \A d \in Child \ {c} : down'[d] = down[d]
      /\ \/ down[c] = One(Msg(code, 0)) /\ down'[c] = <<>>
         \/ \E m \in {Msg("REQUEST", 0), Msg("PIVOT", pivot)} :
              down[c] = Two(Msg(code, 0), m) /\ down'[c] = One(m)
  BY <1>1, TakeFacts
<1>3. B \subseteq num_arr[c] /\ num_arr'[c] = B
  BY <1>1 DEF TypeOK
<1>4. \A a, b : Msg(a, b).code = a
  BY DEF Msg
<1>5. \A d \in Child \ {c} : Untouched(d)
  BY <1>1, <1>2 DEF TypeOK, Untouched
<1>6. /\ down' \in [Child -> Seq(Messages)]
      /\ \A a : Sent(c, a)' => Sent(c, a)
  BY <1>1, TakeSends DEF Take
<1>7. TypeOK'
  <2>1. num_arr' \in [Child -> SUBSET Values]
    BY <1>1, <1>3 DEF TypeOK
  <2>2. QED
    BY <1>1, <1>6, <2>1 DEF TypeOK, parent
<1>8. Kept(c)
  <2>1. ~Off(c) /\ ~Booting(c) /\ ~Idle(c) /\ ~Counted(c)
    BY <1>2, OneIs, TwoIs DEF Off, Booting, Idle, Counted, Silent, Answered
  <2>2. ~CheckSent(c)
    <3>1. Head(down[c]).code = code /\ down[c] # <<>>
      BY <1>2, <1>4, OneIs, TwoIs
    <3>2. QED
      BY <3>1, <1>4, OneIs DEF CheckSent, Answered
  <2>3. Quiet(c) => Quiet(c)'
    <3>1. ASSUME NEW m, down[c] = Two(Msg(code, 0), m) PROVE ~Quiet(c)
      BY <3>1, OneIs, TwoIs DEF Quiet
    <3>2. QED
      BY <1>2, <3>1 DEF Quiet
  <2>4. Requested(c) => Requested(c)'
    <3> SUFFICES ASSUME Requested(c) PROVE down'[c] = One(Msg("REQUEST", 0))
      BY <1>2 DEF Requested, Awaits
    <3>1. down[c] # <<>> /\ Head(down[c]).code = code
      BY <1>2, <1>4, OneIs, TwoIs
    <3>2. down[c] = Two(Small, Msg("REQUEST", 0)) \/ down[c] = Two(Large, Msg("REQUEST", 0))
      BY <1>4, <3>1, OneIs DEF Requested, Awaits, Answered
    <3>3. down'[c] = Tail(down[c])
      BY <1>1 DEF Take, TypeOK
    <3>4. QED
      BY <3>2, <3>3, TwoIs
  <2>5. PivotSent(c) => PivotSent(c)'
    <3> SUFFICES ASSUME PivotSent(c) PROVE down'[c] = One(Msg("PIVOT", pivot)) /\ pivot' = pivot
      BY <1>2 DEF PivotSent, Awaits
    <3>1. down[c] # <<>> /\ Head(down[c]).code = code
      BY <1>2, <1>4, OneIs, TwoIs
    <3>2. down[c] = Two(Small, Msg("PIVOT", pivot)) \/ down[c] = Two(Large, Msg("PIVOT", pivot))
      BY <1>4, <3>1, OneIs DEF PivotSent, Awaits, Answered
    <3>3. down'[c] = Tail(down[c])
      BY <1>1 DEF Take, TypeOK
    <3>4. QED
      BY <3>2, <3>3, TwoIs DEF parent
  <2>6. QED
    BY <2>1, <2>2, <2>3, <2>4, <2>5 DEF Kept
<1>9. /\ Sent(c, code) /\ \A a \in {"SMALL", "LARGE"} : (a # code => ~Sent(c, a)) /\ ~Sent(c, a)'
  <2>1. CASE down[c] = One(Msg(code, 0)) /\ down'[c] = <<>>
    <3>1. \A a : (Sent(c, a) <=> code = a) /\ ~Sent(c, a)'
      <4> DEFINE m == Msg(code, 0)
      <4>1. m.code = code
        BY <1>4
      <4> HIDE DEF m
      <4>2. \A a : Sent(c, a) <=> m.code = a
        BY <2>1, SentIn DEF m
      <4>3. \A a : ~Sent(c, a)'
        BY <2>1, SentAfter
      <4>4. QED
        BY <4>1, <4>2, <4>3
    <3>2. QED
      BY <3>1
  <2>2. ASSUME NEW m \in {Msg("REQUEST", 0), Msg("PIVOT", pivot)},
               down[c] = Two(Msg(code, 0), m), down'[c] = One(m)
        PROVE  /\ Sent(c, code)
               /\ \A a \in {"SMALL", "LARGE"} : (a # code => ~Sent(c, a)) /\ ~Sent(c, a)'
    <3>1. m.code \notin {"SMALL", "LARGE"}
      BY <1>4
    <3>2. QED
      <4>1. \A a : Sent(c, a) <=> code = a \/ m.code = a
        BY <1>4, <2>2, SentIn
      <4>2. \A a : Sent(c, a)' <=> m.code = a
        BY <2>2, SentAfter
      <4>3. QED
        BY <3>1, <4>1, <4>2
  <2>3. QED
    BY <1>2, <2>1, <2>2
<1>10. Left(c)' = Left(c)
  <2>1. pc' = pc /\ i' = i /\ pivot' = pivot /\ cpc' = cpc /\ cpivot' = cpivot
    BY DEF parent
  <2>2. CASE code = "SMALL"
    BY <1>2, <1>3, <1>9, <2>1, <2>2 DEF Left
  <2>3. CASE code = "LARGE"
    BY <1>2, <1>3, <1>9, <2>1, <2>3 DEF Left
  <2>4. QED
    BY <2>2, <2>3
<1>11. num_arr'[c] \subseteq actual[c]
  BY <1>3 DEF IInv, FromFile
<1>12. pc \notin {"kill", "wait", "done"}
  BY <1>1, <1>2, OneIs, TwoIs DEF Conversation, Silent
<1>13. QED
  BY <1>5, <1>6, <1>7, <1>8, <1>9, <1>10, <1>11, <1>12, ChildRest

LEMMA OnSmallStep ==
  ASSUME IInv, NEW c \in Child, OnSmall(c)
  PROVE  IInv' /\ Stutters
<1> DEFINE B == {x \in num_arr[c] : x >= cpivot[c]}
<1>1. /\ Take(c, "SMALL") /\ UNCHANGED <<actual, cpivot, cpc, up, sig, parent>>
      /\ num_arr' = [num_arr EXCEPT ![c] = B]
      /\ B = {x \in num_arr[c] : IF "SMALL" = "SMALL" THEN x >= cpivot[c] ELSE x <= cpivot[c]}
  BY DEF OnSmall
<1> HIDE DEF B
<1>2. QED
  BY <1>1, DropStep

LEMMA OnLargeStep ==
  ASSUME IInv, NEW c \in Child, OnLarge(c)
  PROVE  IInv' /\ Stutters
<1> DEFINE B == {x \in num_arr[c] : x <= cpivot[c]}
<1>1. /\ Take(c, "LARGE") /\ UNCHANGED <<actual, cpivot, cpc, up, sig, parent>>
      /\ num_arr' = [num_arr EXCEPT ![c] = B]
      /\ B = {x \in num_arr[c] : IF "LARGE" = "SMALL" THEN x >= cpivot[c] ELSE x <= cpivot[c]}
  BY DEF OnLarge
<1> HIDE DEF B
<1>2. QED
  BY <1>1, DropStep

\* A child counts for a pivot or for the check, and takes over the number asked about.
LEMMA CountStep ==
  ASSUME IInv, NEW c \in Child, NEW v, UNCHANGED <<actual, num_arr, cpc, sig, parent>>,
         cpivot' = [cpivot EXCEPT ![c] = pivot], Reply(c, v),
         \/ Take(c, "PIVOT") /\ v = Cardinality(Above(num_arr[c], pivot))
         \/ Take(c, "CHECK") /\ v = Cardinality(Above(actual[c], pivot))
  PROVE  IInv' /\ Stutters
<1>1. TypeOK /\ Conversation /\ FromFile
  BY DEF IInv
<1>2. /\ up[c] = <<>> /\ cpc[c] = "serve" /\ down'[c] = <<>>
      /\ \A d \in Child \ {c} : down'[d] = down[d]
      /\ \/ /\ PivotSent(c) /\ down[c] = One(Msg("PIVOT", pivot))
            /\ v = Cardinality(Above(num_arr[c], pivot))
         \/ /\ CheckSent(c) /\ down[c] = One(Msg("CHECK", pivot))
            /\ v = Cardinality(Above(actual[c], pivot))
  BY <1>1, TakeFacts
<1>3. v \in Nat
  <2>1. actual \in DataFiles /\ IsFiniteSet(actual[c]) /\ num_arr[c] \in SUBSET actual[c]
    BY <1>1, FilesFinite DEF TypeOK, FromFile
  <2>2. IsFiniteSet(num_arr[c])
    BY <2>1, FS_Subset
  <2>3. QED
    BY <1>2, <2>1, <2>2, AboveFinite
<1>4. /\ up' \in [Child -> Seq(Int)] /\ up'[c] = One(v)
      /\ \A d \in Child \ {c} : up'[d] = up[d]
  <2>1. v \in Int
    BY <1>3
  <2>2. QED
    BY <1>1, <1>2, <2>1, ReplySends
<1>5. /\ cpivot' \in [Child -> Values \cup {Unread}] /\ cpivot'[c] = pivot
      /\ \A d \in Child \ {c} : cpivot'[d] = cpivot[d]
  BY <1>1 DEF TypeOK, Unread
<1>6. \A d \in Child \ {c} : Untouched(d)
  BY <1>2, <1>4, <1>5 DEF Untouched
<1>7. /\ down' \in [Child -> Seq(Messages)]
      /\ \A a : Sent(c, a)' => Sent(c, a)
  BY <1>1, TakeSends DEF Take
<1>8. TypeOK'
  BY <1>1, <1>4, <1>5, <1>7 DEF TypeOK, parent
<1>9. pivot' = pivot
  BY DEF parent
<1>10. \A a, b : Msg(a, b).code = a
  BY DEF Msg
<1>11. Kept(c)
  <2>1. Head(down[c]).code \in {"PIVOT", "CHECK"} /\ down[c] # <<>>
    BY <1>2, <1>10, OneIs
  <2>2. ~Off(c) /\ ~Booting(c) /\ ~Idle(c) /\ ~Counted(c)
    BY <1>2, <2>1 DEF Off, Booting, Idle, Counted, Silent, Answered
  <2>3. ~Quiet(c) /\ ~Requested(c)
    BY <1>10, <2>1, OneIs, TwoIs DEF Quiet, Requested, Awaits, Answered, Small, Large
  <2>4. PivotSent(c) => PivotSent(c)'
    <3> SUFFICES ASSUME PivotSent(c) PROVE PivotSent(c)'
      OBVIOUS
    <3>1. Head(down[c]).code = "PIVOT"
      BY <1>10, <2>1, OneIs, TwoIs DEF PivotSent, Awaits, Answered, Small, Large
    <3>2. v = Cardinality(Above(num_arr[c], pivot))
      BY <1>2, <1>10, <3>1, OneIs
    <3>3. QED
      BY <1>2, <1>4, <1>5, <1>9, <3>2 DEF PivotSent, Answered
  <2>5. CheckSent(c) => CheckSent(c)'
    <3> SUFFICES ASSUME CheckSent(c) PROVE CheckSent(c)'
      OBVIOUS
    <3>1. Head(down[c]).code = "CHECK"
      BY <1>10, <2>1, OneIs DEF CheckSent, Answered
    <3>2. v = Cardinality(Above(actual[c], pivot))
      BY <1>2, <1>10, <3>1, OneIs
    <3>3. QED
      BY <1>2, <1>4, <1>9, <3>2 DEF CheckSent, Answered
  <2>6. QED
    BY <2>2, <2>3, <2>4, <2>5 DEF Kept
<1>12. Left(c)' = Left(c)
  <2>1. /\ ~Sent(c, "SMALL") /\ ~Sent(c, "LARGE")
        /\ ~Sent(c, "SMALL")' /\ ~Sent(c, "LARGE")'
    <3>1. ASSUME NEW m, m.code \in {"PIVOT", "CHECK"}, down[c] = One(m)
          PROVE  ~Sent(c, "SMALL") /\ ~Sent(c, "LARGE")
      BY <3>1, SentIn
    <3>2. ~Sent(c, "SMALL") /\ ~Sent(c, "LARGE")
      BY <1>2, <1>10, <3>1
    <3>3. QED
      BY <1>7, <3>2
  <2>2. pc' = pc /\ i' = i
    BY DEF parent
  <2>3. QED
    BY <1>9, <2>1, <2>2 DEF Left
<1>13. num_arr'[c] \subseteq actual[c]
  BY <1>1 DEF FromFile
<1>14. pc \notin {"kill", "wait", "done"}
  BY <1>1, <1>2, OneIs DEF Conversation, Silent
<1>15. QED
  BY <1>6, <1>7, <1>8, <1>11, <1>12, <1>13, <1>14, ChildRest

LEMMA OnPivotStep ==
  ASSUME IInv, NEW c \in Child, OnPivot(c)
  PROVE  IInv' /\ Stutters
<1>1. TypeOK /\ Conversation /\ Take(c, "PIVOT")
  BY DEF IInv, OnPivot
<1>2. down[c] = One(Msg("PIVOT", pivot))
  BY <1>1, TakeFacts
<1>3. Arg(c) = pivot
  BY <1>2, OneIs DEF Arg, Msg
<1>4. QED
  BY <1>3, CountStep DEF OnPivot

LEMMA OnCheckStep ==
  ASSUME IInv, NEW c \in Child, OnCheck(c)
  PROVE  IInv' /\ Stutters
<1>1. TypeOK /\ Conversation /\ Take(c, "CHECK")
  BY DEF IInv, OnCheck
<1>2. down[c] = One(Msg("CHECK", pivot))
  BY <1>1, TakeFacts
<1>3. Arg(c) = pivot
  BY <1>2, OneIs DEF Arg, Msg
<1>4. QED
  BY <1>3, CountStep DEF OnCheck

LEMMA TerminateStep ==
  ASSUME IInv, NEW c \in Child, Terminate(c)
  PROVE  IInv' /\ Stutters
<1>1. /\ c \in sig /\ cpc' = [cpc EXCEPT ![c] = "dead"]
      /\ actual' = actual /\ num_arr' = num_arr /\ cpivot' = cpivot /\ down' = down
      /\ up' = up /\ sig' = sig /\ pc' = pc /\ i' = i /\ r' = r
      /\ pivot' = pivot /\ k' = k /\ num' = num /\ med_found' = med_found
  BY DEF Terminate, parent
<1>2. pc \in {"kill", "wait", "done"}
  BY <1>1 DEF IInv, LoopsReset
<1>3. TypeOK'
  BY <1>1 DEF IInv, TypeOK
<1>4. Conversation'
  <2>1. \A d \in Child : Silent(d)' /\ cpc'[d] # "boot"
    BY <1>1, <1>2 DEF IInv, Conversation, Silent, TypeOK
  <2>2. QED
    BY <1>1, <1>2, <2>1 DEF Conversation
<1>5. LoopsReset' /\ FromFile' /\ FoundSince' /\ Rank' = Rank
  BY <1>1 DEF IInv, LoopsReset, FromFile, FoundSince, Rank
<1>6. PivotIsLeft' /\ Tally'
  BY <1>1, <1>2 DEF IInv, PivotIsLeft, Tally, HowMany, Above
<1>7. ASSUME NEW d \in Child PROVE Left(d)' = Left(d)
  <2>1. cpc[d] # "boot" /\ cpc'[d] # "boot"
    BY <1>1, <1>2 DEF IInv, Conversation, TypeOK
  <2>2. QED
    BY <1>1, <2>1 DEF Left, Sent
<1>8. RanksKept' /\ FoundIsMedian' /\ Stutters
  BY <1>1, <1>5, <1>7, StutterKeeps
<1>9. QED
  BY <1>3, <1>4, <1>5, <1>6, <1>8 DEF IInv
-----------------------------------------------------------------------------
(* The parent's steps.                                                     *)

\* One round of a loop over the children is followed by the next or by the next line.
LEMMA LoopFacts ==
  ASSUME i \in Child, NEW a, NEW b, Loop(a, b)
  PROVE  /\ pc = a /\ i' \in Child
         /\ \/ /\ i < N /\ pc' = a /\ i' = i + 1
               /\ \A c \in Child : c < i' <=> (c < i \/ c = i)
            \/ /\ i = N /\ pc' = b /\ i' = 1
               /\ \A c \in Child : (c < i \/ c = i) /\ ~(c < i')
<1>1. N \in Nat \ {0} /\ i \in 1..N
  BY MedianAssumption DEF Child
<1>2. QED
  BY <1>1 DEF Loop, Child

\* What the parent writes comes behind what is there; only two codes make a child drop numbers.
LEMMA SendFacts ==
  ASSUME TypeOK, NEW c \in Child, NEW code, NEW arg, Msg(code, arg) \in Messages,
         Send(c, code, arg)
  PROVE  /\ down' \in [Child -> Seq(Messages)]
         /\ \A d \in Child \ {c} : down'[d] = down[d]
         /\ down[c] = <<>> => down'[c] = One(Msg(code, arg))
         /\ \A m : down[c] = One(m) => down'[c] = Two(m, Msg(code, arg))
         /\ \A a : (Sent(c, a)' <=> Sent(c, a) \/ a = code)
         /\ code \notin {"SMALL", "LARGE"} =>
              \A d \in Child : \A a \in {"SMALL", "LARGE"} : Sent(d, a)' <=> Sent(d, a)
<1> DEFINE m == Msg(code, arg)
           s == down[c]
<1>1. s \in Seq(Messages) /\ m \in Messages /\ m.code = code
  BY DEF TypeOK, Msg
<1>2. down' = [down EXCEPT ![c] = Append(s, m)]
  BY DEF Send, Msg
<1>3. /\ down'[c] = Append(s, m) /\ \A d \in Child \ {c} : down'[d] = down[d]
      /\ down' \in [Child -> Seq(Messages)]
  BY <1>1, <1>2, AppendProperties DEF TypeOK
<1>4. ASSUME NEW a
      PROVE  Sent(c, a)' <=> Sent(c, a) \/ a = code
  <2>1. /\ Len(Append(s, m)) = Len(s) + 1 /\ Append(s, m)[Len(s) + 1] = m
        /\ \A j \in 1..Len(s) : Append(s, m)[j] = s[j]
        /\ Append(s, m) \in Seq(Messages)
    BY <1>1, AppendProperties
  <2>2. DOMAIN Append(s, m) = 1..(Len(s) + 1) /\ DOMAIN s = 1..Len(s) /\ Len(s) \in Nat
    BY <1>1, <2>1, LenProperties
  <2> DEFINE t == Append(s, m)
  <2> HIDE DEF s, t, m
  <2>3. (\E j \in DOMAIN t : t[j].code = a) <=> (\E j \in DOMAIN s : s[j].code = a) \/ a = code
    BY <1>1, <2>1, <2>2 DEF t
  <2>4. QED
    BY <1>3, <2>3 DEF Sent, s, t
<1>5. ASSUME NEW d \in Child, d # c, NEW a
      PROVE  Sent(d, a)' <=> Sent(d, a)
  BY <1>3, <1>5 DEF Sent
<1>6. QED
  BY <1>3, <1>4, <1>5 DEF One, Two

LEMMA RecvFacts ==
  ASSUME TypeOK, NEW c \in Child, Recv(c)
  PROVE  /\ up' \in [Child -> Seq(Int)] /\ up[c] # <<>>
         /\ \A d \in Child \ {c} : up'[d] = up[d]
         /\ \A v : up[c] = One(v) => Head(up[c]) = v /\ up'[c] = <<>>
<1>1. up[c] \in Seq(Int) /\ up[c] # <<>>
  BY DEF TypeOK, Recv
<1>2. Tail(up[c]) \in Seq(Int)
  BY <1>1, HeadTailProperties
<1>3. QED
  BY <1>1, <1>2, OneIs DEF Recv, TypeOK

\* The steps of the parent that neither decide nor tell the decision.
LEMMA ParentRest ==
  ASSUME IInv, UNCHANGED <<actual, child>>,
         pc \notin {"small", "large"}, pc' \notin {"small", "large"},
         \A d \in Child : \A a \in {"SMALL", "LARGE"} : Sent(d, a)' <=> Sent(d, a),
         k' = k, med_found' = med_found, med_found => pivot' = pivot,
         TypeOK', Conversation', LoopsReset', PivotIsLeft', Tally', FoundSince'
  PROVE  IInv' /\ Stutters
<1>1. actual' = actual /\ num_arr' = num_arr /\ cpivot' = cpivot /\ cpc' = cpc
  BY DEF child
<1>2. FromFile' /\ Rank' = Rank
  BY <1>1 DEF IInv, FromFile, Rank
<1>3. \A d \in Child : Left(d)' = Left(d)
  BY <1>1 DEF Left
<1>4. RanksKept' /\ FoundIsMedian' /\ Stutters
  BY <1>1, <1>2, <1>3, StutterKeeps
<1>5. QED
  BY <1>2, <1>4 DEF IInv

\* The values that parent and children send are of the types declared.
LEMMA MessageTypes ==
  ASSUME TypeOK
  PROVE  /\ \A c \in Child : Msg("ID", c) \in Messages
         /\ Msg("REQUEST", 0) \in Messages /\ Small \in Messages /\ Large \in Messages
         /\ Msg("PIVOT", pivot) \in Messages /\ Msg("CHECK", pivot) \in Messages
BY DEF TypeOK, Messages, Msg, Small, Large

LEMMA SendIdStep ==
  ASSUME IInv, SendId
  PROVE  IInv' /\ Stutters
<1>1. TypeOK /\ Conversation /\ i \in Child
  BY DEF IInv, TypeOK
<1> PICK m \in Child : m = i
  BY <1>1
<1>2. /\ Loop("id", "ready") /\ Send(m, "ID", m)
      /\ actual' = actual /\ num_arr' = num_arr /\ cpivot' = cpivot /\ cpc' = cpc /\ up' = up
      /\ sig' = sig /\ r' = r /\ pivot' = pivot /\ k' = k /\ num' = num /\ med_found' = med_found
  BY DEF SendId, child
<1>3. /\ pc = "id" /\ i' \in Child
      /\ \/ /\ m < N /\ pc' = "id"
            /\ \A c \in Child : c < i' <=> (c < m \/ c = m)
         \/ /\ pc' = "ready"
            /\ \A c \in Child : (c < m \/ c = m) /\ ~(c < i')
  BY <1>1, <1>2, LoopFacts
<1>4. /\ down' \in [Child -> Seq(Messages)]
      /\ \A d \in Child \ {m} : down'[d] = down[d]
      /\ down[m] = <<>> => down'[m] = One(Msg("ID", m))
      /\ \A d \in Child : \A a \in {"SMALL", "LARGE"} : Sent(d, a)' <=> Sent(d, a)
  BY <1>1, <1>2, SendFacts, MessageTypes
<1>5. TypeOK'
  BY <1>1, <1>2, <1>3, <1>4 DEF TypeOK, ParentAt
<1>6. \A d \in Child \ {m} : Untouched(d)
  BY <1>2, <1>4 DEF Untouched
<1>7. Booting(m)'
  <2>1. Off(m)
    BY <1>1, <1>3 DEF Conversation, Child
  <2>2. QED
    BY <1>2, <1>4, <2>1 DEF Off, Silent, Booting
<1>8. Conversation'
  <2>1. \A d \in Child : d < m => Booting(d)'
    BY <1>1, <1>2, <1>3, <1>6, UntouchedKept DEF Conversation, Child
  <2>2. \A d \in Child : ~(d < m \/ d = m) => Off(d)'
    BY <1>1, <1>2, <1>3, <1>6, UntouchedKept DEF Conversation
  <2>3. QED
    BY <1>3, <1>7, <2>1, <2>2 DEF Conversation
<1>9. LoopsReset' /\ PivotIsLeft' /\ Tally' /\ FoundSince'
  BY <1>2, <1>3 DEF IInv, LoopsReset, PivotIsLeft, Tally, FoundSince
<1>10. QED
  BY <1>2, <1>3, <1>4, <1>5, <1>8, <1>9, ParentRest DEF child

LEMMA ReadReadyStep ==
  ASSUME IInv, ReadReady
  PROVE  IInv' /\ Stutters
<1>1. TypeOK /\ Conversation /\ i \in Child
  BY DEF IInv, TypeOK
<1> PICK m \in Child : m = i
  BY <1>1
<1>2. /\ Loop("ready", "pick") /\ Recv(m)
      /\ actual' = actual /\ num_arr' = num_arr /\ cpivot' = cpivot /\ cpc' = cpc /\ down' = down
      /\ sig' = sig /\ r' = r /\ pivot' = pivot /\ k' = k /\ num' = num /\ med_found' = med_found
  BY DEF ReadReady, child
<1>3. /\ pc = "ready" /\ i' \in Child
      /\ \/ /\ m < N /\ pc' = "ready"
            /\ \A c \in Child : c < i' <=> (c < m \/ c = m)
         \/ /\ pc' = "pick" /\ i' = 1
            /\ \A c \in Child : (c < m \/ c = m) /\ ~(c < i')
  BY <1>1, <1>2, LoopFacts
<1>4. /\ up' \in [Child -> Seq(Int)] /\ up[m] # <<>>
      /\ \A d \in Child \ {m} : up'[d] = up[d]
      /\ \A v : up[m] = One(v) => Head(up[m]) = v /\ up'[m] = <<>>
  BY <1>1, <1>2, RecvFacts
<1>5. TypeOK'
  BY <1>1, <1>2, <1>3, <1>4 DEF TypeOK, ParentAt
<1>6. \A d \in Child \ {m} : Untouched(d)
  BY <1>2, <1>4 DEF Untouched
<1>7. Idle(m)'
  <2>1. Booting(m)
    BY <1>1, <1>3 DEF Conversation, Child
  <2>2. QED
    BY <1>2, <1>4, <2>1 DEF Booting, Answered, Idle, Silent
<1>8. Conversation'
  <2>1. \A d \in Child : d < m => Idle(d)'
    BY <1>1, <1>2, <1>3, <1>6, UntouchedKept DEF Conversation, Child
  <2>2. \A d \in Child : ~(d < m \/ d = m) => Booting(d)'
    BY <1>1, <1>2, <1>3, <1>6, UntouchedKept DEF Conversation
  <2>3. \A d \in Child : Idle(d)' => Quiet(d)'
    BY DEF Idle, Silent, Quiet
  <2>4. QED
    BY <1>3, <1>7, <2>1, <2>2, <2>3 DEF Conversation
<1>9. LoopsReset' /\ PivotIsLeft' /\ Tally' /\ FoundSince'
  BY <1>2, <1>3 DEF IInv, LoopsReset, PivotIsLeft, Tally, FoundSince
<1>10. \A d \in Child : \A a \in {"SMALL", "LARGE"} : Sent(d, a)' <=> Sent(d, a)
  BY <1>2 DEF Sent
<1>11. QED
  BY <1>2, <1>3, <1>5, <1>8, <1>9, <1>10, ParentRest DEF child
LEMMA RequestStep ==
  ASSUME IInv, NEW c \in Child, Request(c)
  PROVE  IInv' /\ Stutters
<1>1. TypeOK /\ Conversation
  BY DEF IInv
<1>2. /\ pc = "pick" /\ pc' = "reply" /\ r' = c /\ i' = i /\ Send(c, "REQUEST", 0)
      /\ actual' = actual /\ num_arr' = num_arr /\ cpivot' = cpivot /\ cpc' = cpc /\ up' = up
      /\ sig' = sig /\ pivot' = pivot /\ k' = k /\ num' = num /\ med_found' = med_found
  BY DEF Request, child
<1>3. /\ down' \in [Child -> Seq(Messages)]
      /\ \A d \in Child \ {c} : down'[d] = down[d]
      /\ down[c] = <<>> => down'[c] = One(Msg("REQUEST", 0))
      /\ \A m : down[c] = One(m) => down'[c] = Two(m, Msg("REQUEST", 0))
      /\ \A d \in Child : \A a \in {"SMALL", "LARGE"} : Sent(d, a)' <=> Sent(d, a)
  BY <1>1, <1>2, SendFacts, MessageTypes
<1>4. TypeOK'
  BY <1>1, <1>2, <1>3 DEF TypeOK, ParentAt
<1>5. Requested(c)'
  <2>1. Quiet(c)
    BY <1>1, <1>2 DEF Conversation
  <2>2. QED
    BY <1>2, <1>3, <2>1 DEF Quiet, Requested, Awaits
<1>6. \A d \in Child \ {c} : Quiet(d)'
  BY <1>1, <1>2, <1>3 DEF Conversation, Quiet
<1>7. Conversation'
  BY <1>2, <1>5, <1>6 DEF Conversation
<1>8. LoopsReset' /\ PivotIsLeft' /\ Tally' /\ FoundSince'
  BY <1>2 DEF IInv, LoopsReset, PivotIsLeft, Tally, FoundSince
<1>9. QED
  BY <1>2, <1>3, <1>4, <1>7, <1>8, ParentRest DEF child

LEMMA ReadReplyStep ==
  ASSUME IInv, ReadReply
  PROVE  IInv' /\ Stutters
<1>1. TypeOK /\ Conversation /\ r \in Child
  BY DEF IInv, TypeOK
<1> PICK m \in Child : m = r
  BY <1>1
<1>2. /\ pc = "reply" /\ Recv(m) /\ r' = m /\ i' = i
      /\ actual' = actual /\ num_arr' = num_arr /\ cpivot' = cpivot /\ cpc' = cpc /\ down' = down
      /\ sig' = sig /\ k' = k /\ num' = num /\ med_found' = med_found
      /\ \/ Head(up[m]) # -1 /\ pivot' = Head(up[m]) /\ pc' = "pivot"
         \/ Head(up[m]) = -1 /\ pivot' = pivot /\ pc' = "pick"
  BY DEF ReadReply, child
<1>3. /\ up' \in [Child -> Seq(Int)] /\ up[m] # <<>>
      /\ \A d \in Child \ {m} : up'[d] = up[d]
      /\ \A v : up[m] = One(v) => Head(up[m]) = v /\ up'[m] = <<>>
  BY <1>1, <1>2, RecvFacts
<1>4. /\ cpc[m] = "serve" /\ down[m] = <<>> /\ up'[m] = <<>>
      /\ Head(up[m]) = -1 \/ Head(up[m]) \in num_arr[m]
  <2>1. Requested(m)
    BY <1>1, <1>2 DEF Conversation
  <2>2. QED
    BY <1>3, <2>1 DEF Requested, Awaits, Answered
<1>5. pivot' \in Values \cup {0} /\ pc' \in {"pick", "pivot"}
  BY <1>1, <1>2, <1>4 DEF TypeOK
<1>6. TypeOK'
  BY <1>1, <1>2, <1>3, <1>5 DEF TypeOK, ParentAt
<1>7. Conversation'
  <2>1. i = 1 /\ N \in Nat
    BY <1>2, MedianAssumption DEF IInv, LoopsReset
  <2>2. \A d \in Child : ~(d < i)
    BY <2>1 DEF Child
  <2>3. Quiet(m)'
    BY <1>2, <1>4 DEF Quiet
  <2>4. \A d \in Child \ {m} : Quiet(d)'
    BY <1>1, <1>2, <1>3 DEF Conversation, Quiet
  <2>5. QED
    BY <1>2, <1>5, <2>2, <2>3, <2>4 DEF Conversation
<1>8. PivotIsLeft'
  <2>1. ~Sent(m, "SMALL")' /\ ~Sent(m, "LARGE")'
    BY <1>2, <1>4, SentAfter
  <2>2. pc' = "pivot" => pivot' \in num_arr'[m]
    BY <1>2, <1>4
  <2>3. ~Sent(r, "SMALL")' /\ ~Sent(r, "LARGE")'
    BY <1>2, <2>1 DEF Sent
  <2>4. QED
    BY <1>2, <1>5, <2>2, <2>3 DEF PivotIsLeft
<1>9. LoopsReset' /\ Tally' /\ FoundSince' /\ ~med_found
  BY <1>2, <1>5 DEF IInv, LoopsReset, Tally, FoundSince
<1>10. \A d \in Child : \A a \in {"SMALL", "LARGE"} : Sent(d, a)' <=> Sent(d, a)
  BY <1>2 DEF Sent
<1>11. QED
  BY <1>2, <1>5, <1>6, <1>7, <1>8, <1>9, <1>10, ParentRest DEF child

\* Counting starts at nothing, and a child's answer adds what it has above the pivot.
LEMMA TallyFacts ==
  ASSUME IInv
  PROVE  /\ HowMany(num_arr, 0) = 0 /\ HowMany(actual, 0) = 0
         /\ \A n \in Child :
              /\ HowMany(num_arr, n)
                   = HowMany(num_arr, n - 1) + Cardinality(Above(num_arr[n], pivot))
              /\ HowMany(actual, n)
                   = HowMany(actual, n - 1) + Cardinality(Above(actual[n], pivot))
              /\ HowMany(num_arr, n) \in Nat /\ HowMany(actual, n) \in Nat
<1>1. actual \in DataFiles /\ \A c \in Child : num_arr[c] \subseteq actual[c]
  BY DEF IInv, TypeOK, FromFile
<1>2. \A n \in Child : n \in 0..N
  BY MedianAssumption DEF Child
<1>3. QED
  BY <1>1, <1>2, HowManyAdds

LEMMA SameCount ==
  ASSUME num_arr' = num_arr, actual' = actual, pivot' = pivot
  PROVE  /\ \A n : Cardinality(UNION {Above(num_arr'[c], pivot') : c \in 1..n}) = HowMany(num_arr, n)
         /\ \A n : Cardinality(UNION {Above(actual'[c], pivot') : c \in 1..n}) = HowMany(actual, n)
BY DEF HowMany

LEMMA SendPivotStep ==
  ASSUME IInv, SendPivot
  PROVE  IInv' /\ Stutters
<1>1. TypeOK /\ Conversation /\ i \in Child
  BY DEF IInv, TypeOK
<1> PICK m \in Child : m = i
  BY <1>1
<1>2. /\ Loop("pivot", "count") /\ Send(m, "PIVOT", pivot) /\ num' = 0
      /\ actual' = actual /\ num_arr' = num_arr /\ cpivot' = cpivot /\ cpc' = cpc /\ up' = up
      /\ sig' = sig /\ r' = r /\ pivot' = pivot /\ k' = k /\ med_found' = med_found
  BY DEF SendPivot, child
<1>3. /\ pc = "pivot" /\ i' \in Child
      /\ \/ /\ m < N /\ pc' = "pivot"
            /\ \A c \in Child : c < i' <=> (c < m \/ c = m)
         \/ /\ pc' = "count" /\ i' = 1
            /\ \A c \in Child : (c < m \/ c = m) /\ ~(c < i')
  BY <1>1, <1>2, LoopFacts
<1>4. /\ down' \in [Child -> Seq(Messages)]
      /\ \A d \in Child \ {m} : down'[d] = down[d]
      /\ down[m] = <<>> => down'[m] = One(Msg("PIVOT", pivot))
      /\ \A x : down[m] = One(x) => down'[m] = Two(x, Msg("PIVOT", pivot))
      /\ \A d \in Child : \A a \in {"SMALL", "LARGE"} : Sent(d, a)' <=> Sent(d, a)
  BY <1>1, <1>2, SendFacts, MessageTypes
<1>5. TypeOK'
  BY <1>1, <1>2, <1>3, <1>4 DEF TypeOK, ParentAt
<1>6. \A d \in Child \ {m} : Untouched(d)
  BY <1>2, <1>4 DEF Untouched
<1>7. PivotSent(m)'
  <2>1. Quiet(m)
    BY <1>1, <1>3 DEF Conversation, Child
  <2>2. QED
    BY <1>2, <1>4, <2>1 DEF Quiet, PivotSent, Awaits
<1>8. Conversation'
  <2>1. \A d \in Child : d < m => PivotSent(d)'
    BY <1>1, <1>2, <1>3, <1>6, UntouchedKept DEF Conversation, Child
  <2>2. \A d \in Child : ~(d < m \/ d = m) => Quiet(d)'
    BY <1>1, <1>2, <1>3, <1>6, UntouchedKept DEF Conversation
  <2>3. QED
    BY <1>3, <1>7, <2>1, <2>2 DEF Conversation
<1>9. PivotIsLeft'
  <2>1. /\ pivot \in num_arr[r] /\ r \in Child
        /\ ~Sent(r, "SMALL") /\ ~Sent(r, "LARGE")
    BY <1>3 DEF IInv, PivotIsLeft, TypeOK
  <2>2. PICK q \in Child : q = r
    BY <2>1
  <2>3. ~Sent(q, "SMALL")' /\ ~Sent(q, "LARGE")'
    BY <1>4, <2>1, <2>2
  <2>4. ~Sent(r, "SMALL")' /\ ~Sent(r, "LARGE")'
    BY <1>2, <2>2, <2>3 DEF Sent
  <2>5. QED
    BY <1>2, <2>1, <2>4 DEF PivotIsLeft
<1>10. LoopsReset' /\ FoundSince'
  BY <1>2, <1>3 DEF IInv, LoopsReset, FoundSince
<1>11. Tally'
  <2>1. CASE pc' = "pivot"
    BY <2>1 DEF Tally
  <2>2. CASE pc' = "count" /\ i' = 1
    <3>1. i' - 1 = 0
      BY <2>2
    <3>2. Cardinality(UNION {Above(num_arr'[c], pivot') : c \in 1..(i' - 1)}) = 0
      BY <1>2, <3>1, SameCount, TallyFacts
    <3>3. QED
      BY <1>2, <2>2, <3>2 DEF Tally, HowMany
  <2>3. QED
    BY <1>3, <2>1, <2>2
<1>12. QED
  BY <1>2, <1>3, <1>4, <1>5, <1>8, <1>9, <1>10, <1>11, ParentRest DEF child
LEMMA ReadCountStep ==
  ASSUME IInv, ReadCount
  PROVE  IInv' /\ Stutters
<1>1. TypeOK /\ Conversation /\ i \in Child
  BY DEF IInv, TypeOK
<1> PICK m \in Child : m = i
  BY <1>1
<1>2. /\ Loop("count", "decide") /\ Recv(m) /\ num' = num + Head(up[m])
      /\ actual' = actual /\ num_arr' = num_arr /\ cpivot' = cpivot /\ cpc' = cpc /\ down' = down
      /\ sig' = sig /\ r' = r /\ pivot' = pivot /\ k' = k /\ med_found' = med_found
  BY DEF ReadCount, child
<1>3. /\ pc = "count" /\ i' \in Child
      /\ \/ /\ m < N /\ pc' = "count" /\ i' = m + 1
            /\ \A c \in Child : c < i' <=> (c < m \/ c = m)
         \/ /\ m = N /\ pc' = "decide" /\ i' = 1
            /\ \A c \in Child : (c < m \/ c = m) /\ ~(c < i')
  BY <1>1, <1>2, LoopFacts
<1>4. /\ up' \in [Child -> Seq(Int)] /\ up[m] # <<>>
      /\ \A d \in Child \ {m} : up'[d] = up[d]
      /\ \A v : up[m] = One(v) => Head(up[m]) = v /\ up'[m] = <<>>
  BY <1>1, <1>2, RecvFacts
<1>5. /\ Head(up[m]) = Cardinality(Above(num_arr[m], pivot)) /\ cpivot[m] = pivot
      /\ cpc[m] = "serve" /\ down[m] = <<>> /\ up'[m] = <<>>
  <2>1. PivotSent(m)
    BY <1>1, <1>3 DEF Conversation, Child
  <2>2. QED
    BY <1>4, <2>1 DEF PivotSent, Awaits, Answered
<1>6. num' = HowMany(num_arr, m) /\ num' \in Nat
  <2>1. num = HowMany(num_arr, m - 1)
    BY <1>3 DEF IInv, Tally
  <2>2. QED
    BY <1>2, <1>5, <2>1, TallyFacts
<1>7. TypeOK'
  BY <1>1, <1>2, <1>3, <1>4, <1>6 DEF TypeOK, ParentAt
<1>8. Conversation'
  <2>1. Counted(m)'
    BY <1>2, <1>5 DEF Counted, Idle, Silent
  <2>2. \A d \in Child \ {m} : Untouched(d)
    BY <1>2, <1>4 DEF Untouched
  <2>3. \A d \in Child : d < m => Counted(d)'
    BY <1>1, <1>2, <1>3, <2>2, UntouchedKept DEF Conversation, Child
  <2>4. \A d \in Child : ~(d < m \/ d = m) => PivotSent(d)'
    BY <1>1, <1>2, <1>3, <2>2, UntouchedKept DEF Conversation
  <2>5. QED
    BY <1>3, <2>1, <2>3, <2>4 DEF Conversation
<1>9. Tally'
  <2>1. \A n : Cardinality(UNION {Above(num_arr'[c], pivot') : c \in 1..n}) = HowMany(num_arr, n)
    BY <1>2, SameCount
  <2>2. CASE pc' = "count" /\ i' = m + 1
    <3>1. i' - 1 = m
      BY <2>2 DEF Child
    <3>2. QED
      BY <1>6, <2>1, <2>2, <3>1 DEF Tally, HowMany
  <2>3. CASE pc' = "decide" /\ m = N
    BY <1>6, <2>1, <2>3 DEF Tally, HowMany
  <2>4. QED
    BY <1>3, <2>2, <2>3
<1>10. PivotIsLeft' /\ LoopsReset' /\ FoundSince'
  BY <1>2, <1>3 DEF IInv, LoopsReset, FoundSince, PivotIsLeft, Sent
<1>11. \A d \in Child : \A a \in {"SMALL", "LARGE"} : Sent(d, a)' <=> Sent(d, a)
  BY <1>2 DEF Sent
<1>12. QED
  BY <1>2, <1>3, <1>7, <1>8, <1>9, <1>10, <1>11, ParentRest DEF child

LEMMA SendCheckStep ==
  ASSUME IInv, SendCheck
  PROVE  IInv' /\ Stutters
<1>1. TypeOK /\ Conversation /\ i \in Child
  BY DEF IInv, TypeOK
<1> PICK m \in Child : m = i
  BY <1>1
<1>2. /\ Loop("check", "sum") /\ Send(m, "CHECK", pivot) /\ num' = num
      /\ actual' = actual /\ num_arr' = num_arr /\ cpivot' = cpivot /\ cpc' = cpc /\ up' = up
      /\ sig' = sig /\ r' = r /\ pivot' = pivot /\ k' = k /\ med_found' = med_found
  BY DEF SendCheck, child
<1>3. /\ pc = "check" /\ i' \in Child
      /\ \/ /\ m < N /\ pc' = "check"
            /\ \A c \in Child : c < i' <=> (c < m \/ c = m)
         \/ /\ pc' = "sum" /\ i' = 1
            /\ \A c \in Child : (c < m \/ c = m) /\ ~(c < i')
  BY <1>1, <1>2, LoopFacts
<1>4. /\ down' \in [Child -> Seq(Messages)]
      /\ \A d \in Child \ {m} : down'[d] = down[d]
      /\ down[m] = <<>> => down'[m] = One(Msg("CHECK", pivot))
      /\ \A d \in Child : \A a \in {"SMALL", "LARGE"} : Sent(d, a)' <=> Sent(d, a)
  BY <1>1, <1>2, SendFacts, MessageTypes
<1>5. TypeOK'
  BY <1>1, <1>2, <1>3, <1>4 DEF TypeOK, ParentAt
<1>6. \A d \in Child \ {m} : Untouched(d)
  BY <1>2, <1>4 DEF Untouched
<1>7. CheckSent(m)'
  <2>1. Idle(m)
    BY <1>1, <1>3 DEF Conversation, Child
  <2>2. QED
    BY <1>2, <1>4, <2>1 DEF Idle, Silent, CheckSent
<1>8. Conversation'
  <2>1. \A d \in Child : d < m => CheckSent(d)'
    BY <1>1, <1>2, <1>3, <1>6, UntouchedKept DEF Conversation, Child
  <2>2. \A d \in Child : ~(d < m \/ d = m) => Idle(d)'
    BY <1>1, <1>2, <1>3, <1>6, UntouchedKept DEF Conversation
  <2>3. QED
    BY <1>3, <1>7, <2>1, <2>2 DEF Conversation
<1>9. PivotIsLeft' /\ LoopsReset' /\ FoundSince'
  BY <1>2, <1>3 DEF IInv, LoopsReset, FoundSince, PivotIsLeft
<1>10. Tally'
  <2>1. num' = 0
    BY <1>2, <1>3 DEF IInv, Tally
  <2>2. CASE pc' = "check"
    BY <2>1, <2>2 DEF Tally
  <2>3. CASE pc' = "sum" /\ i' = 1
    <3>1. i' - 1 = 0
      BY <2>3
    <3>2. Cardinality(UNION {Above(actual'[c], pivot') : c \in 1..(i' - 1)}) = 0
      BY <1>2, <3>1, SameCount, TallyFacts
    <3>3. QED
      BY <2>1, <2>3, <3>2 DEF Tally, HowMany
  <2>4. QED
    BY <1>3, <2>2, <2>3
<1>11. QED
  BY <1>2, <1>3, <1>4, <1>5, <1>8, <1>9, <1>10, ParentRest DEF child

LEMMA ReadCheckStep ==
  ASSUME IInv, ReadCheck
  PROVE  IInv' /\ Stutters
<1>1. TypeOK /\ Conversation /\ i \in Child
  BY DEF IInv, TypeOK
<1> PICK m \in Child : m = i
  BY <1>1
<1>2. /\ Loop("sum", "kill") /\ Recv(m) /\ num' = num + Head(up[m])
      /\ actual' = actual /\ num_arr' = num_arr /\ cpivot' = cpivot /\ cpc' = cpc /\ down' = down
      /\ sig' = sig /\ r' = r /\ pivot' = pivot /\ k' = k /\ med_found' = med_found
  BY DEF ReadCheck, child
<1>3. /\ pc = "sum" /\ i' \in Child
      /\ \/ /\ m < N /\ pc' = "sum" /\ i' = m + 1
            /\ \A c \in Child : c < i' <=> (c < m \/ c = m)
         \/ /\ m = N /\ pc' = "kill" /\ i' = 1
            /\ \A c \in Child : (c < m \/ c = m) /\ ~(c < i')
  BY <1>1, <1>2, LoopFacts
<1>4. /\ up' \in [Child -> Seq(Int)] /\ up[m] # <<>>
      /\ \A d \in Child \ {m} : up'[d] = up[d]
      /\ \A v : up[m] = One(v) => Head(up[m]) = v /\ up'[m] = <<>>
  BY <1>1, <1>2, RecvFacts
<1>5. /\ Head(up[m]) = Cardinality(Above(actual[m], pivot))
      /\ cpc[m] = "serve" /\ down[m] = <<>> /\ up'[m] = <<>>
  <2>1. CheckSent(m)
    BY <1>1, <1>3 DEF Conversation, Child
  <2>2. QED
    BY <1>4, <2>1 DEF CheckSent, Answered
<1>6. num' = HowMany(actual, m) /\ num' \in Nat
  <2>1. num = HowMany(actual, m - 1)
    BY <1>3 DEF IInv, Tally
  <2>2. QED
    BY <1>2, <1>5, <2>1, TallyFacts
<1>7. TypeOK'
  BY <1>1, <1>2, <1>3, <1>4, <1>6 DEF TypeOK, ParentAt
<1>8. Conversation'
  <2>1. Idle(m)'
    BY <1>2, <1>5 DEF Idle, Silent
  <2>2. \A d \in Child \ {m} : Untouched(d)
    BY <1>2, <1>4 DEF Untouched
  <2>3. \A d \in Child : d < m => Idle(d)'
    BY <1>1, <1>2, <1>3, <2>2, UntouchedKept DEF Conversation, Child
  <2>4. \A d \in Child : ~(d < m \/ d = m) => CheckSent(d)'
    BY <1>1, <1>2, <1>3, <2>2, UntouchedKept DEF Conversation
  <2>5. \A d \in Child : Idle(d)' => Silent(d)' /\ cpc'[d] # "boot"
    BY DEF Idle
  <2>6. QED
    BY <1>3, <2>1, <2>3, <2>4, <2>5 DEF Conversation
<1>9. Tally'
  <2>1. \A n : Cardinality(UNION {Above(actual'[c], pivot') : c \in 1..n}) = HowMany(actual, n)
    BY <1>2, SameCount
  <2>2. CASE pc' = "sum" /\ i' = m + 1
    <3>1. i' - 1 = m
      BY <2>2 DEF Child
    <3>2. QED
      BY <1>6, <2>1, <2>2, <3>1 DEF Tally, HowMany
  <2>3. CASE pc' = "kill" /\ m = N
    BY <1>6, <2>1, <2>3 DEF Tally, HowMany
  <2>4. QED
    BY <1>3, <2>2, <2>3
<1>10. PivotIsLeft' /\ LoopsReset' /\ FoundSince'
  BY <1>2, <1>3 DEF IInv, LoopsReset, FoundSince, PivotIsLeft
<1>11. \A d \in Child : \A a \in {"SMALL", "LARGE"} : Sent(d, a)' <=> Sent(d, a)
  BY <1>2 DEF Sent
<1>12. QED
  BY <1>2, <1>3, <1>7, <1>8, <1>9, <1>10, <1>11, ParentRest DEF child

LEMMA EndStep ==
  ASSUME IInv, SendKill \/ Wait
  PROVE  IInv' /\ Stutters
<1>1. TypeOK /\ Conversation /\ i \in Child
  BY DEF IInv, TypeOK
<1>2. /\ pc \in {"kill", "wait"} /\ pc' \in {"kill", "wait", "done"} /\ i' \in Child
      /\ sig' \in SUBSET Child
      /\ actual' = actual /\ num_arr' = num_arr /\ cpivot' = cpivot /\ cpc' = cpc
      /\ down' = down /\ up' = up /\ num' = num
      /\ r' = r /\ pivot' = pivot /\ k' = k /\ med_found' = med_found
  <2>1. CASE SendKill
    BY <1>1, <2>1 DEF SendKill, child, TypeOK
  <2>2. CASE Wait
    <3>1. i < N => i + 1 \in Child
      BY <1>1, MedianAssumption DEF Child
    <3>2. QED
      BY <1>1, <2>2, <3>1 DEF Wait, child, TypeOK
  <2>3. QED
    BY <2>1, <2>2
<1>3. TypeOK'
  BY <1>1, <1>2 DEF TypeOK, ParentAt
<1>4. Conversation'
  BY <1>1, <1>2 DEF Conversation, Silent
<1>5. Tally'
  <2>1. num = HowMany(actual, N)
    BY <1>2 DEF IInv, Tally
  <2>2. Cardinality(UNION {Above(actual'[c], pivot') : c \in 1..N}) = HowMany(actual, N)
    BY <1>2, SameCount
  <2>3. QED
    BY <1>2, <2>1, <2>2 DEF Tally, HowMany
<1>6. PivotIsLeft' /\ LoopsReset' /\ FoundSince'
  BY <1>2 DEF IInv, LoopsReset, FoundSince, PivotIsLeft
<1>7. \A d \in Child : \A a \in {"SMALL", "LARGE"} : Sent(d, a)' <=> Sent(d, a)
  BY <1>2 DEF Sent
<1>8. QED
  BY <1>2, <1>3, <1>4, <1>5, <1>6, <1>7, ParentRest DEF child
\* Telling a child the decision moves what is dropped from the parent's intent to the pipe.
LEMMA TellStep ==
  ASSUME IInv, NEW code, NEW line,
         (code = "SMALL" /\ line = "small") \/ (code = "LARGE" /\ line = "large"),
         Loop(line, "pick"), Send(i, code, 0),
         UNCHANGED <<actual, child, up, sig, r, pivot, num, med_found>>,
         k' = IF line = "large" /\ i = N THEN k - num ELSE k
  PROVE  IInv' /\ Stutters
<1>1. TypeOK /\ Conversation /\ i \in Child
  BY DEF IInv, TypeOK
<1> PICK m \in Child : m = i
  BY <1>1
<1>2. /\ Send(m, code, 0)
      /\ actual' = actual /\ num_arr' = num_arr /\ cpivot' = cpivot /\ cpc' = cpc /\ up' = up
      /\ sig' = sig /\ r' = r /\ pivot' = pivot /\ num' = num /\ med_found' = med_found
  BY DEF child
<1>3. /\ pc = line /\ i' \in Child
      /\ \/ /\ m < N /\ pc' = line
            /\ \A c \in Child : c < i' <=> (c < m \/ c = m)
         \/ /\ m = N /\ pc' = "pick" /\ i' = 1
            /\ \A c \in Child : (c < m \/ c = m) /\ ~(c < i')
  BY <1>1, LoopFacts
<1>4. Msg(code, 0) \in {Small, Large} /\ Msg(code, 0) \in Messages /\ code \in {"SMALL", "LARGE"}
  BY <1>1, MessageTypes DEF Small, Large
<1>5. /\ down' \in [Child -> Seq(Messages)]
      /\ \A d \in Child \ {m} : down'[d] = down[d]
      /\ down[m] = <<>> => down'[m] = One(Msg(code, 0))
      /\ \A a : (Sent(m, a)' <=> Sent(m, a) \/ a = code)
  BY <1>1, <1>2, <1>4, SendFacts
<1>6. Rank' = Rank /\ k' \in Nat
  <2>1. Rank \in Nat /\ k \in Nat
    BY <1>1 DEF IInv, RanksKept, Ranked, TypeOK
  <2>2. CASE m < N /\ pc' = line
    <3>1. ~(i = N)
      BY <2>2, MedianAssumption DEF Child
    <3>2. k' = k
      BY <3>1
    <3>3. QED
      BY <1>2, <1>3, <2>1, <2>2, <3>2 DEF Rank
  <2>3. CASE m = N /\ pc' = "pick"
    BY <1>2, <1>3, <2>1, <2>3 DEF Rank
  <2>4. QED
    BY <1>3, <2>2, <2>3
<1>7. TypeOK'
  BY <1>1, <1>2, <1>3, <1>5, <1>6 DEF TypeOK, ParentAt
<1>8. \A d \in Child \ {m} : Untouched(d)
  BY <1>2, <1>5 DEF Untouched
<1>9. Counted(m)
  BY <1>1, <1>3 DEF Conversation, Child
<1>10. Conversation'
  <2>1. Quiet(m)'
    BY <1>2, <1>4, <1>5, <1>9 DEF Counted, Idle, Silent, Quiet
  <2>2. \A d \in Child : d < m => Quiet(d)'
    BY <1>1, <1>3, <1>2, <1>8, UntouchedKept DEF Conversation, Child
  <2>3. \A d \in Child : ~(d < m \/ d = m) => Counted(d)'
    BY <1>1, <1>2, <1>3, <1>8, UntouchedKept DEF Conversation
  <2>4. QED
    BY <1>3, <2>1, <2>2, <2>3 DEF Conversation
<1>11. LoopsReset' /\ FromFile' /\ PivotIsLeft' /\ Tally' /\ FoundSince'
  BY <1>2, <1>3 DEF IInv, LoopsReset, FromFile, PivotIsLeft, Tally, FoundSince
<1>12. ASSUME NEW d \in Child
       PROVE  Left(d)' = Left(d)
  <2>0. \A c \in Child : c \in Int /\ m \in Int /\ i' \in Int /\ c <= N
    BY <1>3, MedianAssumption DEF Child
  <2>1. CASE d = m
    <3>1. ~Sent(m, "SMALL") /\ ~Sent(m, "LARGE") /\ cpivot[m] = pivot /\ cpc[m] = "serve"
      BY <1>9, SentIn DEF Counted, Idle, Silent
    <3>2. ~(pc' = line /\ m >= i')
      BY <1>3, <2>0
    <3>3. m >= i
      BY <2>0
    <3>4. CASE code = "SMALL" /\ line = "small"
      <4>1. Sent(m, "SMALL")' /\ ~Sent(m, "LARGE")' /\ pc' # "large"
        BY <1>3, <1>5, <3>1, <3>4
      <4>2. Left(m)' = {x \in num_arr[m] : x >= pivot}
        BY <1>2, <3>1, <3>2, <3>4, <4>1 DEF Left
      <4>3. Left(m) = {x \in num_arr[m] : x >= pivot}
        BY <1>3, <3>1, <3>3, <3>4 DEF Left
      <4>4. QED
        BY <2>1, <4>2, <4>3
    <3>5. CASE code = "LARGE" /\ line = "large"
      <4>1. Sent(m, "LARGE")' /\ ~Sent(m, "SMALL")' /\ pc' # "small"
        BY <1>3, <1>5, <3>1, <3>5
      <4>2. Left(m)' = {x \in num_arr[m] : x <= pivot}
        BY <1>2, <3>1, <3>2, <3>5, <4>1 DEF Left
      <4>3. Left(m) = {x \in num_arr[m] : x <= pivot}
        BY <1>3, <3>1, <3>3, <3>5 DEF Left
      <4>4. QED
        BY <2>1, <4>2, <4>3
    <3>6. QED
      BY <3>4, <3>5
  <2>2. CASE d # m
    <3>1. \A a : Sent(d, a)' <=> Sent(d, a)
      BY <1>5, <2>2 DEF Sent
    <3>2. (pc' = line /\ d >= i') <=> d >= i
      BY <1>3, <2>0, <2>2
    <3>3. pc' \in {line, "pick"} /\ pc = line
      BY <1>3
    <3>4. QED
      BY <1>2, <3>1, <3>2, <3>3 DEF Left
  <2>3. QED
    BY <2>1, <2>2
<1>13. RanksKept' /\ FoundIsMedian' /\ Stutters
  BY <1>2, <1>6, <1>12, StutterKeeps
<1>14. QED
  BY <1>7, <1>10, <1>11, <1>13 DEF IInv

LEMMA SendSmallStep ==
  ASSUME IInv, SendSmall
  PROVE  IInv' /\ Stutters
BY TellStep DEF SendSmall

LEMMA SendLargeStep ==
  ASSUME IInv, SendLarge
  PROVE  IInv' /\ Stutters
BY TellStep DEF SendLarge

\* The decision is a round of Selection with the parent's pivot.
Decides ==
  /\ Data' = Data /\ pivot \in Cand /\ pivot' = pivot /\ ~med_found
  /\ \/ /\ Cardinality(Above(Cand, pivot)) > Rank
        /\ Cand' = {x \in Cand : x >= pivot} /\ Rank' = Rank /\ ~med_found'
     \/ /\ Cardinality(Above(Cand, pivot)) < Rank
        /\ Cand' = {x \in Cand : x <= pivot}
        /\ Rank' = Rank - Cardinality(Above(Cand, pivot)) /\ ~med_found'
     \/ /\ Cardinality(Above(Cand, pivot)) = Rank
        /\ Cand' = Cand /\ Rank' = Rank /\ med_found'

LEMMA DecideStep ==
  ASSUME IInv, Decide
  PROVE  IInv' /\ Decides
<1>1. TypeOK /\ Conversation /\ FromFile /\ pc = "decide" /\ i = 1 /\ ~med_found
  BY DEF IInv, Decide, LoopsReset, FoundSince
<1>2. /\ actual' = actual /\ num_arr' = num_arr /\ cpivot' = cpivot /\ cpc' = cpc
      /\ down' = down /\ up' = up /\ sig' = sig /\ i' = i /\ r' = r /\ pivot' = pivot /\ k' = k
      /\ \/ num > k /\ pc' = "small" /\ num' = num /\ med_found' = med_found
         \/ num < k /\ pc' = "large" /\ num' = num /\ med_found' = med_found
         \/ num = k /\ pc' = "check" /\ med_found' = TRUE /\ num' = 0
  BY DEF Decide, child
<1>3. \A d \in Child : Counted(d) /\ d >= i /\ ~(d < i)
  BY <1>1, MedianAssumption DEF Conversation, Child
<1>4. ASSUME NEW d \in Child
      PROVE  /\ Left(d) = num_arr[d]
             /\ Left(d)' = {x \in num_arr[d] : (pc' = "small" => x >= pivot)
                                               /\ (pc' = "large" => x <= pivot)}
  <2>1. /\ cpc[d] = "serve" /\ ~Sent(d, "SMALL") /\ ~Sent(d, "LARGE")
        /\ ~Sent(d, "SMALL")' /\ ~Sent(d, "LARGE")'
    BY <1>2, <1>3, SentIn, SentAfter DEF Counted, Idle, Silent
  <2>2. Left(d) = num_arr[d]
    BY <1>1, <2>1 DEF Left
  <2>3. QED
    BY <1>2, <1>3, <2>1, <2>2 DEF Left
<1>5. Cand = UNION {num_arr[d] : d \in Child}
  BY <1>4 DEF Cand
<1>6. Cand' = {x \in Cand : (pc' = "small" => x >= pivot) /\ (pc' = "large" => x <= pivot)}
  <2>1. Cand' = UNION {{x \in num_arr[d] : (pc' = "small" => x >= pivot)
                                           /\ (pc' = "large" => x <= pivot)} : d \in Child}
    BY <1>4 DEF Cand
  <2>2. QED
    BY <1>5, <2>1
<1>7. pivot \in Cand
  BY <1>1, <1>5 DEF IInv, PivotIsLeft, TypeOK
<1>8. num = Cardinality(Above(Cand, pivot)) /\ num \in Nat
  <2>1. actual \in DataFiles /\ \A c \in Child : num_arr[c] \subseteq actual[c]
    BY <1>1 DEF TypeOK, FromFile
  <2>2. HowMany(num_arr, N) = Cardinality(Above(UNION {num_arr[c] : c \in Child}, pivot))
    BY <2>1, HowManyAdds
  <2>3. num = HowMany(num_arr, N)
    BY <1>1 DEF IInv, Tally
  <2>4. QED
    BY <1>1, <1>5, <2>2, <2>3 DEF TypeOK
<1>9. Data' = Data /\ Half' = Half /\ Rank = k /\ Ranked(Data, Cand, Half, k)
  BY <1>1, <1>2 DEF Data, Half, Rank, IInv, RanksKept
<1>10. IsFiniteSet(Data) /\ Data \subseteq Int /\ Half \in Nat
  BY <1>1, FilesFinite DEF TypeOK
<1>11. Decides /\ RanksKept' /\ FoundIsMedian'
  <2>1. CASE num > k /\ pc' = "small" /\ num' = num /\ med_found' = med_found
    <3>1. Cand' = {x \in Cand : x >= pivot} /\ Rank' = k
      BY <1>2, <1>6, <2>1 DEF Rank
    <3>2. Ranked(Data, {x \in Cand : x >= pivot}, Half, k)
      BY <1>7, <1>8, <1>9, <1>10, <2>1, KeepUpper
    <3>3. RanksKept'
      BY <1>9, <3>1, <3>2 DEF RanksKept
    <3>4. QED
      BY <1>1, <1>2, <1>7, <1>8, <1>9, <2>1, <3>1, <3>3 DEF Decides, FoundIsMedian
  <2>2. CASE num < k /\ pc' = "large" /\ num' = num /\ med_found' = med_found
    <3>1. Cand' = {x \in Cand : x <= pivot} /\ Rank' = k - num
      BY <1>2, <1>6, <2>2 DEF Rank
    <3>2. Ranked(Data, {x \in Cand : x <= pivot}, Half, k - num)
      BY <1>7, <1>8, <1>9, <1>10, <2>2, KeepLower
    <3>3. RanksKept'
      BY <1>9, <3>1, <3>2 DEF RanksKept
    <3>4. QED
      BY <1>1, <1>2, <1>7, <1>8, <1>9, <2>2, <3>1, <3>3 DEF Decides, FoundIsMedian
  <2>3. CASE num = k /\ pc' = "check" /\ med_found' = TRUE /\ num' = 0
    <3>1. Cand' = Cand /\ Rank' = k
      BY <1>2, <1>6, <2>3 DEF Rank
    <3>2. pivot \in Data /\ Cardinality(Above(Data, pivot)) = Half
      <4>1. Cardinality(Above(Cand, pivot)) = k
        BY <1>8, <2>3
      <4>2. QED
        BY <1>7, <1>9, <1>10, <4>1, RankFound
    <3>3. RanksKept'
      BY <1>9, <3>1 DEF RanksKept
    <3>4. FoundIsMedian'
      BY <1>2, <1>9, <3>2 DEF FoundIsMedian, Above
    <3>5. QED
      BY <1>1, <1>2, <1>7, <1>8, <1>9, <2>3, <3>1, <3>3, <3>4 DEF Decides
  <2>4. QED
    BY <1>2, <2>1, <2>2, <2>3
<1>12. TypeOK'
  <2>1. pc' \in ParentAt
    BY <1>2 DEF ParentAt
  <2>2. num' \in Nat
    BY <1>2, <1>8
  <2>3. med_found' \in BOOLEAN
    <3>1. med_found \in BOOLEAN
      BY <1>1 DEF TypeOK
    <3>2. med_found' = med_found \/ med_found' = TRUE
      BY <1>2
    <3>3. QED
      BY <3>1, <3>2, Zenon
  <2>4. QED
    BY <1>1, <1>2, <2>1, <2>2, <2>3 DEF TypeOK
<1>13. Conversation'
  <2>1. \A d \in Child : Counted(d)' /\ Idle(d)'
    BY <1>2, <1>3 DEF Counted, Idle, Silent
  <2>2. \A d \in Child : ~(d < i')
    BY <1>2, <1>3
  <2>3. QED
    BY <1>2, <2>1, <2>2 DEF Conversation
<1>14. LoopsReset' /\ FromFile' /\ PivotIsLeft' /\ Tally' /\ FoundSince'
  BY <1>1, <1>2 DEF IInv, LoopsReset, FromFile, PivotIsLeft, Tally, FoundSince
<1>15. QED
  BY <1>11, <1>12, <1>13, <1>14 DEF IInv
-----------------------------------------------------------------------------
(* Theorems.                                                               *)

LEMMA InitIInv == Init => IInv
<1> SUFFICES ASSUME Init PROVE IInv
  OBVIOUS
<1> USE DEF Init
<1>1. 1 \in Child /\ \A c \in Child : ~(c < 1)
  BY MedianAssumption DEF Child
<1>2. actual \in DataFiles /\ Half \in Nat
  BY FilesFinite
<1>3. TypeOK
  <2>1. <<>> \in Seq(Messages) /\ <<>> \in Seq(Int)
    BY EmptySeq
  <2>2. QED
    BY <1>1, <1>2, <2>1 DEF TypeOK, ParentAt, Unread
<1>4. Conversation
  BY <1>1 DEF Conversation, Off, Silent
<1>5. LoopsReset /\ FromFile /\ PivotIsLeft /\ Tally /\ FoundSince /\ FoundIsMedian
  BY DEF LoopsReset, FromFile, PivotIsLeft, Tally, FoundSince, FoundIsMedian
<1>6. RanksKept
  <2>1. \A c \in Child : Left(c) = actual[c]
    BY SentIn DEF Left
  <2>2. Cand = Data
    BY <2>1 DEF Cand, Data
  <2>3. \A p : Cardinality(Above(Data, p)) \in Nat
    BY <1>2, FilesFinite, AboveFinite
  <2>4. QED
    BY <1>2, <2>2, <2>3 DEF RanksKept, Ranked, Rank
<1>7. QED
  BY <1>3, <1>4, <1>5, <1>6 DEF IInv

\* Every step of a process is a decision, which is a round of Selection, or is none.
LEMMA NextStep ==
  ASSUME IInv, Next
  PROVE  IInv' /\ (Stutters \/ Decides)
<1>1. CASE ParentStep
  BY <1>1, SendIdStep, ReadReadyStep, RequestStep, ReadReplyStep, SendPivotStep, ReadCountStep,
     DecideStep, SendSmallStep, SendLargeStep, SendCheckStep, ReadCheckStep, EndStep
     DEF ParentStep
<1>2. CASE \E c \in Child : ChildStep(c)
  BY <1>2, BootStep, AnswerRequestStep, OnSmallStep, OnLargeStep, OnPivotStep, OnCheckStep,
     TerminateStep DEF ChildStep
<1>3. QED
  BY <1>1, <1>2 DEF Next

LEMMA UnchangedStep ==
  ASSUME IInv, UNCHANGED vars
  PROVE  IInv' /\ Stutters
<1>1. /\ actual' = actual /\ num_arr' = num_arr /\ cpivot' = cpivot /\ cpc' = cpc
      /\ down' = down /\ up' = up /\ sig' = sig /\ pc' = pc /\ i' = i /\ r' = r
      /\ pivot' = pivot /\ k' = k /\ num' = num /\ med_found' = med_found
  BY DEF vars, child, parent
<1>2. TypeOK' /\ LoopsReset' /\ FromFile' /\ FoundSince' /\ Rank' = Rank
  BY <1>1 DEF IInv, TypeOK, LoopsReset, FromFile, FoundSince, Rank
<1>3. Conversation'
  <2>1. \A d \in Child : Untouched(d)
    BY <1>1 DEF Untouched
  <2>2. QED
    BY <1>1, <2>1, UntouchedKept DEF IInv, Conversation
<1>4. PivotIsLeft'
  BY <1>1 DEF IInv, PivotIsLeft, Sent
<1>5. Tally'
  BY <1>1, SameCount DEF IInv, Tally, HowMany
<1>6. \A d \in Child : Left(d)' = Left(d)
  BY <1>1 DEF Left, Sent
<1>7. RanksKept' /\ FoundIsMedian' /\ Stutters
  BY <1>1, <1>2, <1>6, StutterKeeps
<1>8. QED
  BY <1>2, <1>3, <1>4, <1>5, <1>7 DEF IInv

LEMMA SpecIInv == Spec => []IInv
<1>1. IInv /\ [Next]_vars => IInv'
  BY NextStep, UnchangedStep
<1>2. QED
  BY InitIInv, <1>1, PTL DEF Spec

\* Variables and messages are of their types: what a child answers is a count or one of its
\* numbers, and k is never negative.
THEOREM TypeCorrect == Spec => []TypeOK
<1>1. IInv => TypeOK
  BY DEF IInv
<1>2. QED
  BY SpecIInv, <1>1, PTL

\* Whatever the number of children, no write can block: a pipe to a child holds at most what
\* the last round decided and one more message, a pipe from a child one answer.
THEOREM ShortPipes == Spec => []PipesStayShort
<1>1. IInv => PipesStayShort
  <2> SUFFICES ASSUME IInv, NEW c \in Child
               PROVE  Len(down[c]) <= 2 /\ Len(up[c]) <= 1
    BY DEF PipesStayShort
  <2>1. /\ down[c] = <<>> \/ (\E m : down[c] = One(m)) \/ (\E d, m : down[c] = Two(d, m))
        /\ up[c] = <<>> \/ (\E v : up[c] = One(v))
    BY SomeWhere
       DEF IInv, Off, Booting, Idle, Quiet, Requested, PivotSent, Counted, CheckSent, Silent,
           Awaits, Answered
  <2>2. Len(<<>>) = 0
    BY EmptySeq
  <2>3. QED
    BY <2>1, <2>2, OneIs, TwoIs
<1>2. QED
  BY SpecIInv, <1>1, PTL

\* When the children are ended, the number printed has half of all numbers above it, and the
\* children's counts over their whole files have said so.
THEOREM CheckCorrect == Spec => []CheckConfirmsMedian
<1>1. IInv => CheckConfirmsMedian
  <2> SUFFICES ASSUME IInv, pc \in {"kill", "wait", "done"}
               PROVE  Cardinality(Above(Data, pivot)) = Half /\ num = Half
    BY DEF CheckConfirmsMedian
  <2>1. Cardinality(Above(Data, pivot)) = Half
    BY DEF IInv, FoundSince, FoundIsMedian
  <2>2. num = HowMany(actual, N)
    BY DEF IInv, Tally
  <2>3. actual \in DataFiles /\ \A c \in Child : actual[c] \subseteq actual[c]
    BY DEF IInv, TypeOK
  <2>4. HowMany(actual, N) = Cardinality(Above(Data, pivot))
    BY <2>3, HowManyAdds DEF Data
  <2>5. QED
    BY <2>1, <2>2, <2>4
<1>2. QED
  BY SpecIInv, <1>1, PTL

\* Selection's operators on sets are those used here.
LEMMA SelectedOperators ==
  /\ \A S, p : Selected!Larger(S, p) = Above(S, p)
  /\ \A S : Selected!Cardinality(S) = Cardinality(S)
<1>1. \A S, p : Selected!Larger(S, p) = Above(S, p)
  BY DEF Selected!Larger, Above
<1>2. \A S : Selected!Cardinality(S) = Cardinality(S)
  BY DEF Selected!Cardinality, Cardinality
<1>3. QED
  BY <1>1, <1>2

\* Whatever has been dropped so far, and whatever SMALLs and LARGEs are still under way, one
\* of the children has the median of all the files (parent.c:155-171, child.c:97-137).
THEOREM MedianStays == Spec => []MedianNotDropped
<1>1. IInv => MedianNotDropped
  <2> SUFFICES ASSUME IInv PROVE MedianNotDropped
    OBVIOUS
  <2>1. actual \in DataFiles /\ Ranked(Data, Cand, Half, Rank)
    BY DEF IInv, TypeOK, RanksKept
  <2>2. IsFiniteSet(Data) /\ Data \subseteq Int /\ Cardinality(Data) = N * PerFile
    BY <2>1, FilesFinite, DataCounted
  <2>3. Data # {}
    <3>1. N * PerFile # 0
      BY MedianAssumption
    <3>2. QED
      BY <2>2, <3>1, FS_EmptySet
  <2>4. \E p \in Cand : Cardinality(Above(Data, p)) = Half
    BY <2>1, <2>2, <2>3, MedianRanked DEF Half
  <2>5. Selected!Middle = Half
    BY <2>2, SelectedOperators DEF Selected!Middle, Half
  <2>6. QED
    BY <2>4, <2>5, SelectedOperators DEF MedianNotDropped, Selected!MedianKept, Cand
<1>2. QED
  BY SpecIInv, <1>1, PTL

\* Parent and children together search as Selection does: each decision of the parent is one
\* round, and every other step of anybody changes nothing in it.
THEOREM SearchIsImplemented == Spec => ImplementsSelection
<1> DEFINE printed == IF med_found THEN {pivot} ELSE {}
<1>1. Init => Selected!SearchInit
  <2> SUFFICES ASSUME Init PROVE Selected!SearchInit
    OBVIOUS
  <2>1. IInv /\ actual \in DataFiles
    BY InitIInv DEF Init
  <2>2. Data \in SUBSET Values /\ Cardinality(Data) = N * PerFile
    BY <2>1, FilesFinite, DataCounted
  <2>3. Data # {}
    <3>1. N * PerFile # 0
      BY MedianAssumption
    <3>2. QED
      BY <2>2, <3>1, FS_EmptySet
  <2>4. \A c \in Child : Left(c) = actual[c]
    BY SentIn DEF Left, Init
  <2>5. UNION {Left(c) : c \in Child} = Data
    BY <2>4 DEF Data
  <2>6. Selected!Middle = Half
    BY <2>2, SelectedOperators DEF Selected!Middle, Half
  <2>7. Data \subseteq Int /\ Selected!IsFiniteSet(Data)
    BY <2>1, FilesFinite DEF Selected!IsFiniteSet, IsFiniteSet
  <2>8. QED
    BY <2>3, <2>5, <2>6, <2>7 DEF Selected!SearchInit, Init
<1>2. ASSUME Stutters PROVE UNCHANGED Selected!search
  <2>1. printed' = printed
    BY <1>2 DEF Stutters
  <2>2. QED
    BY <1>2, <2>1 DEF Stutters, Selected!search, Cand, Rank
<1>3. ASSUME Decides PROVE Selected!Round
  <2>1. printed = {} /\ pivot \in Cand /\ Data' = Data
        /\ printed' = IF med_found' THEN {pivot} ELSE {}
    BY <1>3 DEF Decides
  <2>2. CASE /\ Cardinality(Above(Cand, pivot)) > Rank
             /\ Cand' = {x \in Cand : x >= pivot} /\ Rank' = Rank /\ ~med_found'
    <3>1. Selected!DropBelow(pivot)
      BY <2>1, <2>2, SelectedOperators DEF Selected!DropBelow, Cand, Rank
    <3>2. QED
      BY <2>1, <3>1 DEF Selected!Round, Cand
  <2>3. CASE /\ Cardinality(Above(Cand, pivot)) < Rank
             /\ Cand' = {x \in Cand : x <= pivot}
             /\ Rank' = Rank - Cardinality(Above(Cand, pivot)) /\ ~med_found'
    <3>1. Selected!DropAbove(pivot)
      BY <2>1, <2>3, SelectedOperators DEF Selected!DropAbove, Cand, Rank
    <3>2. QED
      BY <2>1, <3>1 DEF Selected!Round, Cand
  <2>4. CASE /\ Cardinality(Above(Cand, pivot)) = Rank
             /\ Cand' = Cand /\ Rank' = Rank /\ med_found'
    <3>1. Selected!Found(pivot)
      BY <2>1, <2>4, SelectedOperators DEF Selected!Found, Cand, Rank
    <3>2. QED
      BY <2>1, <3>1 DEF Selected!Round, Cand
  <2>5. QED
    BY <1>3, <2>2, <2>3, <2>4 DEF Decides
<1>4. IInv /\ [Next]_vars => [Selected!Round]_(Selected!search)
  BY <1>2, <1>3, NextStep, UnchangedStep
<1>5. QED
  BY SpecIInv, <1>1, <1>4, PTL DEF Spec, ImplementsSelection, Selected!SearchSpec
=============================================================================
