--------------------------- MODULE MsgChat_proofs ---------------------------
(***************************************************************************)
(* Proofs about the message-queue chat, for every finite set of clients    *)
(* and every set of names.  Two facts carry them.  What a client has been  *)
(* told, the lists that wait for it and the server's map are a chain of    *)
(* prefixes; and an entry of the map is sent a list before the server      *)
(* handles another message, so that the pid of an entry that is still      *)
(* joining has its list in the queue already.  How many messages are under *)
(* way is counted after these, whomever they are from and for.             *)
(***************************************************************************)
EXTENDS MsgChat, SequenceTheorems, WellFoundedInduction, FiniteSetTheorems, TLAPS

\* q holds lists between lo and hi, each a prefix of the ones behind it.
Chain(lo, q, hi) ==
  /\ IsPrefix(lo, hi)
  /\ \A k \in DOMAIN q : q[k][1] = "LIST" => IsPrefix(lo, q[k][2]) /\ IsPrefix(q[k][2], hi)
  /\ \A j, k \in DOMAIN q :
       j <= k /\ q[j][1] = "LIST" /\ q[k][1] = "LIST" => IsPrefix(q[j][2], q[k][2])

DownOK == down \in [Clients -> Seq(DownMessage)]

\* The server has something in hand when it looks at msg, lspid or map[i].
InHand ==
  /\ up # <<>> \/ spc = "stat" => lspid \in Clients /\ cpc[lspid] # "off"
  /\ spc = "stat" => msg \in UpMessage
  /\ spc = "list" => i > 0

\* Nobody is in the map, or gets anything, who has not joined.
OnlyJoined ==
  /\ \A k \in DOMAIN map : cpc[map[k].msgpid] # "off"
  /\ \A c \in Clients : cpc[c] = "off" => down[c] = <<>>

\* The pid of an entry has been sent a list, but for those the server's loop
\* has still to reach.
Greeted ==
  \A c \in Clients : cpc[c] = "joining" =>
    \A k \in DOMAIN map : map[k].msgpid = c /\ (spc = "list" => k < i) => down[c] # <<>>

ListsInOrder == \A c \in Clients : Chain(chat[c], down[c], NamesOf(map))

\* A message is for a name that is in the map, wherever the message is.
Deliverable ==
  /\ \A k \in DOMAIN up : up[k][1] = "MSG" => Holders(up[k][2]) # {}
  /\ spc = "stat" /\ msg[1] = "MSG" => Holders(msg[2]) # {}

\* Somebody can go on: a user, a client with an answer, or the server.
Alive ==
  Joined # {} => \/ \E c \in Clients : cpc[c] = "talk" \/ down[c] # <<>>
                 \/ up # <<>> \/ spc = "stat" \/ (spc = "list" /\ i <= Len(map))

IInv == /\ TypeOK /\ DownOK /\ InHand /\ OnlyJoined /\ Greeted /\ FirstIsList
        /\ ListsInOrder /\ Deliverable /\ Alive

-----------------------------------------------------------------------------
(* Sequences, prefixes and chains.                                         *)

\* A set of numbers with a bound has its greatest one among its elements.
LEMMA MaxOf ==
  ASSUME NEW S, NEW n \in Nat, S \subseteq 1..n, S # {}
  PROVE  Max(S) \in S
<1> DEFINE Below == {n - k : k \in S}
<1>1. Below \subseteq Nat /\ Below # {}
  <2>1. \A k \in S : n - k \in Nat
    OBVIOUS
  <2>2. QED
    BY <2>1
<1>2. PICK b \in Below : \A c \in Below : ~(<<c, b>> \in OpToRel(<, Nat))
  <2> HIDE DEF Below
  <2>1. QED
    BY <1>1, WFMin, NatLessThanWellFounded
<1>3. \A c \in Below : c >= b
  <2> HIDE DEF Below
  <2>1. SUFFICES ASSUME NEW c \in Below, c < b PROVE FALSE
    BY <1>1
  <2>2. <<c, b>> \in {ss \in Nat \X Nat : ss[1] < ss[2]}
    BY <1>1, <2>1
  <2>3. QED
    BY <1>2, <2>2 DEF OpToRel
<1>4. PICK m \in S : b = n - m
  BY <1>2
<1>5. \A k \in S : m >= k
  BY <1>3, <1>4
<1>6. QED
  BY <1>5 DEF Max

\* A prefix agrees with the whole wherever it is defined.
LEMMA PrefixPointwise ==
  ASSUME NEW S, NEW s \in Seq(S), NEW t \in Seq(S)
  PROVE  IsPrefix(s, t) <=> Len(s) <= Len(t) /\ \A k \in 1..Len(s) : s[k] = t[k]
<1>1. /\ Len(s) \in Nat /\ Len(t) \in Nat
      /\ \A k \in 1..Len(s) : s[k] \in S
      /\ \A k \in 1..Len(t) : t[k] \in S
  BY LenProperties, ElementOfSeq
<1>2. CASE Len(s) <= Len(t)
  <2> DEFINE n == Len(s)
             u == SubSeq(s, 1, n)
             v == SubSeq(t, 1, n)
  <2>1. /\ u \in Seq(S) /\ Len(u) = n /\ \A k \in 1..n : u[k] = s[k]
    BY <1>1, SubSeqProperties, Z3
  <2>2. /\ v \in Seq(S) /\ Len(v) = n /\ \A k \in 1..n : v[k] = t[k]
    BY <1>1, <1>2, SubSeqProperties, Z3
  <2> HIDE DEF u, v, n
  <2>3. (\A k \in 1..n : u[k] = v[k]) => u = v
    BY <2>1, <2>2, SeqEqual
  <2>4. QED
    BY <1>2, <2>1, <2>2, <2>3 DEF IsPrefix, n, u, v
<1>3. CASE ~(Len(s) <= Len(t))
  BY <1>3 DEF IsPrefix
<1>4. QED
  BY <1>2, <1>3

\* IsPrefix is an order on sequences.
LEMMA PrefixOrder ==
  ASSUME NEW S, NEW s \in Seq(S), NEW t \in Seq(S), NEW u \in Seq(S)
  PROVE  /\ IsPrefix(s, s)
         /\ IsPrefix(s, t) /\ IsPrefix(t, u) => IsPrefix(s, u)
<1>1. Len(s) \in Nat /\ Len(t) \in Nat /\ Len(u) \in Nat
  BY LenProperties
<1>2. IsPrefix(s, s)
  BY <1>1, PrefixPointwise
<1>3. ASSUME IsPrefix(s, t), IsPrefix(t, u) PROVE IsPrefix(s, u)
  <2>1. /\ Len(s) <= Len(t) /\ \A k \in 1..Len(s) : s[k] = t[k]
        /\ Len(t) <= Len(u) /\ \A k \in 1..Len(t) : t[k] = u[k]
    BY <1>3, PrefixPointwise
  <2>2. Len(s) <= Len(u) /\ \A k \in 1..Len(s) : s[k] = u[k]
    BY <1>1, <2>1
  <2>3. QED
    BY <2>2, PrefixPointwise
<1>4. QED
  BY <1>2, <1>3

\* A pid in a map is a client's.
LEMMA EntryPids ==
  ASSUME NEW m \in Seq(Entry)
  PROVE  DOMAIN m = 1..Len(m) /\ \A k \in DOMAIN m : m[k].msgpid \in Clients
<1>1. DOMAIN m = 1..Len(m) /\ \A k \in 1..Len(m) : m[k] \in Entry
  BY LenProperties, ElementOfSeq
<1>2. \A e \in Entry : e.msgpid \in Clients
  BY DEF Entry
<1>3. QED
  BY <1>1, <1>2

\* The names of a map are a list as long as the map.
LEMMA NamesOfMap ==
  ASSUME NEW m \in Seq(Entry)
  PROVE  /\ NamesOf(m) \in Seq(Names) /\ Len(NamesOf(m)) = Len(m)
         /\ \A k \in 1..Len(m) : NamesOf(m)[k] = m[k].nameID
<1>1. Len(m) \in Nat /\ DOMAIN m = 1..Len(m) /\ \A k \in 1..Len(m) : m[k] \in Entry
  BY LenProperties, ElementOfSeq
<1>2. NamesOf(m) \in [1..Len(m) -> Names]
  BY <1>1 DEF NamesOf, Entry
<1>3. NamesOf(m) \in Seq(Names)
  BY <1>1, <1>2, SeqDef
<1>4. DOMAIN NamesOf(m) = 1..Len(NamesOf(m)) /\ Len(NamesOf(m)) \in Nat
  BY <1>3, LenProperties
<1>5. 1..Len(NamesOf(m)) = 1..Len(m)
  BY <1>2, <1>4
<1>6. Len(NamesOf(m)) = Len(m)
  <2>1. \A x, y \in Nat : 1..x = 1..y => x = y
    <3>1. SUFFICES ASSUME NEW x \in Nat, NEW y \in Nat, 1..x = 1..y PROVE x = y
      OBVIOUS
    <3>2. x <= y
      <4>1. x = 0 \/ x \in 1..y
        BY <3>1
      <4>2. QED
        BY <4>1
    <3>3. y <= x
      <4>1. y = 0 \/ y \in 1..x
        BY <3>1
      <4>2. QED
        BY <4>1
    <3>4. QED
      BY <3>2, <3>3
  <2>2. QED
    BY <1>1, <1>4, <1>5, <2>1
<1>7. QED
  BY <1>1, <1>3, <1>6 DEF NamesOf

\* A new entry makes the list of names longer and changes none of them.
LEMMA NamesGrow ==
  ASSUME NEW m \in Seq(Entry), NEW e \in Entry
  PROVE  IsPrefix(NamesOf(m), NamesOf(Append(m, e)))
<1> DEFINE more == Append(m, e)
<1>1. more \in Seq(Entry) /\ Len(m) \in Nat /\ Len(more) = Len(m) + 1
  BY AppendProperties, LenProperties
<1>2. \A k \in 1..Len(m) : more[k] = m[k]
  BY AppendProperties
<1> HIDE DEF more
<1>3. /\ NamesOf(more) \in Seq(Names) /\ Len(NamesOf(more)) = Len(more)
      /\ \A k \in 1..Len(more) : NamesOf(more)[k] = more[k].nameID
  BY <1>1, NamesOfMap
<1>4. /\ NamesOf(m) \in Seq(Names) /\ Len(NamesOf(m)) = Len(m)
      /\ \A k \in 1..Len(m) : NamesOf(m)[k] = m[k].nameID
  BY NamesOfMap
<1>5. /\ Len(NamesOf(m)) <= Len(NamesOf(more))
      /\ \A k \in 1..Len(NamesOf(m)) : NamesOf(m)[k] = NamesOf(more)[k]
  BY <1>1, <1>2, <1>3, <1>4
<1>6. IsPrefix(NamesOf(m), NamesOf(more))
  BY <1>3, <1>4, <1>5, PrefixPointwise
<1>7. QED
  BY <1>6 DEF more

\* What a message that goes down is.
LEMMA DownMessageIs ==
  ASSUME NEW m \in DownMessage
  PROVE  m[1] = "LIST" => m[2] \in Seq(Names)
BY DEF DownMessage

\* A chain reaches up to anything its end is a prefix of.
LEMMA ChainGrow ==
  ASSUME NEW lo \in Seq(Names), NEW q \in Seq(DownMessage), NEW hi \in Seq(Names),
         NEW top \in Seq(Names), Chain(lo, q, hi), IsPrefix(hi, top)
  PROVE  Chain(lo, q, top)
<1>1. \A k \in DOMAIN q : q[k] \in DownMessage
  BY LenProperties, ElementOfSeq
<1>2. \A k \in DOMAIN q : q[k][1] = "LIST" => IsPrefix(q[k][2], top)
  BY <1>1, DownMessageIs, PrefixOrder DEF Chain
<1>3. IsPrefix(lo, top)
  BY PrefixOrder DEF Chain
<1>4. QED
  BY <1>2, <1>3 DEF Chain

\* A chain may be extended by a list that is its end, and by any chat message.
LEMMA ChainAppend ==
  ASSUME NEW lo \in Seq(Names), NEW q \in Seq(DownMessage), NEW hi \in Seq(Names),
         NEW m \in DownMessage, m[1] = "LIST" => m[2] = hi, Chain(lo, q, hi)
  PROVE  Chain(lo, Append(q, m), hi)
<1> DEFINE r == Append(q, m)
           n == Len(q)
<1>1. /\ n \in Nat /\ DOMAIN q = 1..n /\ DOMAIN r = 1..(n + 1)
      /\ (\A k \in 1..n : r[k] = q[k]) /\ r[n + 1] = m
  BY LenProperties, AppendProperties
<1> HIDE DEF r, n
<1>2. IsPrefix(hi, hi)
  BY PrefixOrder
<1>3. \A k \in DOMAIN r : (k \in DOMAIN q /\ r[k] = q[k]) \/ (k = n + 1 /\ r[k] = m)
  BY <1>1
<1>4. \A k \in DOMAIN r : r[k][1] = "LIST" => IsPrefix(lo, r[k][2]) /\ IsPrefix(r[k][2], hi)
  BY <1>2, <1>3 DEF Chain
<1>5. ASSUME NEW j \in DOMAIN r, NEW k \in DOMAIN r,
             j <= k, r[j][1] = "LIST", r[k][1] = "LIST"
      PROVE  IsPrefix(r[j][2], r[k][2])
  <2>1. CASE k = n + 1
    BY <1>3, <1>4, <1>5, <1>1, <2>1
  <2>2. CASE k \in DOMAIN q
    <3>1. j \in DOMAIN q
      BY <1>1, <1>5, <2>2
    <3>2. QED
      BY <1>1, <1>5, <2>2, <3>1 DEF Chain
  <2>3. QED
    BY <1>3, <2>1, <2>2
<1>6. Chain(lo, r, hi)
  BY <1>4, <1>5 DEF Chain
<1>7. QED
  BY <1>6 DEF r

\* What is left of a chain when its first message is taken.
LEMMA ChainTail ==
  ASSUME NEW lo \in Seq(Names), NEW q \in Seq(DownMessage), NEW hi \in Seq(Names),
         q # <<>>, Chain(lo, q, hi)
  PROVE  /\ Chain(lo, Tail(q), hi)
         /\ Head(q)[1] = "LIST" => Chain(Head(q)[2], Tail(q), hi) /\ IsPrefix(lo, Head(q)[2])
<1> DEFINE r == Tail(q)
           n == Len(q)
<1>1. r \in Seq(DownMessage) /\ n \in Nat \ {0} /\ DOMAIN q = 1..n /\ Head(q) = q[1]
  BY LenProperties, HeadTailProperties, EmptySeq
<1>2. DOMAIN r = 1..(n - 1) /\ \A k \in 1..(n - 1) : r[k] = q[k + 1]
  BY <1>1, LenProperties, HeadTailProperties
<1> HIDE DEF r, n
<1>3. /\ 1 \in DOMAIN q
      /\ \A k \in DOMAIN r : k + 1 \in DOMAIN q /\ r[k] = q[k + 1] /\ 1 <= k + 1
      /\ \A j, k \in DOMAIN r : j <= k => j + 1 <= k + 1
  BY <1>1, <1>2
<1>4. Chain(lo, r, hi)
  BY <1>3 DEF Chain
<1>5. Head(q)[1] = "LIST" => Chain(Head(q)[2], r, hi) /\ IsPrefix(lo, Head(q)[2])
  BY <1>1, <1>3 DEF Chain
<1>6. QED
  BY <1>4, <1>5 DEF r

-----------------------------------------------------------------------------
(* The steps.                                                              *)

\* What a queue holds is what was put there.
LEMMA DownTyped ==
  ASSUME NEW d \in [Clients -> Seq(DownMessage)]
  PROVE  \A c \in Clients : \A k \in DOMAIN d[c] : d[c][k] \in DownMessage
BY LenProperties, ElementOfSeq

LEMMA SendDownFacts ==
  ASSUME DownOK, NEW p \in Clients, NEW m \in DownMessage, SendDown(p, m)
  PROVE  /\ DownOK' /\ down'[p] = Append(down[p], m) /\ down'[p] # <<>>
         /\ \A c \in Clients \ {p} : down'[c] = down[c]
         /\ Head(down'[p]) = IF down[p] = <<>> THEN m ELSE Head(down[p])
<1>1. down[p] \in Seq(DownMessage)
  BY DEF DownOK
<1>2. Append(down[p], m) \in Seq(DownMessage) /\ Append(down[p], m) # <<>>
  BY <1>1, AppendProperties
<1>3. /\ down'[p] = Append(down[p], m) /\ DownOK'
      /\ \A c \in Clients \ {p} : down'[c] = down[c]
  BY <1>2 DEF DownOK, SendDown
<1>4. QED
  BY <1>1, <1>2, <1>3, HeadTailAppend

LEMMA TakeFacts ==
  ASSUME DownOK, NEW c \in Clients, down[c] # <<>>, down' = [down EXCEPT ![c] = Tail(@)]
  PROVE  /\ DownOK' /\ down'[c] = Tail(down[c]) /\ Head(down[c]) \in DownMessage
         /\ \A d \in Clients \ {c} : down'[d] = down[d]
<1>1. Head(down[c]) \in DownMessage /\ Tail(down[c]) \in Seq(DownMessage)
  BY HeadTailProperties DEF DownOK
<1>2. QED
  BY <1>1 DEF DownOK

\* What holds of empty queues and of an empty map.
LEMMA Empty ==
  /\ \A S : <<>> \in Seq(S)
  /\ Len(<<>>) = 0 /\ DOMAIN <<>> = {} /\ 0 \in 0..(Len(<<>>) + 1)
  /\ IsPrefix(<<>>, NamesOf(<<>>))
<1>1. (\A S : <<>> \in Seq(S)) /\ Len(<<>>) = 0
  BY EmptySeq
<1>2. 1..0 = {}
  OBVIOUS
<1>3. DOMAIN <<>> = 1..Len(<<>>)
  BY <1>1, LenProperties
<1>4. NamesOf(<<>>) \in Seq(Names) /\ Len(NamesOf(<<>>)) = 0
  BY <1>1, NamesOfMap
<1>5. \A n \in Nat : n = 0 => 0 \in 0..(n + 1) /\ n <= 0 /\ \A k \in 1..n : FALSE
  OBVIOUS
<1>6. IsPrefix(<<>>, NamesOf(<<>>))
  BY <1>1, <1>4, <1>5, PrefixPointwise
<1>7. QED
  BY <1>1, <1>2, <1>3, <1>5, <1>6

LEMMA InitIInv == Init => IInv
<1> SUFFICES ASSUME Init PROVE IInv
  OBVIOUS
<1> USE Empty DEF Init
<1>1. DownOK /\ InHand /\ OnlyJoined /\ Greeted /\ FirstIsList
  BY DEF DownOK, InHand, OnlyJoined, Greeted, FirstIsList
<1>2. TypeOK
  <2>1. \A c \in Clients : \A k \in DOMAIN down[c] : down[c][k] \in DownMessage
    BY <1>1, DownTyped DEF DownOK
  <2>2. QED
    BY <2>1 DEF TypeOK
<1>3. Deliverable /\ Alive
  BY DEF Deliverable, Alive, Joined
<1>4. ListsInOrder
  BY DEF ListsInOrder, Chain
<1>5. QED
  BY <1>1, <1>2, <1>3, <1>4 DEF IInv

LEMMA ReceiveStep ==
  ASSUME IInv, Receive
  PROVE  IInv'
<1> USE DEF Receive, client
<1>0. TypeOK /\ DownOK
  BY DEF IInv
<1>1. Head(up) \in UpMessage /\ Tail(up) \in Seq(UpMessage)
  BY <1>0, HeadTailProperties DEF TypeOK
<1>2. TypeOK' /\ DownOK'
  BY <1>0, <1>1 DEF TypeOK, DownOK
<1>3. InHand' /\ OnlyJoined' /\ FirstIsList' /\ ListsInOrder'
  BY <1>1 DEF IInv, InHand, OnlyJoined, FirstIsList, ListsInOrder
<1>4. Greeted'
  BY DEF IInv, Greeted
<1>5. Deliverable'
  <2>1. /\ 1 \in DOMAIN up /\ Head(up) = up[1]
        /\ \A k \in DOMAIN Tail(up) : k + 1 \in DOMAIN up /\ Tail(up)[k] = up[k + 1]
    <3>1. up \in Seq(UpMessage) /\ up # <<>>
      BY <1>0 DEF TypeOK
    <3>2. Len(up) \in Nat \ {0} /\ DOMAIN up = 1..Len(up) /\ DOMAIN Tail(up) = 1..Len(Tail(up))
      BY <1>1, <3>1, EmptySeq, LenProperties
    <3>3. Len(Tail(up)) = Len(up) - 1 /\ \A k \in 1..Len(Tail(up)) : Tail(up)[k] = up[k + 1]
      BY <3>1, HeadTailProperties
    <3>4. QED
      BY <3>1, <3>2, <3>3
  <2>2. \A n : Holders(n)' = Holders(n)
    BY DEF Holders
  <2>3. QED
    BY <2>1, <2>2 DEF IInv, Deliverable
<1>6. Alive'
  BY DEF Alive
<1>7. QED
  BY <1>2, <1>3, <1>4, <1>5, <1>6 DEF IInv

\* A new entry is announced by somebody who has joined, and is still to be sent
\* its list.
LEMMA AddNameStep ==
  ASSUME IInv, AddName
  PROVE  IInv'
<1> USE DEF AddName, client
<1> DEFINE e == [msgpid |-> lspid, nameID |-> msg[2]]
           n == Len(map)
<1>0. TypeOK /\ DownOK /\ lspid \in Clients /\ cpc[lspid] # "off" /\ msg \in UpMessage
  BY DEF IInv, InHand
<1>1. e \in Entry /\ map \in Seq(Entry) /\ e.msgpid = lspid
  BY <1>0 DEF Entry, UpMessage, TypeOK
<1> HIDE DEF e
<1>2. /\ map' = Append(map, e) /\ map' \in Seq(Entry) /\ n \in Nat /\ Len(map') = n + 1
      /\ DOMAIN map = 1..n /\ DOMAIN map' = 1..(n + 1)
      /\ (\A k \in 1..n : map'[k] = map[k]) /\ map'[n + 1] = e
  <2>1. map' = Append(map, e)
    BY DEF e
  <2>2. Append(map, e) \in Seq(Entry) /\ Len(Append(map, e)) = n + 1
    BY <1>1, AppendProperties
  <2>3. (\A k \in 1..n : Append(map, e)[k] = map[k]) /\ Append(map, e)[n + 1] = e
    BY <1>1, AppendProperties
  <2>4. n \in Nat /\ DOMAIN map = 1..n /\ DOMAIN Append(map, e) = 1..Len(Append(map, e))
    BY <1>1, <2>2, LenProperties
  <2>5. QED
    BY <2>1, <2>2, <2>3, <2>4
<1> HIDE DEF n
<1>3. DownOK' /\ TypeOK'
  <2>1. i' \in 0..(Len(map') + 1)
    BY <1>2
  <2>2. QED
    BY <1>0, <1>2, <2>1 DEF TypeOK, DownOK
<1>4. InHand' /\ Greeted' /\ FirstIsList'
  <2>1. \A k \in DOMAIN map' : ~(k < i')
    BY <1>2
  <2>2. QED
    BY <2>1 DEF IInv, InHand, Greeted, FirstIsList
<1>5. OnlyJoined'
  <2>1. \A k \in DOMAIN map' : (k \in DOMAIN map /\ map'[k] = map[k]) \/ map'[k] = e
    BY <1>2
  <2>2. QED
    BY <1>0, <1>1, <2>1 DEF IInv, OnlyJoined
<1>6. ListsInOrder'
  <2>1. IsPrefix(NamesOf(map), NamesOf(map'))
    BY <1>1, <1>2, NamesGrow
  <2>2. NamesOf(map) \in Seq(Names) /\ NamesOf(map') \in Seq(Names)
    BY <1>1, <1>2, NamesOfMap
  <2>3. \A c \in Clients : chat[c] \in Seq(Names) /\ down[c] \in Seq(DownMessage)
    BY <1>0 DEF TypeOK, DownOK
  <2>4. \A c \in Clients : Chain(chat[c], down[c], NamesOf(map'))
    BY <2>1, <2>2, <2>3, ChainGrow DEF IInv, ListsInOrder
  <2>5. QED
    BY <2>4 DEF ListsInOrder
<1>7. Deliverable'
  <2>1. \A x : Holders(x) \subseteq Holders(x)'
    BY <1>2 DEF Holders
  <2>2. QED
    BY <2>1 DEF IInv, Deliverable
<1>8. Alive'
  BY <1>2 DEF Alive
<1>9. QED
  BY <1>3, <1>4, <1>5, <1>6, <1>7, <1>8 DEF IInv

\* A message sent to somebody in the map leaves what he was sent before at the
\* head of his queue, and a list continues his chain.
LEMMA SentDown ==
  ASSUME IInv, NEW p \in Clients, NEW m \in DownMessage, SendDown(p, m), cpc[p] # "off",
         m[1] = "LIST" => m[2] = NamesOf(map),
         cpc[p] = "joining" => down[p] # <<>> \/ m[1] = "LIST",
         UNCHANGED <<map, client>>
  PROVE  /\ DownOK' /\ FirstIsList' /\ ListsInOrder'
         /\ \A c \in Clients : down[c] # <<>> \/ c = p => down'[c] # <<>>
         /\ \A c \in Clients : cpc[c] = "off" => down'[c] = <<>>
<1> USE DEF client
<1>0. TypeOK /\ DownOK
  BY DEF IInv
<1>1. /\ DownOK' /\ down'[p] = Append(down[p], m) /\ down'[p] # <<>>
      /\ \A c \in Clients \ {p} : down'[c] = down[c]
      /\ Head(down'[p]) = IF down[p] = <<>> THEN m ELSE Head(down[p])
  BY <1>0, SendDownFacts
<1>2. FirstIsList'
  <2>1. SUFFICES ASSUME NEW c \in Clients, cpc[c] = "joining", down'[c] # <<>>
                 PROVE  Head(down'[c])[1] = "LIST"
    BY DEF FirstIsList
  <2>2. CASE c = p
    BY <1>1, <2>1, <2>2 DEF IInv, FirstIsList
  <2>3. CASE c # p
    BY <1>1, <2>1, <2>3 DEF IInv, FirstIsList
  <2>4. QED
    BY <2>2, <2>3
<1>3. ListsInOrder'
  <2>1. SUFFICES ASSUME NEW c \in Clients PROVE Chain(chat[c], down'[c], NamesOf(map))
    BY DEF ListsInOrder
  <2>2. Chain(chat[c], down[c], NamesOf(map))
    BY DEF IInv, ListsInOrder
  <2>3. CASE c = p
    <3>1. /\ chat[c] \in Seq(Names) /\ down[c] \in Seq(DownMessage)
          /\ NamesOf(map) \in Seq(Names)
      BY <1>0, NamesOfMap DEF TypeOK, DownOK
    <3>2. Chain(chat[c], Append(down[c], m), NamesOf(map))
      BY <2>2, <3>1, ChainAppend
    <3>3. QED
      BY <1>1, <2>3, <3>2
  <2>4. CASE c # p
    BY <1>1, <2>2, <2>4
  <2>5. QED
    BY <2>3, <2>4
<1>4. \A c \in Clients : down[c] # <<>> \/ c = p => down'[c] # <<>>
  BY <1>1
<1>5. \A c \in Clients : cpc[c] = "off" => down'[c] = <<>>
  BY <1>1 DEF IInv, OnlyJoined
<1>6. QED
  BY <1>1, <1>2, <1>3, <1>4, <1>5

LEMMA SendListStep ==
  ASSUME IInv, SendList
  PROVE  IInv'
<1> USE DEF SendList
<1> DEFINE n == Len(map)
<1>0. TypeOK /\ DownOK /\ map \in Seq(Entry) /\ i \in 0..(n + 1) /\ i > 0 /\ n \in Nat
  BY LenProperties DEF IInv, TypeOK, InHand
<1> HIDE DEF n
<1>1. CASE i <= n
  <2> DEFINE m == <<"LIST", NamesOf(map)>>
             p == map[i].msgpid
  <2>1. i \in 1..n /\ i + 1 \in 1..(n + 1)
    BY <1>0, <1>1
  <2>2. i \in DOMAIN map /\ p \in Clients
    BY <1>0, <2>1, EntryPids DEF n
  <2>3. m \in DownMessage
    BY <1>0, NamesOfMap DEF DownMessage
  <2>4. cpc[p] # "off" /\ m[1] = "LIST" /\ m[2] = NamesOf(map)
    BY <2>2 DEF IInv, OnlyJoined
  <2>5. SendDown(p, m) /\ i' = i + 1 /\ UNCHANGED <<spc, up, lspid, msg, map, client>>
    BY <1>1 DEF n
  <2> HIDE DEF m
  <2>6. /\ DownOK' /\ FirstIsList' /\ ListsInOrder'
        /\ \A c \in Clients : down[c] # <<>> \/ c = p => down'[c] # <<>>
        /\ \A c \in Clients : cpc[c] = "off" => down'[c] = <<>>
    BY <2>2, <2>3, <2>4, <2>5, SentDown
  <2>7. TypeOK'
    <3>1. i' \in 0..(Len(map') + 1)
      BY <2>1, <2>5 DEF n
    <3>2. \A c \in Clients : \A k \in DOMAIN down'[c] : down'[c][k] \in DownMessage
      BY <2>6, DownTyped DEF DownOK
    <3>3. QED
      BY <1>0, <2>5, <3>1, <3>2 DEF TypeOK, client
  <2>8. InHand' /\ OnlyJoined'
    BY <2>1, <2>5, <2>6 DEF IInv, InHand, OnlyJoined, client
  <2>9. Greeted'
    <3>1. \A k \in DOMAIN map : k < i' => k < i \/ k = i
      BY <1>0, <2>5, LenProperties
    <3>2. QED
      BY <2>2, <2>5, <2>6, <3>1 DEF IInv, Greeted, client
  <2>10. Deliverable'
    BY <2>5 DEF IInv, Deliverable, Holders
  <2>11. Alive'
    BY <2>2, <2>6 DEF Alive
  <2>12. QED
    BY <2>6, <2>7, <2>8, <2>9, <2>10, <2>11 DEF IInv
<1>2. CASE ~(i <= n)
  <2>1. spc' = "receive" /\ UNCHANGED <<up, lspid, down, msg, map, i, client>>
    BY <1>2 DEF n
  <2>2. TypeOK' /\ DownOK' /\ InHand' /\ OnlyJoined' /\ FirstIsList' /\ ListsInOrder'
    BY <1>0, <2>1 DEF IInv, TypeOK, DownOK, InHand, OnlyJoined, FirstIsList, ListsInOrder, client
  <2>3. Greeted'
    <3>1. \A k \in DOMAIN map : k < i
      BY <1>0, <1>2, LenProperties DEF n
    <3>2. QED
      BY <2>1, <3>1 DEF IInv, Greeted, client
  <2>4. Deliverable' /\ Alive'
    BY <1>2, <2>1 DEF IInv, Deliverable, Holders, Alive, Joined, client, n
  <2>5. QED
    BY <2>2, <2>3, <2>4 DEF IInv
<1>3. QED
  BY <1>1, <1>2

LEMMA RelayStep ==
  ASSUME IInv, Relay
  PROVE  IInv'
<1> USE DEF Relay
<1> DEFINE h == Max(Holders(msg[2]))
           p == map[h].msgpid
<1>0. TypeOK /\ DownOK /\ map \in Seq(Entry)
  BY DEF IInv, TypeOK
<1>1. h \in DOMAIN map
  <2>1. Holders(msg[2]) # {} /\ Holders(msg[2]) \subseteq DOMAIN map
    BY DEF IInv, Deliverable, Holders
  <2>2. DOMAIN map = 1..Len(map) /\ Len(map) \in Nat
    BY <1>0, LenProperties
  <2>3. QED
    BY <2>1, <2>2, MaxOf
<1>2. p \in Clients /\ cpc[p] # "off"
  BY <1>0, <1>1, EntryPids DEF IInv, OnlyJoined
<1>3. msg \in DownMessage /\ msg[1] # "LIST"
  BY DEF IInv, InHand, UpMessage, DownMessage
<1>4. /\ SendDown(p, msg) /\ spc = "stat" /\ spc' = "receive"
      /\ UNCHANGED <<up, lspid, msg, map, i, client>>
  BY DEF IInv, Deliverable
<1>5. cpc[p] = "joining" => down[p] # <<>>
  BY <1>1, <1>2, <1>4 DEF IInv, Greeted
<1> HIDE DEF h, p, Relay
<1>6. /\ DownOK' /\ FirstIsList' /\ ListsInOrder'
      /\ \A c \in Clients : down[c] # <<>> \/ c = p => down'[c] # <<>>
      /\ \A c \in Clients : cpc[c] = "off" => down'[c] = <<>>
  BY <1>2, <1>3, <1>4, <1>5, SentDown
<1>7. TypeOK'
  <2>1. \A c \in Clients : \A k \in DOMAIN down'[c] : down'[c][k] \in DownMessage
    BY <1>6, DownTyped DEF DownOK
  <2>2. QED
    BY <1>0, <1>4, <2>1 DEF TypeOK, client
<1>8. InHand' /\ OnlyJoined' /\ Greeted'
  BY <1>4, <1>6 DEF IInv, InHand, OnlyJoined, Greeted, client
<1>9. Deliverable' /\ Alive'
  BY <1>2, <1>4, <1>6 DEF IInv, Deliverable, Holders, Alive
<1>10. QED
  BY <1>6, <1>7, <1>8, <1>9 DEF IInv

-----------------------------------------------------------------------------
\* A message for the server is behind those that wait, and its sender is known.
LEMMA SentUp ==
  ASSUME IInv, NEW c \in Clients, NEW m \in UpMessage, SendUp(c, m),
         m[1] = "MSG" => Holders(m[2]) # {}, UNCHANGED <<down, server>>
  PROVE  /\ up' \in Seq(UpMessage) /\ up' # <<>> /\ lspid' \in Clients
         /\ Deliverable' /\ Alive'
<1> DEFINE n == Len(up)
<1>1. up \in Seq(UpMessage)
  BY DEF IInv, TypeOK
<1>2. /\ up' = Append(up, m) /\ up' \in Seq(UpMessage) /\ up' # <<>>
      /\ Len(up') = n + 1 /\ n \in Nat /\ DOMAIN up = 1..n
      /\ (\A k \in 1..n : up'[k] = up[k]) /\ up'[n + 1] = m
  BY <1>1, AppendProperties, LenProperties DEF SendUp
<1>3. DOMAIN up' = 1..(n + 1)
  BY <1>2, LenProperties
<1> HIDE DEF n
<1>4. \A k \in DOMAIN up' : (k \in DOMAIN up /\ up'[k] = up[k]) \/ up'[k] = m
  BY <1>2, <1>3
<1>5. Deliverable'
  BY <1>4 DEF IInv, Deliverable, Holders, server
<1>6. QED
  BY <1>2, <1>5 DEF SendUp, Alive

LEMMA JoinStep ==
  ASSUME IInv, NEW c \in Clients, Join(c)
  PROVE  IInv'
<1> USE DEF Join, Goto, server
<1>0. TypeOK /\ DownOK
  BY DEF IInv
<1>1. PICK n \in Names : name' = [name EXCEPT ![c] = n] /\ SendUp(c, <<"NEW", n>>)
  OBVIOUS
<1>2. <<"NEW", n>> \in UpMessage /\ <<"NEW", n>>[1] # "MSG"
  BY DEF UpMessage
<1>3. up' \in Seq(UpMessage) /\ up' # <<>> /\ lspid' = c /\ Deliverable' /\ Alive'
  BY <1>1, <1>2, SentUp DEF SendUp
<1>4. TypeOK' /\ DownOK'
  BY <1>0, <1>1, <1>3 DEF TypeOK, DownOK
<1>5. cpc'[c] = "joining" /\ \A d \in Clients \ {c} : cpc'[d] = cpc[d]
  BY <1>0 DEF TypeOK
<1>6. InHand' /\ OnlyJoined'
  <2>1. \A k \in DOMAIN map : map[k].msgpid \in Clients
    BY <1>0, EntryPids DEF TypeOK
  <2>2. QED
    BY <1>3, <1>5, <2>1 DEF IInv, InHand, OnlyJoined
<1>7. Greeted'
  BY <1>5 DEF IInv, Greeted, OnlyJoined
<1>8. FirstIsList' /\ ListsInOrder'
  BY <1>5 DEF IInv, FirstIsList, OnlyJoined, ListsInOrder
<1>9. QED
  BY <1>3, <1>4, <1>6, <1>7, <1>8 DEF IInv

\* The name a user picks is in the list he was told, and so in the map.
LEMMA TalkStep ==
  ASSUME IInv, NEW c \in Clients, Talk(c)
  PROVE  IInv'
<1> USE DEF Talk, Goto, server
<1>0. TypeOK /\ DownOK /\ map \in Seq(Entry) /\ chat[c] \in Seq(Names)
  BY DEF IInv, TypeOK
<1>1. PICK k \in DOMAIN chat[c] : SendUp(c, <<"MSG", chat[c][k]>>)
  OBVIOUS
<1>2. k \in 1..Len(chat[c]) /\ chat[c][k] \in Names
  BY <1>0, LenProperties, ElementOfSeq
<1>3. Holders(chat[c][k]) # {}
  <2>1. IsPrefix(chat[c], NamesOf(map))
    BY DEF IInv, ListsInOrder, Chain
  <2>2. /\ NamesOf(map) \in Seq(Names) /\ Len(NamesOf(map)) = Len(map)
        /\ \A j \in 1..Len(map) : NamesOf(map)[j] = map[j].nameID
        /\ DOMAIN map = 1..Len(map) /\ Len(map) \in Nat /\ Len(chat[c]) \in Nat
    BY <1>0, NamesOfMap, LenProperties
  <2>3. /\ Len(chat[c]) <= Len(NamesOf(map))
        /\ \A j \in 1..Len(chat[c]) : chat[c][j] = NamesOf(map)[j]
    BY <1>0, <2>1, <2>2, PrefixPointwise
  <2>4. k \in DOMAIN map /\ map[k].nameID = chat[c][k]
    BY <1>2, <2>2, <2>3
  <2>5. QED
    BY <2>4 DEF Holders
<1>4. <<"MSG", chat[c][k]>> \in UpMessage
  BY <1>2 DEF UpMessage
<1>5. up' \in Seq(UpMessage) /\ up' # <<>> /\ lspid' = c /\ Deliverable' /\ Alive'
  BY <1>1, <1>3, <1>4, SentUp DEF SendUp
<1>6. TypeOK' /\ DownOK'
  BY <1>0, <1>5 DEF TypeOK, DownOK
<1>7. cpc'[c] = "waiting" /\ cpc[c] = "talk" /\ \A d \in Clients \ {c} : cpc'[d] = cpc[d]
  BY <1>0 DEF TypeOK
<1>8. InHand' /\ OnlyJoined'
  <2>1. \A j \in DOMAIN map : map[j].msgpid \in Clients
    BY <1>0, EntryPids
  <2>2. QED
    BY <1>5, <1>7, <2>1 DEF IInv, InHand, OnlyJoined
<1>9. Greeted' /\ FirstIsList' /\ ListsInOrder'
  BY <1>7 DEF IInv, Greeted, FirstIsList, ListsInOrder
<1>10. QED
  BY <1>5, <1>6, <1>8, <1>9 DEF IInv

\* A client that hears something goes on: what it is told next is further along
\* the chain.
LEMMA TakeStep ==
  ASSUME IInv, NEW c \in Clients, Welcome(c) \/ Hear(c)
  PROVE  IInv' /\ \A d \in Clients : IsPrefix(chat[d], chat'[d])
<1> DEFINE m == Head(down[c])
<1>0. TypeOK /\ DownOK
  BY DEF IInv
<1>1. /\ down[c] # <<>> /\ down' = [down EXCEPT ![c] = Tail(@)]
      /\ cpc[c] \in {"joining", "waiting"} /\ cpc' = [cpc EXCEPT ![c] = "talk"]
      /\ UNCHANGED <<up, lspid, server, name>>
      /\ chat' = IF m[1] = "LIST" THEN [chat EXCEPT ![c] = m[2]] ELSE chat
  BY DEF Welcome, Hear, Goto, IInv, FirstIsList
<1>2. /\ DownOK' /\ down'[c] = Tail(down[c]) /\ m \in DownMessage
      /\ \A d \in Clients \ {c} : down'[d] = down[d]
  BY <1>0, <1>1, TakeFacts
<1> HIDE DEF m
<1>3. m[1] = "LIST" => m[2] \in Seq(Names)
  BY <1>2, DownMessageIs
<1>4. /\ cpc'[c] = "talk" /\ \A d \in Clients \ {c} : cpc'[d] = cpc[d]
      /\ chat'[c] = IF m[1] = "LIST" THEN m[2] ELSE chat[c]
      /\ \A d \in Clients \ {c} : chat'[d] = chat[d]
  BY <1>0, <1>1 DEF TypeOK
<1>5. TypeOK'
  <2>1. \A d \in Clients : \A k \in DOMAIN down'[d] : down'[d][k] \in DownMessage
    BY <1>2, DownTyped DEF DownOK
  <2>2. /\ chat' \in [Clients -> Seq(Names)]
        /\ cpc' \in [Clients -> {"off", "joining", "talk", "waiting"}]
    BY <1>0, <1>1, <1>3 DEF TypeOK
  <2>3. QED
    BY <1>0, <1>1, <2>1, <2>2 DEF TypeOK, server
<1>6. InHand' /\ OnlyJoined'
  <2>1. \A d \in Clients : cpc'[d] = "off" <=> cpc[d] = "off"
    BY <1>1, <1>4
  <2>2. \A k \in DOMAIN map : map[k].msgpid \in Clients
    BY <1>0, EntryPids DEF TypeOK
  <2>3. QED
    BY <1>1, <1>2, <1>4, <2>1, <2>2 DEF IInv, InHand, OnlyJoined, server
<1>7. Greeted' /\ FirstIsList'
  BY <1>1, <1>2, <1>4 DEF IInv, Greeted, FirstIsList, server
<1>8. /\ ListsInOrder'
      /\ \A d \in Clients : IsPrefix(chat[d], chat'[d])
  <2>1. SUFFICES ASSUME NEW d \in Clients
                 PROVE  /\ Chain(chat'[d], down'[d], NamesOf(map))
                        /\ IsPrefix(chat[d], chat'[d])
    BY <1>1 DEF ListsInOrder, server
  <2>2. /\ Chain(chat[d], down[d], NamesOf(map))
        /\ chat[d] \in Seq(Names) /\ down[d] \in Seq(DownMessage) /\ NamesOf(map) \in Seq(Names)
    BY <1>0, NamesOfMap DEF IInv, ListsInOrder, TypeOK, DownOK
  <2>3. IsPrefix(chat[d], chat[d])
    BY <2>2, PrefixOrder
  <2>4. CASE d = c
    <3>1. /\ Chain(chat[c], Tail(down[c]), NamesOf(map))
          /\ m[1] = "LIST" => Chain(m[2], Tail(down[c]), NamesOf(map)) /\ IsPrefix(chat[c], m[2])
      BY <1>1, <2>2, <2>4, ChainTail DEF m
    <3>2. QED
      BY <1>2, <1>4, <2>3, <2>4, <3>1
  <2>5. CASE d # c
    BY <1>2, <1>4, <2>2, <2>3, <2>5
  <2>6. QED
    BY <2>4, <2>5
<1>9. Deliverable' /\ Alive'
  BY <1>1, <1>4 DEF IInv, Deliverable, Holders, Alive, server
<1>10. QED
  BY <1>2, <1>5, <1>6, <1>7, <1>8, <1>9 DEF IInv

LEMMA SpecIInv == Spec => []IInv
<1>1. IInv /\ [Next]_vars => IInv'
  <2> SUFFICES ASSUME IInv, [Next]_vars PROVE IInv'
    OBVIOUS
  <2>1. CASE Server
    BY <2>1, ReceiveStep, AddNameStep, SendListStep, RelayStep DEF Server
  <2>2. ASSUME NEW c \in Clients, Client(c) PROVE IInv'
    BY <2>2, JoinStep, TalkStep, TakeStep DEF Client
  <2>3. CASE UNCHANGED vars
    BY ZenonT(60), <2>3 DEF vars, server, client, IInv, TypeOK, DownOK, InHand, OnlyJoined, Greeted,
                FirstIsList, ListsInOrder, Deliverable, Holders, Alive, Joined
  <2>4. QED
    BY <2>1, <2>2, <2>3 DEF Next
<1>2. QED
  BY InitIInv, <1>1, PTL DEF Spec

-----------------------------------------------------------------------------
\* Queues and map hold what the programs put there; the map's pids are clients,
\* so the server sends to nobody else.
THEOREM TypeCorrect == Spec => []TypeOK
<1>1. IInv => TypeOK
  BY DEF IInv
<1>2. QED
  BY <1>1, SpecIInv, PTL

\* The first answer a client receives is a list, which is what client.c:88 takes
\* it for without a look at its tag.
THEOREM WelcomeIsList == Spec => []FirstIsList
<1>1. IInv => FirstIsList
  BY DEF IInv
<1>2. QED
  BY <1>1, SpecIInv, PTL

\* The lists a client is told only grow at their end: a number once learned keeps
\* its name (client.c:119-157 and server.c:150-181).
THEOREM NumbersKept == Spec => NumbersKeepTheirNames
<1>1. IInv /\ [Next]_vars => [\A c \in Clients : IsPrefix(chat[c], chat'[c])]_vars
  <2> SUFFICES ASSUME IInv, [Next]_vars
               PROVE  \A c \in Clients : IsPrefix(chat[c], chat'[c])
    OBVIOUS
  <2>1. CASE UNCHANGED chat
    <3>1. \A c \in Clients : chat[c] \in Seq(Names)
      BY DEF IInv, TypeOK
    <3>2. QED
      BY <2>1, <3>1, PrefixOrder
  <2>2. ASSUME NEW c \in Clients, Welcome(c) \/ Hear(c)
        PROVE  \A d \in Clients : IsPrefix(chat[d], chat'[d])
    BY <2>2, TakeStep
  <2>3. QED
    BY <2>1, <2>2 DEF Next, Server, Client, Receive, AddName, SendList, Relay, Join, Talk,
                      client, vars
<1>2. QED
  BY <1>1, SpecIInv, PTL DEF Spec, NumbersKeepTheirNames

\* The chat never stops altogether: when the server waits for a message, some
\* client that has joined has something to say or to read.
THEOREM NeverAllSilent == Spec => []SomeoneTalks
<1>1. IInv => SomeoneTalks
  BY DEF IInv, Alive, SomeoneTalks
<1>2. QED
  BY <1>1, SpecIInv, PTL
-----------------------------------------------------------------------------
(* How much is under way.  Each message the server has accepted was sent by *)
(* a client that now waits for exactly one answer, so the messages on both  *)
(* queues can be counted: what the loop over the map has sent, one for each *)
(* client still to be announced, and none for a client that talks.          *)

\* The announcements on a queue, and the one the server has in hand.
NewIn(q) == {k \in DOMAIN q : q[k][1] = "NEW"}
NewInHand == IF spc = "stat" /\ msg[1] = "NEW" THEN 1 ELSE 0

\* What the server still owes: an answer, or the rest of a round of lists.
Owed == IF spc = "receive" THEN 0 ELSE IF spc = "stat" THEN 1 ELSE Len(map) + 1 - i

Talking == {c \in Clients : cpc[c] = "talk"}

\* A client that has joined is in the map or still to be entered.
EveryoneAnnounced == Len(map) + Cardinality(NewIn(up)) + NewInHand = Cardinality(Joined)

\* The k-th round of lists sends k of them.
MessagesAccounted ==
  2 * (Len(up) + Cardinality(Waiting) + Cardinality(Talking) + Owed + Len(map))
    = 2 * Cardinality(Joined) + Len(map) * (Len(map) + 1)

CountInv == IsFiniteSet(Waiting) /\ EveryoneAnnounced /\ MessagesAccounted

LEMMA NewInFinite ==
  ASSUME NEW S, NEW q \in Seq(S)
  PROVE  IsFiniteSet(NewIn(q)) /\ Cardinality(NewIn(q)) \in Nat
<1>1. DOMAIN q = 1..Len(q) /\ Len(q) \in Nat
  BY LenProperties
<1>2. IsFiniteSet(1..Len(q)) /\ NewIn(q) \in SUBSET (1..Len(q))
  BY <1>1, FS_Interval DEF NewIn
<1>3. IsFiniteSet(NewIn(q))
  BY <1>2, FS_Subset
<1>4. QED
  BY <1>3, FS_CardinalityType

\* One message more counts for one, if it is an announcement.
LEMMA NewInAppend ==
  ASSUME NEW S, NEW q \in Seq(S), NEW m \in S
  PROVE  Cardinality(NewIn(Append(q, m))) =
           Cardinality(NewIn(q)) + IF m[1] = "NEW" THEN 1 ELSE 0
<1> DEFINE r == Append(q, m)
           n == Len(q)
<1>1. /\ n \in Nat /\ DOMAIN q = 1..n /\ DOMAIN r = 1..(n + 1)
      /\ (\A k \in 1..n : r[k] = q[k]) /\ r[n + 1] = m
  BY LenProperties, AppendProperties
<1>2. IsFiniteSet(NewIn(q)) /\ Cardinality(NewIn(q)) \in Nat
  BY NewInFinite
<1> HIDE DEF r, n
<1>3. \A k \in DOMAIN r : (k \in DOMAIN q /\ r[k] = q[k]) \/ (k = n + 1 /\ r[k] = m)
  BY <1>1
<1>4. n + 1 \in DOMAIN r /\ n + 1 \notin DOMAIN q /\ \A k \in DOMAIN q : k \in DOMAIN r /\ r[k] = q[k]
  BY <1>1
<1>5. CASE m[1] = "NEW"
  <2>1. NewIn(r) = NewIn(q) \cup {n + 1} /\ n + 1 \notin NewIn(q)
    BY <1>1, <1>3, <1>4, <1>5 DEF NewIn
  <2>2. QED
    BY <1>2, <1>5, <2>1, FS_AddElement DEF r
<1>6. CASE m[1] # "NEW"
  <2>1. NewIn(r) = NewIn(q)
    BY <1>3, <1>4, <1>6 DEF NewIn
  <2>2. QED
    BY <1>2, <1>6, <2>1 DEF r
<1>7. QED
  BY <1>5, <1>6

\* Taking the first message takes one, if it is an announcement.
LEMMA NewInTail ==
  ASSUME NEW S, NEW q \in Seq(S), q # <<>>
  PROVE  Cardinality(NewIn(q)) =
           Cardinality(NewIn(Tail(q))) + IF Head(q)[1] = "NEW" THEN 1 ELSE 0
<1> DEFINE r == Tail(q)
           n == Len(q)
           rest == NewIn(q) \ {1}
           f == [k \in NewIn(r) |-> k + 1]
<1>1. r \in Seq(S) /\ n \in Nat \ {0} /\ DOMAIN q = 1..n /\ Head(q) = q[1]
  BY LenProperties, HeadTailProperties, EmptySeq
<1>2. DOMAIN r = 1..(n - 1) /\ \A k \in 1..(n - 1) : r[k] = q[k + 1]
  BY <1>1, LenProperties, HeadTailProperties
<1>3. /\ IsFiniteSet(NewIn(q)) /\ Cardinality(NewIn(q)) \in Nat
      /\ IsFiniteSet(NewIn(r)) /\ Cardinality(NewIn(r)) \in Nat
  BY <1>1, NewInFinite
<1> HIDE DEF r, n
<1>4. f \in Bijection(NewIn(r), rest)
  <2>1. \A k \in NewIn(r) : k \in 1..(n - 1) /\ k + 1 \in rest
    BY <1>1, <1>2 DEF NewIn
  <2>2. \A k \in rest : k - 1 \in NewIn(r) /\ k = (k - 1) + 1
    BY <1>1, <1>2 DEF NewIn
  <2>3. f \in [NewIn(r) -> rest] /\ \A k \in NewIn(r) : f[k] = k + 1
    BY <2>1
  <2>4. \A j, k \in NewIn(r) : f[j] = f[k] => j = k
    BY <2>1, <2>3
  <2>5. \A k \in rest : \E j \in NewIn(r) : f[j] = k
    BY <2>2, <2>3
  <2> HIDE DEF f, rest
  <2>6. QED
    BY <2>3, <2>4, <2>5 DEF Bijection, Injection, Surjection, IsInjective
<1>5. Cardinality(rest) = Cardinality(NewIn(r))
  BY <1>3, <1>4, FS_Bijection DEF ExistsBijection
<1>6. 1 \in NewIn(q) <=> Head(q)[1] = "NEW"
  BY <1>1 DEF NewIn
<1>7. Cardinality(rest) = IF 1 \in NewIn(q) THEN Cardinality(NewIn(q)) - 1 ELSE Cardinality(NewIn(q))
  BY <1>3, FS_RemoveElement
<1> HIDE DEF rest
<1>8. QED
  BY <1>3, <1>5, <1>6, <1>7 DEF r

\* The clients that have joined, and those that talk, can be counted.
LEMMA ClientSets ==
  ASSUME NEW S \in SUBSET Clients
  PROVE  IsFiniteSet(S) /\ Cardinality(S) \in Nat
BY MsgChatAssumption, FS_Subset, FS_CardinalityType

\* What waits, before and after a step.
LEMMA WaitingIs ==
  /\ \A x : x \in Waiting <=> \E c \in Clients : \E k \in DOMAIN down[c] : x = <<c, k>>
  /\ \A x : x \in Waiting' <=> \E c \in Clients : \E k \in DOMAIN down'[c] : x = <<c, k>>
BY DEF Waiting

\* A message sent down is one more that waits.
LEMMA WaitingSent ==
  ASSUME DownOK, IsFiniteSet(Waiting), NEW p \in Clients, NEW m \in DownMessage, SendDown(p, m)
  PROVE  IsFiniteSet(Waiting') /\ Cardinality(Waiting') = Cardinality(Waiting) + 1
<1> DEFINE n == Len(down[p])
<1>1. /\ down'[p] = Append(down[p], m) /\ down[p] \in Seq(DownMessage)
      /\ \A c \in Clients \ {p} : down'[c] = down[c]
  BY SendDownFacts DEF DownOK
<1>2. n \in Nat /\ DOMAIN down[p] = 1..n /\ DOMAIN down'[p] = 1..(n + 1)
  BY <1>1, LenProperties, AppendProperties
<1> HIDE DEF n
<1>3. DOMAIN down'[p] = DOMAIN down[p] \cup {n + 1} /\ n + 1 \notin DOMAIN down[p]
  BY <1>2
<1>4. Waiting' = Waiting \cup {<<p, n + 1>>}
  BY <1>1, <1>3, WaitingIs
<1>5. <<p, n + 1>> \notin Waiting
  BY <1>3, WaitingIs
<1>6. QED
  BY <1>4, <1>5, FS_AddElement

\* A message received is one less.
LEMMA WaitingTaken ==
  ASSUME DownOK, IsFiniteSet(Waiting), NEW p \in Clients, down[p] # <<>>,
         down' = [down EXCEPT ![p] = Tail(@)]
  PROVE  IsFiniteSet(Waiting') /\ Cardinality(Waiting') = Cardinality(Waiting) - 1
<1> DEFINE n == Len(down[p])
<1>1. /\ down'[p] = Tail(down[p]) /\ down[p] \in Seq(DownMessage)
      /\ \A c \in Clients \ {p} : down'[c] = down[c]
  BY TakeFacts DEF DownOK
<1>2. n \in Nat \ {0} /\ DOMAIN down[p] = 1..n /\ DOMAIN down'[p] = 1..(n - 1)
  <2>1. Tail(down[p]) \in Seq(DownMessage) /\ Len(Tail(down[p])) = n - 1
    BY <1>1, HeadTailProperties
  <2>2. QED
    BY <1>1, <2>1, LenProperties, EmptySeq
<1> HIDE DEF n
<1>3. DOMAIN down'[p] = DOMAIN down[p] \ {n} /\ n \in DOMAIN down[p]
  BY <1>2
<1>4. Waiting' = Waiting \ {<<p, n>>}
  BY <1>1, <1>3, WaitingIs
<1>5. <<p, n>> \in Waiting
  BY <1>3, WaitingIs
<1>6. QED
  BY <1>4, <1>5, FS_RemoveElement

\* What is counted, as numbers.
LEMMA Counts ==
  ASSUME TypeOK
  PROVE  /\ Len(up) \in Nat /\ Len(map) \in Nat /\ Cardinality(NewIn(up)) \in Nat
         /\ Cardinality(Joined) \in Nat /\ Cardinality(Talking) \in Nat
         /\ Joined \in SUBSET Clients /\ Talking \in SUBSET Clients
         /\ IsFiniteSet(Joined) /\ IsFiniteSet(Talking)
<1>1. up \in Seq(UpMessage) /\ map \in Seq(Entry)
  BY DEF TypeOK
<1>2. Joined \in SUBSET Clients /\ Talking \in SUBSET Clients
  BY DEF Joined, Talking
<1>3. QED
  BY <1>1, <1>2, LenProperties, NewInFinite, ClientSets

LEMMA InitCountInv == Init => CountInv
<1> SUFFICES ASSUME Init PROVE CountInv
  OBVIOUS
<1>1. DOMAIN <<>> = {} /\ Len(<<>>) = 0
  BY Empty
<1>2. Waiting = {} /\ Joined = {} /\ Talking = {} /\ NewIn(up) = {}
  BY <1>1, WaitingIs DEF Init, Joined, Talking, NewIn
<1>3. IsFiniteSet({}) /\ Cardinality({}) = 0
  BY FS_EmptySet
<1>4. Len(up) = 0 /\ Len(map) = 0 /\ NewInHand = 0 /\ Owed = 0
  BY <1>1 DEF Init, NewInHand, Owed
<1>5. EveryoneAnnounced /\ MessagesAccounted
  BY <1>2, <1>3, <1>4 DEF EveryoneAnnounced, MessagesAccounted
<1>6. QED
  BY <1>2, <1>3, <1>5 DEF CountInv

\* The server takes a message in hand.
LEMMA ReceiveCounts ==
  ASSUME IInv, CountInv, Receive
  PROVE  CountInv'
<1>0. TypeOK /\ up \in Seq(UpMessage) /\ up # <<>>
  BY DEF IInv, TypeOK, Receive
<1>1. /\ up' = Tail(up) /\ msg' = Head(up) /\ spc = "receive" /\ spc' = "stat"
      /\ map' = map /\ down' = down /\ cpc' = cpc
  BY DEF Receive, client
<1>2. Waiting' = Waiting /\ Joined' = Joined /\ Talking' = Talking
  BY <1>1 DEF Waiting, Joined, Talking
<1>3. Len(up') = Len(up) - 1
  BY <1>0, <1>1, HeadTailProperties
<1>4. Cardinality(NewIn(up)) = Cardinality(NewIn(up')) + NewInHand' /\ NewInHand = 0
  BY <1>0, <1>1, NewInTail DEF NewInHand
<1>5. Owed = 0 /\ Owed' = 1
  BY <1>1 DEF Owed
<1>6. /\ Len(up) \in Nat /\ Len(map) \in Nat /\ Cardinality(NewIn(up)) \in Nat
      /\ Cardinality(Joined) \in Nat /\ Cardinality(Talking) \in Nat
      /\ Cardinality(NewIn(up')) \in Nat /\ NewInHand' \in Nat
  <2>1. Tail(up) \in Seq(UpMessage)
    BY <1>0, HeadTailProperties
  <2>2. QED
    BY <1>0, <1>1, <2>1, Counts, NewInFinite DEF NewInHand
<1>7. Cardinality(Waiting) \in Nat
  BY FS_CardinalityType DEF CountInv
<1>8. NewIn(up)' = NewIn(up')
  BY DEF NewIn
<1>9. EveryoneAnnounced'
  BY <1>1, <1>2, <1>4, <1>6, <1>8 DEF CountInv, EveryoneAnnounced
<1>10. MessagesAccounted'
  <2>1. Len(up') + Cardinality(Waiting) + Cardinality(Talking) + Owed' + Len(map)
          = Len(up) + Cardinality(Waiting) + Cardinality(Talking) + Owed + Len(map)
    BY <1>3, <1>5, <1>6, <1>7
  <2>2. QED
    BY <1>1, <1>2, <2>1 DEF CountInv, MessagesAccounted
<1>11. QED
  BY <1>2, <1>9, <1>10 DEF CountInv

\* The next number's triangle.
LEMMA Triangle ==
  \A n \in Nat : (n + 1) * ((n + 1) + 1) = n * (n + 1) + 2 * (n + 1)
OBVIOUS

\* A new entry owes as many lists as the map then has entries.
LEMMA AddNameCounts ==
  ASSUME IInv, CountInv, AddName
  PROVE  CountInv'
<1> DEFINE e == [msgpid |-> lspid, nameID |-> msg[2]]
           n == Len(map)
<1>0. TypeOK /\ lspid \in Clients /\ msg \in UpMessage /\ map \in Seq(Entry)
  BY DEF IInv, InHand, TypeOK, AddName
<1>1. e \in Entry
  BY <1>0 DEF Entry, UpMessage
<1>2. Len(map') = n + 1 /\ n \in Nat
  BY <1>0, <1>1, AppendProperties, LenProperties DEF AddName
<1>3. /\ up' = up /\ msg' = msg /\ spc = "stat" /\ msg[1] = "NEW" /\ spc' = "list" /\ i' = 1
      /\ down' = down /\ cpc' = cpc
  BY DEF AddName, client
<1> HIDE DEF n
<1>4. Waiting' = Waiting /\ Joined' = Joined /\ Talking' = Talking /\ NewIn(up)' = NewIn(up)
  BY <1>3 DEF Waiting, Joined, Talking, NewIn
<1>5. NewInHand = 1 /\ NewInHand' = 0 /\ Owed = 1 /\ Owed' = n + 1
  BY <1>2, <1>3 DEF NewInHand, Owed
<1>6. /\ Len(up) \in Nat /\ Cardinality(NewIn(up)) \in Nat
      /\ Cardinality(Joined) \in Nat /\ Cardinality(Talking) \in Nat
      /\ Cardinality(Waiting) \in Nat
  BY <1>0, Counts, FS_CardinalityType DEF CountInv
<1>7. EveryoneAnnounced'
  BY <1>2, <1>4, <1>5, <1>6 DEF CountInv, EveryoneAnnounced, n
<1>8. MessagesAccounted'
  <2>1. 2 * (Len(up) + Cardinality(Waiting) + Cardinality(Talking) + 1 + n)
          = 2 * Cardinality(Joined) + n * (n + 1)
    BY <1>5 DEF CountInv, MessagesAccounted, n
  <2>2. (n + 1) * ((n + 1) + 1) = n * (n + 1) + 2 * (n + 1) /\ n * (n + 1) \in Nat
    BY <1>2, Triangle
  <2>3. 2 * (Len(up) + Cardinality(Waiting) + Cardinality(Talking) + (n + 1) + (n + 1))
          = 2 * Cardinality(Joined) + (n + 1) * ((n + 1) + 1)
    <3> DEFINE s == Len(up) + Cardinality(Waiting) + Cardinality(Talking)
               j == Cardinality(Joined)
               t == n * (n + 1)
               tt == (n + 1) * ((n + 1) + 1)
    <3>1. 2 * (s + 1 + n) = 2 * j + t /\ tt = t + 2 * (n + 1)
      BY <2>1, <2>2
    <3>2. s \in Int /\ j \in Int
      BY <1>6
    <3>3. t \in Int
      BY <2>2
    <3> HIDE DEF s, j, t, tt
    <3>4. 2 * (s + (n + 1) + (n + 1)) = 2 * j + tt
      BY <1>2, <3>1, <3>2, <3>3
    <3>5. QED
      BY <3>4 DEF s, j, tt
  <2>4. QED
    BY <1>2, <1>3, <1>4, <1>5, <2>3 DEF MessagesAccounted
<1>9. QED
  BY <1>4, <1>7, <1>8 DEF CountInv

\* Sending a message that is owed leaves the sum what it was.
LEMMA SendCounts ==
  ASSUME IInv, CountInv, NEW p \in Clients, NEW m \in DownMessage, SendDown(p, m),
         Owed \in Nat, Owed' = Owed - 1, NewInHand' = NewInHand,
         UNCHANGED <<up, map, cpc>>
  PROVE  CountInv'
<1>1. TypeOK /\ DownOK /\ IsFiniteSet(Waiting)
  BY DEF IInv, CountInv
<1>2. IsFiniteSet(Waiting') /\ Cardinality(Waiting') = Cardinality(Waiting) + 1
  BY <1>1, WaitingSent
<1>3. Joined' = Joined /\ Talking' = Talking /\ NewIn(up)' = NewIn(up)
  BY DEF Joined, Talking, NewIn
<1>4. /\ Len(up) \in Nat /\ Len(map) \in Nat /\ Cardinality(Talking) \in Nat
      /\ Cardinality(Waiting) \in Nat
  BY <1>1, Counts, FS_CardinalityType
<1>5. EveryoneAnnounced'
  BY <1>3 DEF CountInv, EveryoneAnnounced
<1>6. MessagesAccounted'
  <2>1. Len(up) + Cardinality(Waiting') + Cardinality(Talking) + Owed' + Len(map)
          = Len(up) + Cardinality(Waiting) + Cardinality(Talking) + Owed + Len(map)
    BY <1>2, <1>4
  <2>2. QED
    BY <1>3, <2>1 DEF CountInv, MessagesAccounted
<1>7. QED
  BY <1>2, <1>5, <1>6 DEF CountInv

LEMMA SendListCounts ==
  ASSUME IInv, CountInv, SendList
  PROVE  CountInv'
<1> DEFINE n == Len(map)
<1>0. TypeOK /\ map \in Seq(Entry) /\ i \in 0..(n + 1) /\ i > 0 /\ n \in Nat
  BY LenProperties DEF IInv, TypeOK, InHand, SendList
<1>1. CASE i <= n
  <2> DEFINE m == <<"LIST", NamesOf(map)>>
             p == map[i].msgpid
  <2>1. i \in DOMAIN map
    BY <1>0, <1>1, EntryPids
  <2>2. p \in Clients /\ m \in DownMessage
    BY <1>0, <2>1, EntryPids, NamesOfMap DEF DownMessage
  <2>3. /\ SendDown(p, m) /\ i' = i + 1 /\ spc = "list" /\ spc' = "list"
        /\ UNCHANGED <<up, map, msg, cpc>>
    BY <1>1 DEF SendList, client
  <2>4. Owed = n + 1 - i /\ Owed' = n + 1 - (i + 1) /\ NewInHand' = NewInHand
    BY <2>3 DEF Owed, NewInHand
  <2>5. Owed \in Nat /\ Owed' = Owed - 1
    BY <1>0, <2>4
  <2> HIDE DEF m, p
  <2>6. QED
    BY <2>2, <2>3, <2>4, <2>5, SendCounts
<1>2. CASE ~(i <= n)
  <2>1. /\ spc = "list" /\ spc' = "receive"
        /\ UNCHANGED <<up, lspid, down, msg, map, i, client>>
    BY <1>2 DEF SendList
  <2>2. Owed = n + 1 - i /\ Owed' = 0 /\ NewInHand' = 0 /\ NewInHand = 0
    BY <2>1 DEF Owed, NewInHand
  <2>3. Owed' = Owed
    BY <1>0, <1>2, <2>2
  <2>4. QED
    BY <2>1, <2>2, <2>3 DEF CountInv, EveryoneAnnounced, MessagesAccounted, Waiting, Joined,
                            Talking, NewIn, client
<1>3. QED
  BY <1>1, <1>2

LEMMA RelayCounts ==
  ASSUME IInv, CountInv, Relay
  PROVE  CountInv'
<1> DEFINE h == Max(Holders(msg[2]))
           p == map[h].msgpid
<1>0. TypeOK /\ map \in Seq(Entry)
  BY DEF IInv, TypeOK
<1>1. h \in DOMAIN map
  <2>1. Holders(msg[2]) # {} /\ Holders(msg[2]) \subseteq DOMAIN map
    BY DEF IInv, Deliverable, Holders, Relay
  <2>2. DOMAIN map = 1..Len(map) /\ Len(map) \in Nat
    BY <1>0, LenProperties
  <2>3. QED
    BY <2>1, <2>2, MaxOf
<1>2. p \in Clients
  BY <1>0, <1>1, EntryPids
<1>3. msg \in DownMessage /\ msg[1] = "MSG"
  BY DEF IInv, InHand, UpMessage, DownMessage, Relay
<1>4. /\ SendDown(p, msg) /\ spc = "stat" /\ spc' = "receive"
      /\ UNCHANGED <<up, map, msg, cpc>>
  BY DEF IInv, Deliverable, Relay, client
<1>5. Owed = 1 /\ Owed' = 0 /\ NewInHand = 0 /\ NewInHand' = 0
  BY <1>3, <1>4 DEF Owed, NewInHand
<1> HIDE DEF h, p
<1>6. QED
  BY <1>2, <1>3, <1>4, <1>5, SendCounts

LEMMA JoinCounts ==
  ASSUME IInv, CountInv, NEW c \in Clients, Join(c)
  PROVE  CountInv'
<1>0. TypeOK /\ up \in Seq(UpMessage)
  BY DEF IInv, TypeOK
<1>1. PICK n \in Names : up' = Append(up, <<"NEW", n>>)
  BY DEF Join, SendUp
<1>2. /\ cpc[c] = "off" /\ cpc' = [cpc EXCEPT ![c] = "joining"]
      /\ down' = down /\ spc' = spc /\ msg' = msg /\ map' = map /\ i' = i
  BY DEF Join, Goto, server
<1>3. cpc'[c] = "joining" /\ \A d \in Clients \ {c} : cpc'[d] = cpc[d]
  BY <1>0, <1>2 DEF TypeOK
<1>4. Joined' = Joined \cup {c} /\ c \notin Joined /\ Talking' = Talking /\ Waiting' = Waiting
  BY <1>2, <1>3 DEF Joined, Talking, Waiting
<1>5. <<"NEW", n>> \in UpMessage /\ <<"NEW", n>>[1] = "NEW"
  BY DEF UpMessage
<1>6. Len(up') = Len(up) + 1 /\ Cardinality(NewIn(up')) = Cardinality(NewIn(up)) + 1
  BY <1>0, <1>1, <1>5, NewInAppend, AppendProperties
<1>7. /\ Len(up) \in Nat /\ Len(map) \in Nat /\ Cardinality(NewIn(up)) \in Nat
      /\ Cardinality(Joined) \in Nat /\ Cardinality(Talking) \in Nat
      /\ Cardinality(Waiting) \in Nat /\ IsFiniteSet(Joined)
  BY <1>0, Counts, FS_CardinalityType DEF CountInv
<1>8. Cardinality(Joined') = Cardinality(Joined) + 1
  BY <1>4, <1>7, FS_AddElement
<1>9. NewInHand' = NewInHand /\ Owed' = Owed /\ NewIn(up)' = NewIn(up')
  BY <1>2 DEF NewInHand, Owed, NewIn
<1>10. NewInHand \in Nat /\ Owed \in Int
  <2>1. i \in 0..(Len(map) + 1)
    BY <1>0 DEF TypeOK
  <2>2. QED
    BY <1>7, <2>1 DEF NewInHand, Owed
<1>11. EveryoneAnnounced'
  BY <1>2, <1>6, <1>7, <1>8, <1>9, <1>10 DEF CountInv, EveryoneAnnounced
<1>12. MessagesAccounted'
  <2> DEFINE x == Len(up) + Cardinality(Waiting) + Cardinality(Talking) + Owed + Len(map)
             y == Len(up') + Cardinality(Waiting) + Cardinality(Talking) + Owed + Len(map)
             t == Len(map) * (Len(map) + 1)
  <2>1. y = x + 1 /\ x \in Int
    <3>1. Len(up') = Len(up) + 1 /\ Len(up) \in Int
      BY <1>6, <1>7
    <3>2. \A a, b, d, e, f \in Int : (a + 1) + b + d + e + f = (a + b + d + e + f) + 1
      OBVIOUS
    <3>3. /\ Cardinality(Waiting) \in Int /\ Cardinality(Talking) \in Int
          /\ Owed \in Int /\ Len(map) \in Int
      BY <1>7, <1>10
    <3>4. x \in Int
      BY <3>1, <3>3
    <3>5. QED
      BY <3>1, <3>2, <3>3, <3>4
  <2>0. t \in Int
    BY <1>7
  <2>2. 2 * x = 2 * Cardinality(Joined) + t
    BY DEF CountInv, MessagesAccounted
  <2> HIDE DEF x, y, t
  <2>3. 2 * y = 2 * Cardinality(Joined') + t
    BY <1>7, <1>8, <2>0, <2>1, <2>2
  <2>4. QED
    BY <1>2, <1>4, <1>9, <2>3 DEF MessagesAccounted, y, t
<1>13. QED
  BY <1>4, <1>11, <1>12 DEF CountInv

\* A message more on the way, a client less that talks.
LEMMA TalkCounts ==
  ASSUME IInv, CountInv, NEW c \in Clients, Talk(c)
  PROVE  CountInv'
<1>0. TypeOK /\ up \in Seq(UpMessage) /\ chat[c] \in Seq(Names)
  BY DEF IInv, TypeOK
<1>1. PICK k \in DOMAIN chat[c] : up' = Append(up, <<"MSG", chat[c][k]>>)
  BY DEF Talk, SendUp
<1>2. /\ cpc[c] = "talk" /\ cpc' = [cpc EXCEPT ![c] = "waiting"]
      /\ down' = down /\ spc' = spc /\ msg' = msg /\ map' = map /\ i' = i
  BY DEF Talk, Goto, server
<1>3. cpc'[c] = "waiting" /\ \A d \in Clients \ {c} : cpc'[d] = cpc[d]
  BY <1>0, <1>2 DEF TypeOK
<1>4. Talking' = Talking \ {c} /\ c \in Talking /\ Joined' = Joined /\ Waiting' = Waiting
  BY <1>2, <1>3 DEF Joined, Talking, Waiting
<1>5. <<"MSG", chat[c][k]>> \in UpMessage /\ <<"MSG", chat[c][k]>>[1] # "NEW"
  <2>1. chat[c][k] \in Names
    BY <1>0, LenProperties, ElementOfSeq
  <2>2. QED
    BY <2>1 DEF UpMessage
<1>6. /\ Len(up) \in Nat /\ Len(map) \in Nat /\ Cardinality(NewIn(up)) \in Nat
      /\ Cardinality(Joined) \in Nat /\ Cardinality(Talking) \in Nat
      /\ Cardinality(Waiting) \in Nat /\ IsFiniteSet(Talking)
  BY <1>0, Counts, FS_CardinalityType DEF CountInv
<1>7. Len(up') = Len(up) + 1 /\ Cardinality(NewIn(up')) = Cardinality(NewIn(up))
  BY <1>0, <1>1, <1>5, <1>6, NewInAppend, AppendProperties
<1>8. Cardinality(Talking') = Cardinality(Talking) - 1
  BY <1>4, <1>6, FS_RemoveElement
<1>9. NewInHand' = NewInHand /\ Owed' = Owed /\ NewIn(up)' = NewIn(up')
  BY <1>2 DEF NewInHand, Owed, NewIn
<1>10. Owed \in Int
  <2>1. i \in 0..(Len(map) + 1)
    BY <1>0 DEF TypeOK
  <2>2. QED
    BY <1>6, <2>1 DEF Owed
<1>11. EveryoneAnnounced'
  BY <1>2, <1>4, <1>7, <1>9 DEF CountInv, EveryoneAnnounced
<1>12. MessagesAccounted'
  <2>1. Len(up') + Cardinality(Waiting) + Cardinality(Talking') + Owed + Len(map)
          = Len(up) + Cardinality(Waiting) + Cardinality(Talking) + Owed + Len(map)
    BY <1>6, <1>7, <1>8, <1>10
  <2>2. QED
    BY <1>2, <1>4, <1>9, <2>1 DEF CountInv, MessagesAccounted
<1>13. QED
  BY <1>4, <1>11, <1>12 DEF CountInv

\* A message less that waits, a client more that talks.
LEMMA TakeCounts ==
  ASSUME IInv, CountInv, NEW c \in Clients, Welcome(c) \/ Hear(c)
  PROVE  CountInv'
<1>0. TypeOK /\ DownOK /\ IsFiniteSet(Waiting)
  BY DEF IInv, CountInv
<1>1. /\ down[c] # <<>> /\ down' = [down EXCEPT ![c] = Tail(@)]
      /\ cpc[c] \in {"joining", "waiting"} /\ cpc' = [cpc EXCEPT ![c] = "talk"]
      /\ up' = up /\ spc' = spc /\ msg' = msg /\ map' = map /\ i' = i
  BY DEF Welcome, Hear, Goto, server
<1>2. IsFiniteSet(Waiting') /\ Cardinality(Waiting') = Cardinality(Waiting) - 1
  BY <1>0, <1>1, WaitingTaken
<1>3. cpc'[c] = "talk" /\ \A d \in Clients \ {c} : cpc'[d] = cpc[d]
  BY <1>0, <1>1 DEF TypeOK
<1>4. Talking' = Talking \cup {c} /\ c \notin Talking /\ Joined' = Joined
  BY <1>1, <1>3 DEF Joined, Talking
<1>5. /\ Len(up) \in Nat /\ Len(map) \in Nat /\ Cardinality(Talking) \in Nat
      /\ Cardinality(Waiting) \in Nat /\ IsFiniteSet(Talking)
  BY <1>0, Counts, FS_CardinalityType
<1>6. Cardinality(Talking') = Cardinality(Talking) + 1
  BY <1>4, <1>5, FS_AddElement
<1>7. NewInHand' = NewInHand /\ Owed' = Owed /\ NewIn(up)' = NewIn(up)
  BY <1>1 DEF NewInHand, Owed, NewIn
<1>8. Owed \in Int
  <2>1. i \in 0..(Len(map) + 1)
    BY <1>0 DEF TypeOK
  <2>2. QED
    BY <1>5, <2>1 DEF Owed
<1>9. EveryoneAnnounced'
  BY <1>1, <1>4, <1>7 DEF CountInv, EveryoneAnnounced
<1>10. MessagesAccounted'
  <2>1. Len(up) + Cardinality(Waiting') + Cardinality(Talking') + Owed + Len(map)
          = Len(up) + Cardinality(Waiting) + Cardinality(Talking) + Owed + Len(map)
    BY <1>2, <1>5, <1>6, <1>8
  <2>2. QED
    BY <1>1, <1>4, <1>7, <2>1 DEF CountInv, MessagesAccounted
<1>11. QED
  BY <1>2, <1>9, <1>10 DEF CountInv

LEMMA SpecCountInv == Spec => []CountInv
<1>1. IInv /\ CountInv /\ [Next]_vars => CountInv'
  <2> SUFFICES ASSUME IInv, CountInv, [Next]_vars PROVE CountInv'
    OBVIOUS
  <2>1. CASE Server
    BY <2>1, ReceiveCounts, AddNameCounts, SendListCounts, RelayCounts DEF Server
  <2>2. ASSUME NEW c \in Clients, Client(c) PROVE CountInv'
    BY <2>2, JoinCounts, TalkCounts, TakeCounts DEF Client
  <2>3. CASE UNCHANGED vars
    BY <2>3 DEF vars, server, client, CountInv, EveryoneAnnounced, MessagesAccounted, Waiting,
                Joined, Talking, NewIn, NewInHand, Owed
  <2>4. QED
    BY <2>1, <2>2, <2>3 DEF Next
<1>2. QED
  BY InitCountInv, SpecIInv, <1>1, PTL DEF Spec

\* n - m announcements and the lists of m rounds are no more than n rounds send.
LEMMA RoundsBound ==
  ASSUME NEW m \in Nat, NEW n \in Nat, m <= n
  PROVE  m * (m + 1) + 2 * (n - m) <= n * (n + 1)
<1>1. PICK d \in Nat : n = m + d
  <2>1. n - m \in Nat /\ n = m + (n - m)
    OBVIOUS
  <2>2. QED
    BY <2>1
<1>2. n * (n + 1) = m * (m + 1) + d * (2 * m + d + 1)
  BY <1>1
<1>3. d * (2 * m + d + 1) >= 2 * d
  <2>1. CASE d = 0
    BY <2>1
  <2>2. CASE d >= 1
    <3>1. d * (2 * m + d + 1) = d * (2 * m) + d * (d - 1) + 2 * d
      OBVIOUS
    <3>2. d * (2 * m) \in Nat /\ d * (d - 1) \in Nat
      <4>1. \A x, y \in Nat : x * y \in Nat
        OBVIOUS
      <4>2. 2 * m \in Nat /\ d - 1 \in Nat
        BY <2>2
      <4>3. QED
        BY <4>1, <4>2
    <3>3. \A x, y, z \in Nat : x + y + z >= z
      OBVIOUS
    <3>4. 2 * d \in Nat
      OBVIOUS
    <3>5. QED
      BY <3>1, <3>2, <3>3, <3>4
  <2>3. QED
    BY <2>1, <2>2
<1>4. QED
  <2> DEFINE x == n * (n + 1)
             y == m * (m + 1)
             z == d * (2 * m + d + 1)
  <2>1. x = y + z /\ z >= 2 * d /\ n - m = d /\ x \in Int /\ y \in Int /\ z \in Int
    BY <1>1, <1>2, <1>3
  <2> HIDE DEF x, y, z
  <2>2. y + 2 * (n - m) <= x
    BY <2>1
  <2>3. QED
    BY <2>2 DEF x, y

\* However long the chat goes on, and whomever the server takes a sender for,
\* the queues never hold more than n(n+1)/2 messages of the n clients that have
\* joined: the loop of server.c:194-201 and client.c:60-170, where everyone
\* waits for an answer, cannot fill them.
THEOREM QueuesBounded == Spec => []QueuesStayShort
<1>1. IInv /\ CountInv => QueuesStayShort
  <2> SUFFICES ASSUME IInv, CountInv PROVE QueuesStayShort
    OBVIOUS
  <2> DEFINE n == Cardinality(Joined)
             m == Len(map)
  <2>1. TypeOK /\ i \in 0..(m + 1)
    BY DEF IInv, TypeOK
  <2>2. /\ Len(up) \in Nat /\ m \in Nat /\ n \in Nat /\ Cardinality(NewIn(up)) \in Nat
        /\ Cardinality(Talking) \in Nat /\ Cardinality(Waiting) \in Nat
    BY <2>1, Counts, FS_CardinalityType DEF CountInv
  <2>3. Owed \in Nat /\ NewInHand \in Nat
    BY <2>1, <2>2 DEF Owed, NewInHand
  <2>4. m <= n
    BY <2>2, <2>3 DEF CountInv, EveryoneAnnounced
  <2>5. m * (m + 1) + 2 * (n - m) <= n * (n + 1)
    BY <2>2, <2>4, RoundsBound
  <2> DEFINE t == m * (m + 1)
             u == n * (n + 1)
  <2>6. /\ 2 * (Len(up) + Cardinality(Waiting) + Cardinality(Talking) + Owed + m) = 2 * n + t
        /\ t + 2 * (n - m) <= u /\ t \in Int /\ u \in Int
    BY <2>2, <2>5 DEF CountInv, MessagesAccounted
  <2> HIDE DEF n, m, t, u
  <2>7. 2 * (Len(up) + Cardinality(Waiting)) <= u
    BY <2>2, <2>3, <2>6
  <2>8. QED
    BY <2>7 DEF QueuesStayShort, u, n
<1>2. QED
  BY <1>1, SpecIInv, SpecCountInv, PTL

=============================================================================
