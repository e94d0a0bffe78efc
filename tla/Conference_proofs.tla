-------------------------- MODULE Conference_proofs --------------------------
(***************************************************************************)
(* Proofs about the conference, for every finite set of clients and any    *)
(* number of messages.  Nothing is assumed of the users: what one of them  *)
(* can spoil is stated for the behaviours in which nobody has spoilt it,   *)
(* with the history variables hasty (the list of pids) and together (one   *)
(* broadcast per message).                                                 *)
(***************************************************************************)
EXTENDS Conference, FiniteSetTheorems, SequenceTheorems, TLAPS

Inside(c)      == cpc[c] \in {"set2", "unlock"}
Registering(c) == rpc[c] \in {"registered", "died registering"}
Insiders       == {c \in Clients : cpc[c] \in {"set2", "unlock"}}
Registrants    == {c \in Clients : rpc[c] \in {"registered", "died registering"}}

\* There is a message wherever one is looked at.
Written ==
  /\ sem2 = 2 \/ spc = "copy" \/ (\E c \in Clients : Inside(c)) => ptrmsg \in Message
  /\ spc \in {"reset", "handle", "send"} => ptrmsg_copy \in Message

\* A user types no more than the bound.
WithinBound ==
  \A c \in Clients :
    cpc[c] \in {"wait", "claim", "lock"} /\ name[c] # "bye" => typed[c] < MaxTexts

\* A pid is listed once, by its receiver, as are those still to be sent to.
ListedOnce ==
  /\ IsInjective(members) /\ IsInjective(recipients)
  /\ \A k \in DOMAIN members : rpc[members[k]] \notin {"off", "boot"}

\* A receiver is forked by its sender.
Forked == \A c \in Clients : cpc[c] = "off" => rpc[c] = "off"

IInv == TypeOK /\ Written /\ WithinBound /\ OneInside /\ ListedOnce /\ Forked

\* While the server runs, what ends a receiver is its user's own bye, and unless
\* one was hasty, who has said bye had registered.
ByeEnds ==
  /\ \A c \in Clients : /\ rpc[c] = "off" => cpc[c] = "off"
                        /\ cpc[c] = "kill" => name[c] = "bye"
                        /\ alive /\ cpc[c] = "gone" => name[c] = "bye"
  /\ \A c \in sig : Left(c)
  /\ \A c \in Clients : alive /\ rpc[c] \in {"dead", "died registering"} => Left(c)

Registered ==
  alive /\ ~hasty => \A c \in Clients : rpc[c] \in {"boot", "registered"} => ~Left(c)

Exact == ByeEnds /\ Registered /\ MembersExact

\* All that has been sent to each client, printed or not, in order.
Sent == [c \in Clients |-> got[c] \o inbox[c]]

\* A number that no message of the client has had so far.
NextNumber == [c \in Clients |-> typed[c] + IF Left(c) THEN 1 ELSE 0]

\* Is the message in shared memory one that the server has not read yet?
Fresh == \/ \E c \in Clients : cpc[c] = "set2"
         \/ sem2 = 2 /\ spc # "reset"

\* Past line 126 and not yet past the setting of sem2 to 2.
Between == {"claim", "lock", "set2"}

\* As long as no two senders have gone past line 126 together, sem2 guards ptrmsg.
OneSender ==
  /\ \A c, d \in Clients : cpc[c] \in Between /\ cpc[d] \in Between => c = d
  /\ \A c \in Clients : /\ cpc[c] = "claim" => sem2 = 0
                        /\ cpc[c] \in {"lock", "set2"} => sem2 = 1
  /\ spc \in {"copy", "reset"} => sem2 = 2

\* A message's number is below its sender's next one.
Numbered ==
  /\ \A c \in Clients : \A k \in DOMAIN Sent[c] : Sent[c][k][3] < NextNumber[From(Sent[c][k])]
  /\ ptrmsg \in Message => ptrmsg[3] < NextNumber[From(ptrmsg)]
  /\ ptrmsg_copy \in Message => ptrmsg_copy[3] < NextNumber[From(ptrmsg_copy)]

\* Messages are sent on in the order of their numbers: whatever c has been sent
\* does not come after the server's copy, nor that after what is in ptrmsg.
NotAfter(m, n) == From(m) = From(n) => m[3] <= n[3]

Chained ==
  /\ \A c \in Clients : \A k \in DOMAIN Sent[c] :
       NotAfter(Sent[c][k], ptrmsg_copy) /\ NotAfter(Sent[c][k], ptrmsg)
  /\ ptrmsg_copy \in Message => NotAfter(ptrmsg_copy, ptrmsg)
  /\ \A c \in Clients : \A a, b \in DOMAIN Sent[c] : a < b => NotAfter(Sent[c][a], Sent[c][b])

\* With one sender at a time they are strictly older, while the copy is still to
\* be sent to c and while what is in ptrmsg is still to be copied.
Older(m, n) == From(m) = From(n) => m[3] < n[3]

FreshIsNew ==
  Fresh => /\ \A c \in Clients : \A k \in DOMAIN Sent[c] : Older(Sent[c][k], ptrmsg)
           /\ spc \in {"handle", "send"} => Older(ptrmsg_copy, ptrmsg)

CopyIsNew ==
  \A c \in Clients : \A k \in DOMAIN Sent[c] :
    spc \in {"reset", "handle"} \/ (spc = "send" /\ c \in ToSet(recipients))
      => Older(Sent[c][k], ptrmsg_copy)

AllOlder ==
  \A c \in Clients : \A a, b \in DOMAIN Sent[c] : a < b => Older(Sent[c][a], Sent[c][b])

OneByOne == OneSender /\ FreshIsNew /\ CopyIsNew /\ AllOlder

Ordered == Numbered /\ Chained /\ (~together => OneByOne)

-----------------------------------------------------------------------------
(* Sequences.                                                              *)

\* Appending what a list without repetitions does not hold repeats nothing.
LEMMA AppendNew ==
  ASSUME NEW S, NEW s \in Seq(S), NEW e \in S
  PROVE  /\ ToSet(Append(s, e)) = ToSet(s) \cup {e}
         /\ IsInjective(s) /\ e \notin ToSet(s) => IsInjective(Append(s, e))
<1> DEFINE r == Append(s, e)
           n == Len(s)
<1>1. /\ DOMAIN s = 1..n /\ n \in Nat /\ DOMAIN r = 1..(n + 1)
      /\ (\A j \in 1..n : r[j] = s[j]) /\ r[n + 1] = e
  BY LenProperties, AppendProperties
<1> HIDE DEF r, n
<1>2. ToSet(r) = ToSet(s) \cup {e}
  <2>1. \A j \in DOMAIN r : (j \in DOMAIN s /\ r[j] = s[j]) \/ (j = n + 1 /\ r[j] = e)
    BY <1>1
  <2>2. n + 1 \in DOMAIN r /\ r[n + 1] = e /\ \A j \in DOMAIN s : j \in DOMAIN r /\ r[j] = s[j]
    BY <1>1
  <2>3. QED
    BY <2>1, <2>2 DEF ToSet
<1>3. ASSUME IsInjective(s), e \notin ToSet(s) PROVE IsInjective(r)
  <2>1. \A j \in 1..n : s[j] # e
    BY <1>1, <1>3 DEF ToSet
  <2>2. SUFFICES ASSUME NEW a \in 1..(n + 1), NEW b \in 1..(n + 1), r[a] = r[b] PROVE a = b
    BY <1>1 DEF IsInjective
  <2>3. CASE a \in 1..n /\ b \in 1..n
    BY <1>1, <1>3, <2>2, <2>3 DEF IsInjective
  <2>4. CASE a = n + 1 \/ b = n + 1
    BY <1>1, <2>1, <2>2, <2>4
  <2>5. QED
    BY <1>1, <2>3, <2>4
<1>4. QED
  BY <1>2, <1>3 DEF r

\* What an index of the shortened list stands for.
LEMMA RemoveAtIndex ==
  ASSUME NEW S, NEW s \in Seq(S), NEW j \in 1..Len(s)
  PROVE  /\ RemoveAt(s, j) \in Seq(S) /\ Len(RemoveAt(s, j)) = Len(s) - 1
         /\ \A k \in 1..(Len(s) - 1) : RemoveAt(s, j)[k] = IF k < j THEN s[k] ELSE s[k + 1]
<1> DEFINE n == Len(s)
           front == SubSeq(s, 1, j - 1)
           back == SubSeq(s, j + 1, n)
<1>1. n \in Nat /\ j \in 1..n /\ \A k \in 1..n : s[k] \in S
  BY LenProperties, ElementOfSeq
<1>2. front \in Seq(S) /\ Len(front) = j - 1 /\ \A k \in 1..(j - 1) : front[k] = s[k]
  <2>1. /\ 1 \in Int /\ j - 1 \in Int /\ (\A k \in 1..(j - 1) : s[k] \in S)
        /\ (1 <= j - 1 \/ j - 1 = 0)
    BY <1>1
  <2>2. /\ front \in Seq(S) /\ Len(front) = IF 1 <= j - 1 THEN j - 1 - 1 + 1 ELSE 0
        /\ \A k \in 1..(j - 1 - 1 + 1) : front[k] = s[1 + k - 1]
    BY <2>1, SubSeqProperties, Z3
  <2> HIDE DEF front
  <2>3. QED
    BY <1>1, <2>1, <2>2
<1>3. back \in Seq(S) /\ Len(back) = n - j /\ \A k \in 1..(n - j) : back[k] = s[j + k]
  <2>1. n \in Int /\ j + 1 \in Int /\ \A k \in (j + 1)..n : s[k] \in S
    BY <1>1
  <2>2. /\ back \in Seq(S) /\ Len(back) = IF j + 1 <= n THEN n - (j + 1) + 1 ELSE 0
        /\ \A k \in 1..(n - (j + 1) + 1) : back[k] = s[j + 1 + k - 1]
    BY <2>1, SubSeqProperties, Z3
  <2> HIDE DEF back, n
  <2>3. QED
    BY <1>1, <2>2
<1> HIDE DEF front, back
<1>4. /\ front \o back \in Seq(S) /\ Len(front \o back) = Len(front) + Len(back)
      /\ \A k \in 1..(Len(front) + Len(back)) :
           (front \o back)[k] = IF k <= Len(front) THEN front[k] ELSE back[k - Len(front)]
  BY <1>2, <1>3, ConcatProperties
<1>5. RemoveAt(s, j) = front \o back
  BY DEF RemoveAt, front, back
<1> HIDE DEF n
<1>6. Len(front \o back) = n - 1
  BY <1>1, <1>2, <1>3, <1>4
<1>7. ASSUME NEW k \in 1..(n - 1)
      PROVE  (front \o back)[k] = IF k < j THEN s[k] ELSE s[k + 1]
  BY <1>1, <1>2, <1>3, <1>4
<1>8. QED
  BY <1>4, <1>5, <1>6, <1>7 DEF n

\* Taking one element out of a list without repetitions takes just that one.
LEMMA RemoveAtSet ==
  ASSUME NEW S, NEW s \in Seq(S), NEW j \in DOMAIN s, IsInjective(s)
  PROVE  /\ RemoveAt(s, j) \in Seq(S) /\ IsInjective(RemoveAt(s, j))
         /\ ToSet(RemoveAt(s, j)) = ToSet(s) \ {s[j]}
<1> DEFINE n == Len(s)
           r == RemoveAt(s, j)
<1>1. /\ n \in Nat /\ DOMAIN s = 1..n /\ j \in 1..n
      /\ r \in Seq(S) /\ Len(r) = n - 1
      /\ \A k \in 1..(n - 1) : r[k] = IF k < j THEN s[k] ELSE s[k + 1]
  BY LenProperties, RemoveAtIndex
<1>2. DOMAIN r = 1..(n - 1)
  BY <1>1, LenProperties
<1> HIDE DEF n, r
<1>3. \A k \in DOMAIN r : \E i \in DOMAIN s \ {j} :
         r[k] = s[i] /\ (k < j => i = k) /\ (~(k < j) => i = k + 1)
  <2>1. SUFFICES ASSUME NEW k \in DOMAIN r
                 PROVE  \E i \in DOMAIN s \ {j} :
                          r[k] = s[i] /\ (k < j => i = k) /\ (~(k < j) => i = k + 1)
    OBVIOUS
  <2>2. CASE k < j
    BY <1>1, <1>2, <2>1, <2>2
  <2>3. CASE ~(k < j)
    <3>1. k + 1 \in DOMAIN s \ {j} /\ r[k] = s[k + 1]
      BY <1>1, <1>2, <2>1, <2>3
    <3>2. QED
      BY <2>3, <3>1
  <2>4. QED
    BY <2>2, <2>3
<1>4. \A i \in DOMAIN s \ {j} : \E k \in DOMAIN r : r[k] = s[i]
  <2>1. SUFFICES ASSUME NEW i \in DOMAIN s \ {j} PROVE \E k \in DOMAIN r : r[k] = s[i]
    OBVIOUS
  <2>2. CASE i < j
    BY <1>1, <1>2, <2>1, <2>2
  <2>3. CASE i > j
    <3>1. i - 1 \in DOMAIN r /\ r[i - 1] = s[i]
      BY <1>1, <1>2, <2>1, <2>3
    <3>2. QED
      BY <3>1
  <2>4. QED
    BY <1>1, <2>1, <2>2, <2>3
<1>5. IsInjective(r)
  <2>1. SUFFICES ASSUME NEW a \in DOMAIN r, NEW b \in DOMAIN r, r[a] = r[b] PROVE a = b
    BY DEF IsInjective
  <2>2. PICK x \in DOMAIN s \ {j} : r[a] = s[x] /\ (a < j => x = a) /\ (~(a < j) => x = a + 1)
    BY <1>3
  <2>3. PICK y \in DOMAIN s \ {j} : r[b] = s[y] /\ (b < j => y = b) /\ (~(b < j) => y = b + 1)
    BY <1>3
  <2>4. x = y
    BY <2>1, <2>2, <2>3 DEF IsInjective
  <2>5. QED
    BY <1>1, <1>2, <2>2, <2>3, <2>4
<1>6. ToSet(r) = ToSet(s) \ {s[j]}
  BY <1>3, <1>4 DEF ToSet, IsInjective
<1>7. QED
  BY <1>1, <1>5, <1>6 DEF r

\* The rest of a list without repetitions does not hold its first element.
LEMMA TailSet ==
  ASSUME NEW S, NEW s \in Seq(S), s # <<>>
  PROVE  /\ Head(s) \in S /\ Tail(s) \in Seq(S) /\ ToSet(s) = ToSet(Tail(s)) \cup {Head(s)}
         /\ IsInjective(s) => IsInjective(Tail(s)) /\ Head(s) \notin ToSet(Tail(s))
<1> DEFINE n == Len(s)
           r == Tail(s)
<1>1. /\ n \in Nat \ {0} /\ DOMAIN s = 1..n /\ Head(s) = s[1] /\ Head(s) \in S
      /\ r \in Seq(S) /\ Len(r) = n - 1
  BY LenProperties, HeadTailProperties, EmptySeq
<1>2. DOMAIN r = 1..(n - 1) /\ \A k \in 1..(n - 1) : r[k] = s[k + 1]
  BY <1>1, LenProperties, HeadTailProperties
<1> HIDE DEF n, r
<1>3. /\ 1 \in DOMAIN s
      /\ \A k \in DOMAIN r : k + 1 \in DOMAIN s /\ k + 1 # 1 /\ r[k] = s[k + 1]
  BY <1>1, <1>2
<1>4. \A k \in DOMAIN s : k = 1 \/ (k - 1 \in DOMAIN r /\ r[k - 1] = s[k])
  BY <1>1, <1>2
<1>5. ToSet(s) = ToSet(r) \cup {Head(s)}
  <2>1. \A x \in ToSet(s) : x \in ToSet(r) \cup {Head(s)}
    BY <1>1, <1>4 DEF ToSet
  <2>2. \A x \in ToSet(r) \cup {Head(s)} : x \in ToSet(s)
    BY <1>1, <1>3 DEF ToSet
  <2>3. QED
    BY <2>1, <2>2
<1>6. ASSUME IsInjective(s) PROVE IsInjective(r) /\ Head(s) \notin ToSet(r)
  <2>1. Head(s) \notin ToSet(r)
    BY <1>1, <1>3, <1>6 DEF ToSet, IsInjective
  <2>2. ASSUME NEW a \in DOMAIN r, NEW b \in DOMAIN r, r[a] = r[b] PROVE a = b
    <3>1. a + 1 = b + 1
      BY <1>3, <1>6, <2>2 DEF IsInjective
    <3>2. QED
      BY <1>1, <1>2, <3>1
  <2>3. QED
    BY <2>1, <2>2 DEF IsInjective
<1>7. QED
  BY <1>1, <1>5, <1>6 DEF r

-----------------------------------------------------------------------------
(* The list of pids and sem1, whatever the users do.                       *)

\* The processes at some place are finitely many.
LEMMA CountFinite ==
  /\ IsFiniteSet(Insiders) /\ Cardinality(Insiders) \in Nat
  /\ IsFiniteSet(Registrants) /\ Cardinality(Registrants) \in Nat
<1>1. Insiders \in SUBSET Clients /\ Registrants \in SUBSET Clients
  BY DEF Insiders, Registrants
<1>2. QED
  BY <1>1, ConferenceAssumption, FS_Subset, FS_CardinalityType

\* While somebody is inside, sem1 is down.
LEMMA InsideDown ==
  ASSUME OneInside, TypeOK, alive, NEW c \in Clients, Inside(c) \/ Registering(c)
  PROVE  sem1 = 0
<1> DEFINE a == Cardinality(Insiders)
           b == Cardinality(Registrants)
<1>1. c \in Insiders \/ c \in Registrants
  BY DEF Inside, Registering, Insiders, Registrants
<1>2. a \in Nat /\ b \in Nat /\ (a # 0 \/ b # 0)
  BY <1>1, CountFinite, FS_EmptySet
<1>3. sem1 + a + b = 1 /\ sem1 \in {0, 1}
  BY DEF OneInside, TypeOK, Insiders, Registrants
<1> HIDE DEF a, b
<1>4. QED
  BY <1>2, <1>3

\* What down and up leave in sem1.
LEMMA SemStep ==
  ASSUME TypeOK
  PROVE  /\ Down1 => sem1' \in {0, 1}
         /\ (alive => sem1 = 0) /\ Up1 => sem1' \in {0, 1}
<1>1. sem1 \in {0, 1} /\ alive \in BOOLEAN
  BY DEF TypeOK
<1>2. CASE alive
  BY <1>1, <1>2 DEF Down1, Up1
<1>3. CASE ~alive
  BY <1>1, <1>3 DEF Down1, Up1
<1>4. QED
  BY <1>2, <1>3

LEMMA InitIInv == Init => IInv
<1> SUFFICES ASSUME Init PROVE IInv
  OBVIOUS
<1>1. (\A S : <<>> \in Seq(S)) /\ IsInjective(<<>>)
  BY EmptySeq DEF IsInjective
<1>2. TypeOK /\ Written /\ WithinBound
  BY <1>1, ConferenceAssumption DEF Init, TypeOK, Written, WithinBound, Inside
<1>3. ListedOnce /\ Forked
  BY <1>1 DEF Init, ListedOnce, Forked
<1>4. OneInside
  <2>1. Insiders = {} /\ Registrants = {} /\ sem1 = 1
    BY DEF Init, Insiders, Registrants
  <2>2. Cardinality(Insiders) = 0 /\ Cardinality(Registrants) = 0
    BY <2>1, FS_EmptySet
  <2>3. sem1 + Cardinality(Insiders) + Cardinality(Registrants) = 1
    BY <2>1, <2>2
  <2>4. QED
    BY <2>3 DEF OneInside, Insiders, Registrants
<1>5. QED
  BY <1>2, <1>3, <1>4 DEF IInv

\* What is written into ptrmsg is a message.
LEMMA WriteFacts ==
  ASSUME TypeOK, WithinBound, NEW c \in Clients, WriteMessage(c) \/ WriteBye(c)
  PROVE  sem1' \in {0, 1} /\ ptrmsg' \in Message /\ typed' \in [Clients -> 0..MaxTexts]
<1>1. sem1' \in {0, 1}
  BY SemStep DEF WriteMessage, WriteBye
<1>2. typed \in [Clients -> 0..MaxTexts] /\ typed[c] \in 0..MaxTexts /\ name[c] \in {"text", ".", "bye"}
  BY DEF TypeOK
<1>3. CASE WriteMessage(c)
  <2>1. name[c] \in {"text", "."} /\ typed[c] < MaxTexts
    BY <1>2, <1>3 DEF WriteMessage, WithinBound
  <2>2. typed[c] + 1 \in 0..MaxTexts
    BY <1>2, <2>1, ConferenceAssumption
  <2>3. ptrmsg' \in Message /\ typed' \in [Clients -> 0..MaxTexts]
    BY <1>2, <1>3, <2>1, <2>2 DEF WriteMessage, Message
  <2>4. QED
    BY <1>1, <2>3
<1>4. CASE WriteBye(c)
  BY <1>1, <1>2, <1>4 DEF WriteBye, Message
<1>5. QED
  BY <1>3, <1>4

LEMMA TypeStep ==
  ASSUME IInv, [Next]_vars
  PROVE  TypeOK'
<1> USE DEF server, sender, receiver, ServerGoto, Goto, ReceiverGoto
<1>0. TypeOK /\ Written /\ WithinBound /\ OneInside
  BY DEF IInv
<1>1. CASE ServerSees \/ CopyMessage \/ Reset \/ IgnoreDot \/ Terminate \/ ReadMembers
  BY <1>0, <1>1 DEF ServerSees, CopyMessage, Reset, IgnoreDot, Terminate, ReadMembers, TypeOK
<1>2. CASE Broadcast
  <2>1. CASE recipients = <<>>
    BY <1>0, <1>2, <2>1 DEF Broadcast, TypeOK
  <2>2. CASE recipients # <<>>
    <3>1. Head(recipients) \in Clients /\ Tail(recipients) \in Seq(Clients)
      BY <1>0, <2>2, HeadTailProperties DEF TypeOK
    <3>2. Append(inbox[Head(recipients)], ptrmsg_copy) \in Seq(Message)
      <4>1. inbox[Head(recipients)] \in Seq(Message)
        BY <1>0, <3>1 DEF TypeOK
      <4>2. ptrmsg_copy \in Message
        BY <1>0, <1>2 DEF Broadcast, Written
      <4>3. QED
        BY <4>1, <4>2
    <3>3. inbox' \in [Clients -> Seq(Message)]
      BY <1>0, <1>2, <2>2, <3>2 DEF Broadcast, TypeOK
    <3>4. QED
      BY <1>0, <1>2, <2>2, <3>1, <3>3 DEF Broadcast, TypeOK
  <2>3. QED
    BY <2>1, <2>2
<1>3. ASSUME NEW c \in Clients, SeeFree(c) \/ KillReceiver(c) \/ Start(c) PROVE TypeOK'
  BY ZenonT(60), <1>0, <1>3 DEF SeeFree, KillReceiver, Start, TypeOK
<1>4. ASSUME NEW c \in Clients, Claim(c) \/ Announce(c) PROVE TypeOK'
  BY ZenonT(60), <1>0, <1>4 DEF Claim, Announce, SetOrExit, TypeOK
<1>5. ASSUME NEW c \in Clients, NEW input \in {"text", ".", "bye"}, TypeIn(c, input) PROVE TypeOK'
  BY <1>0, <1>5 DEF TypeIn, TypeOK
<1>6. ASSUME NEW c \in Clients, WriteMessage(c) PROVE TypeOK'
  BY <1>0, <1>6, WriteFacts DEF WriteMessage, TypeOK
<1>7. ASSUME NEW c \in Clients, WriteBye(c) PROVE TypeOK'
  <2>1. sem1' \in {0, 1} /\ ptrmsg' \in Message
    BY <1>0, <1>7, WriteFacts
  <2>2. members' \in Seq(Clients)
    <3>1. members \in Seq(Clients) /\ IsInjective(members)
      BY <1>0 DEF TypeOK, IInv, ListedOnce
    <3>2. \A k \in DOMAIN members : RemoveAt(members, k) \in Seq(Clients)
      BY <3>1, RemoveAtSet
    <3>3. QED
      BY <1>7, <3>1, <3>2 DEF WriteBye, Unlist
  <2>3. QED
    BY <1>0, <1>7, <2>1, <2>2 DEF WriteBye, TypeOK
<1>8. ASSUME NEW c \in Clients, Unlock(c) \/ Listen(c) PROVE TypeOK'
  <2>1. sem1' \in {0, 1}
    <3>1. Inside(c) \/ Registering(c)
      BY <1>8 DEF Unlock, Listen, Inside, Registering
    <3>2. alive => sem1 = 0
      BY <1>0, <3>1, InsideDown
    <3>3. Up1
      BY <1>8 DEF Unlock, Listen
    <3>4. QED
      BY <1>0, <3>2, <3>3, SemStep
  <2>2. QED
    BY <1>0, <1>8, <2>1 DEF Unlock, Listen, TypeOK
<1>9. ASSUME NEW c \in Clients, Register(c) PROVE TypeOK'
  <2>1. sem1' \in {0, 1} /\ Append(members, c) \in Seq(Clients)
    <3>1. sem1' \in {0, 1}
      BY <1>0, <1>9, SemStep DEF Register
    <3>2. members \in Seq(Clients)
      BY <1>0 DEF TypeOK
    <3>3. QED
      BY <3>1, <3>2
  <2>2. QED
    BY <1>0, <1>9, <2>1 DEF Register, TypeOK
<1>10. ASSUME NEW c \in Clients, Receive(c) PROVE TypeOK'
  <2>1. Head(inbox[c]) \in Message /\ Tail(inbox[c]) \in Seq(Message)
    BY <1>0, <1>10, HeadTailProperties DEF Receive, TypeOK
  <2>2. Append(got[c], Head(inbox[c])) \in Seq(Message)
    <3>1. got[c] \in Seq(Message)
      BY <1>0 DEF TypeOK
    <3>2. QED
      BY <2>1, <3>1
  <2>3. QED
    BY <1>0, <1>10, <2>1, <2>2 DEF Receive, TypeOK
<1>11. ASSUME NEW c \in Clients, ReceiveFails(c) \/ Die(c) PROVE TypeOK'
  BY <1>0, <1>11 DEF ReceiveFails, Die, TypeOK
<1>12. CASE UNCHANGED vars
  BY <1>0, <1>12 DEF vars, TypeOK
<1>13. QED
  BY <1>1, <1>2, <1>3, <1>4, <1>5, <1>6, <1>7, <1>8, <1>9, <1>10, <1>11, <1>12
     DEF Next, Server, Sender, Receiver, User

LEMMA WrittenStep ==
  ASSUME IInv, [Next]_vars
  PROVE  Written' /\ WithinBound'
<1> USE DEF server, sender, receiver, ServerGoto, Goto, ReceiverGoto, Written, WithinBound, Inside
<1>0. TypeOK /\ Written /\ WithinBound
  BY DEF IInv
<1>1. CASE Server
  BY <1>0, <1>1 DEF Server, ServerSees, CopyMessage, Reset, IgnoreDot, Terminate, ReadMembers,
                    Broadcast
<1>2. ASSUME NEW c \in Clients, Claim(c) \/ SeeFree(c) \/ Unlock(c) \/ KillReceiver(c) \/ Start(c)
      PROVE  Written' /\ WithinBound'
  <2>1. UNCHANGED <<ptrmsg, spc, ptrmsg_copy, name, typed>> /\ (sem2' = 2 => sem2 = 2)
    BY <1>2 DEF Claim, SetOrExit, SeeFree, Unlock, KillReceiver, Start
  <2>2. \A d \in Clients \ {c} : cpc'[d] = cpc[d]
    BY <1>0, <1>2 DEF Claim, SetOrExit, SeeFree, Unlock, KillReceiver, Start, TypeOK
  <2>3. \/ cpc'[c] \in {"claim", "lock"} /\ cpc[c] \in {"wait", "claim"}
        \/ cpc'[c] \in {"idle", "kill", "gone"}
    BY <1>0, <1>2 DEF Claim, SetOrExit, SeeFree, Unlock, KillReceiver, Start, TypeOK
  <2>4. QED
    BY <1>0, <2>1, <2>2, <2>3
<1>3. ASSUME NEW c \in Clients, Announce(c) PROVE Written' /\ WithinBound'
  <2>1. /\ UNCHANGED <<ptrmsg, spc, ptrmsg_copy, name, typed>> /\ cpc[c] = "set2"
        /\ cpc'[c] \in {"unlock", "gone"} /\ \A d \in Clients \ {c} : cpc'[d] = cpc[d]
    BY <1>0, <1>3 DEF Announce, SetOrExit, TypeOK
  <2>2. QED
    BY <1>0, <2>1
<1>4. ASSUME NEW c \in Clients, NEW input \in {"text", ".", "bye"}, TypeIn(c, input)
      PROVE  Written' /\ WithinBound'
  <2>1. /\ UNCHANGED <<ptrmsg, spc, ptrmsg_copy, sem2, typed>>
        /\ cpc'[c] = "wait" /\ name'[c] = input /\ (input # "bye" => typed[c] < MaxTexts)
        /\ \A d \in Clients \ {c} : cpc'[d] = cpc[d] /\ name'[d] = name[d]
    BY <1>0, <1>4 DEF TypeIn, TypeOK
  <2>2. QED
    BY <1>0, <2>1
<1>5. ASSUME NEW c \in Clients, WriteMessage(c) \/ WriteBye(c) PROVE Written' /\ WithinBound'
  <2>1. /\ UNCHANGED <<spc, ptrmsg_copy, name, sem2>>
        /\ cpc'[c] = "set2" /\ \A d \in Clients \ {c} : cpc'[d] = cpc[d] /\ typed'[d] = typed[d]
    BY <1>0, <1>5 DEF WriteMessage, WriteBye, TypeOK
  <2>2. ptrmsg' \in Message
    BY <1>0, <1>5, WriteFacts
  <2>3. QED
    BY <1>0, <2>1, <2>2
<1>6. ASSUME NEW c \in Clients, Receiver(c) PROVE Written' /\ WithinBound'
  BY <1>0, <1>6 DEF Receiver, Register, Listen, Receive, ReceiveFails, Die
<1>7. CASE UNCHANGED vars
  BY <1>0, <1>7 DEF vars
<1>8. QED
  BY <1>1, <1>2, <1>3, <1>4, <1>5, <1>6, <1>7 DEF Next, Sender, User

\* How many are inside or registering changes with sem1.
LEMMA InsideStep ==
  ASSUME IInv, [Next]_vars
  PROVE  OneInside'
<1> USE DEF server, sender, receiver, ServerGoto, Goto, ReceiverGoto
<1>0. TypeOK /\ OneInside /\ Forked
  BY DEF IInv
<1>1. SUFFICES ASSUME alive'
               PROVE  sem1' + Cardinality(Insiders') + Cardinality(Registrants') = 1
  BY DEF OneInside, Insiders, Registrants
<1> DEFINE a == Cardinality(Insiders)
           b == Cardinality(Registrants)
           x == Cardinality(Insiders')
           y == Cardinality(Registrants')
<1>2. /\ a \in Nat /\ b \in Nat /\ IsFiniteSet(Insiders) /\ IsFiniteSet(Registrants)
      /\ sem1 \in {0, 1}
  BY <1>0, CountFinite DEF TypeOK
<1>3. alive => sem1 + a + b = 1
  BY <1>0 DEF OneInside, Insiders, Registrants
<1>4. CASE Insiders' = Insiders /\ Registrants' = Registrants /\ sem1' = sem1 /\ alive
  BY <1>3, <1>4
<1>5. ASSUME NEW c \in Clients, c \notin Insiders, Insiders' = Insiders \cup {c},
             Registrants' = Registrants, Down1, alive
      PROVE  sem1' + x + y = 1
  <2>1. x = a + 1 /\ y = b
    BY <1>2, <1>5, FS_AddElement
  <2>2. sem1' = sem1 - 1
    BY <1>5 DEF Down1
  <2> HIDE DEF a, b, x, y
  <2>3. QED
    BY <1>2, <1>3, <1>5, <2>1, <2>2
<1>6. ASSUME NEW c \in Clients, c \in Insiders, Insiders' = Insiders \ {c},
             Registrants' = Registrants, Up1, alive
      PROVE  sem1' + x + y = 1
  <2>1. x = a - 1 /\ y = b
    BY <1>2, <1>6, FS_RemoveElement
  <2>2. sem1' = sem1 + 1
    BY <1>6 DEF Up1
  <2> HIDE DEF a, b, x, y
  <2>3. QED
    BY <1>2, <1>3, <1>6, <2>1, <2>2
<1>7. ASSUME NEW c \in Clients, c \notin Registrants, Registrants' = Registrants \cup {c},
             Insiders' = Insiders, Down1, alive
      PROVE  sem1' + x + y = 1
  <2>1. y = b + 1 /\ x = a
    BY <1>2, <1>7, FS_AddElement
  <2>2. sem1' = sem1 - 1
    BY <1>7 DEF Down1
  <2> HIDE DEF a, b, x, y
  <2>3. QED
    BY <1>2, <1>3, <1>7, <2>1, <2>2
<1>8. ASSUME NEW c \in Clients, c \in Registrants, Registrants' = Registrants \ {c},
             Insiders' = Insiders, Up1, alive
      PROVE  sem1' + x + y = 1
  <2>1. y = b - 1 /\ x = a
    BY <1>2, <1>8, FS_RemoveElement
  <2>2. sem1' = sem1 + 1
    BY <1>8 DEF Up1
  <2> HIDE DEF a, b, x, y
  <2>3. QED
    BY <1>2, <1>3, <1>8, <2>1, <2>2
<1> HIDE DEF a, b, x, y
<1> USE DEF Insiders, Registrants, TypeOK
<1>9. CASE Server
  <2>1. UNCHANGED <<cpc, rpc, sem1>> /\ alive
    BY <1>1, <1>9 DEF Server, ServerSees, CopyMessage, Reset, IgnoreDot, Terminate, ReadMembers,
                      Broadcast
  <2>2. QED
    BY <1>4, <2>1 DEF x, y
<1>10. ASSUME NEW c \in Clients,
              SeeFree(c) \/ Claim(c) \/ Announce(c) \/ KillReceiver(c) \/ Start(c)
              \/ (\E input \in {"text", ".", "bye"} : TypeIn(c, input))
       PROVE  sem1' + x + y = 1
  <2>1. sem1' = sem1 /\ alive
    BY <1>1, <1>10 DEF SeeFree, Claim, Announce, SetOrExit, KillReceiver, Start, TypeIn
  <2>2. /\ cpc[c] \in {"set2", "unlock"} <=> cpc'[c] \in {"set2", "unlock"}
        /\ \A d \in Clients \ {c} : cpc'[d] = cpc[d]
    BY ZenonT(60), <1>0, <1>10, <2>1 DEF SeeFree, Claim, Announce, SetOrExit, KillReceiver, Start, TypeIn
  <2>3. \A d \in Clients : rpc'[d] \in {"registered", "died registering"}
                             <=> rpc[d] \in {"registered", "died registering"}
    <3>1. CASE Start(c)
      <4>1. rpc[c] = "off" /\ rpc' = [rpc EXCEPT ![c] = "boot"]
        BY <1>0, <3>1 DEF Start, Forked
      <4>2. QED
        BY <1>0, <4>1
    <3>2. CASE ~Start(c)
      BY <1>0, <1>10, <3>2 DEF SeeFree, Claim, Announce, SetOrExit, KillReceiver, TypeIn
    <3>3. QED
      BY <3>1, <3>2
  <2>4. Insiders' = Insiders /\ Registrants' = Registrants
    BY <2>2, <2>3
  <2>5. QED
    BY <1>4, <2>1, <2>4 DEF x, y
<1>11. ASSUME NEW c \in Clients, WriteMessage(c) \/ WriteBye(c) PROVE sem1' + x + y = 1
  <2>1. /\ UNCHANGED rpc /\ alive /\ Down1
        /\ cpc[c] = "lock" /\ cpc' = [cpc EXCEPT ![c] = "set2"]
    BY <1>0, <1>1, <1>11 DEF WriteMessage, WriteBye
  <2>2. c \notin Insiders /\ Insiders' = Insiders \cup {c} /\ Registrants' = Registrants
    BY <1>0, <2>1
  <2>3. QED
    BY <1>5, <2>1, <2>2
<1>12. ASSUME NEW c \in Clients, Unlock(c) PROVE sem1' + x + y = 1
  <2>1. UNCHANGED rpc /\ alive /\ Up1 /\ c \in Insiders /\ Insiders' = Insiders \ {c}
    BY <1>0, <1>1, <1>12 DEF Unlock
  <2>2. QED
    BY <1>6, <2>1
<1>13. ASSUME NEW c \in Clients, Register(c) PROVE sem1' + x + y = 1
  <2>1. /\ UNCHANGED cpc /\ alive /\ Down1 /\ c \notin Registrants
        /\ Registrants' = Registrants \cup {c}
    BY <1>0, <1>1, <1>13 DEF Register
  <2>2. QED
    BY <1>7, <2>1
<1>14. ASSUME NEW c \in Clients, Listen(c) PROVE sem1' + x + y = 1
  <2>1. /\ UNCHANGED cpc /\ alive /\ Up1 /\ c \in Registrants
        /\ Registrants' = Registrants \ {c}
    BY <1>0, <1>1, <1>14 DEF Listen
  <2>2. QED
    BY <1>8, <2>1
<1>15. ASSUME NEW c \in Clients, Receive(c) \/ ReceiveFails(c) \/ Die(c) PROVE sem1' + x + y = 1
  <2>1. UNCHANGED <<cpc, sem1>> /\ alive /\ Insiders' = Insiders
    BY <1>1, <1>15 DEF Receive, ReceiveFails, Die
  <2>2. \A d \in Clients : rpc'[d] \in {"registered", "died registering"}
                             <=> rpc[d] \in {"registered", "died registering"}
    BY ZenonT(60), <1>0, <1>15, <2>1 DEF Receive, ReceiveFails, Die
  <2>3. QED
    BY <1>4, <2>1, <2>2 DEF x, y
<1>16. CASE UNCHANGED vars
  <2>1. UNCHANGED <<cpc, rpc, sem1>> /\ alive
    BY <1>1, <1>16 DEF vars
  <2>2. QED
    BY <1>4, <2>1 DEF x, y
<1>17. QED
  BY <1>9, <1>10, <1>11, <1>12, <1>13, <1>14, <1>15, <1>16
     DEF Next, Sender, Receiver, User, x, y

\* A pid is put into a list once.
LEMMA ListedStep ==
  ASSUME IInv, [Next]_vars
  PROVE  ListedOnce' /\ Forked'
<1> USE DEF server, sender, receiver, ServerGoto, Goto, ReceiverGoto
<1>0. /\ TypeOK /\ ListedOnce /\ Forked
      /\ members \in Seq(Clients) /\ recipients \in Seq(Clients)
      /\ IsInjective(members) /\ IsInjective(recipients)
  BY DEF IInv, TypeOK, ListedOnce
<1>a. \A k \in DOMAIN members : members[k] \in Clients
  BY <1>0, ElementOfSeq, LenProperties
<1>1. Forked'
  <2>1. CASE Server \/ (UNCHANGED vars)
    BY <1>0, <2>1 DEF vars, Forked, Server, ServerSees, CopyMessage, Reset, IgnoreDot, Terminate,
                      ReadMembers, Broadcast
  <2>a. cpc \in [Clients -> {"off", "idle", "wait", "claim", "lock", "set2", "unlock", "kill", "gone"}]
    BY <1>0 DEF TypeOK
  <2>b. rpc \in [Clients -> {"off", "boot", "registered", "listen", "dead", "died registering"}]
    BY <1>0 DEF TypeOK
  <2>2. ASSUME NEW c \in Clients, Sender(c) \/ User(c) PROVE Forked'
    <3>1. CASE Sender(c)
      <4>1. /\ UNCHANGED rpc /\ cpc[c] # "off"
            /\ \A d \in Clients \ {c} : cpc'[d] = cpc[d]
        BY <2>a, <3>1 DEF Sender, SeeFree, Claim, SetOrExit, WriteMessage, WriteBye, Announce, Unlock,
                          KillReceiver
      <4>2. cpc'[c] # "off"
        BY <2>a, <3>1 DEF Sender, SeeFree, Claim, SetOrExit, WriteMessage, WriteBye, Announce, Unlock,
                          KillReceiver
      <4>3. QED
        BY <1>0, <4>1, <4>2 DEF Forked
    <3>2. CASE User(c)
      BY <1>0, <2>a, <2>b, <3>2 DEF User, Start, TypeIn, Forked
    <3>3. QED
      BY <2>2, <3>1, <3>2
  <2>3. ASSUME NEW c \in Clients, Receiver(c) PROVE Forked'
    BY <1>0, <2>b, <2>3 DEF Receiver, Forked, Register, Listen, Receive, ReceiveFails, Die
  <2>4. QED
    BY <2>1, <2>2, <2>3 DEF Next
<1>2. \A d \in Clients : rpc[d] \notin {"off", "boot"} => rpc'[d] \notin {"off", "boot"}
  <2>1. CASE Server \/ (UNCHANGED vars)
    BY <1>0, <2>1 DEF vars, Server, ServerSees, CopyMessage, Reset, IgnoreDot, Terminate,
                      ReadMembers, Broadcast
  <2>2. ASSUME NEW c \in Clients, Sender(c) \/ User(c)
        PROVE  UNCHANGED rpc \/ (rpc[c] = "off" /\ rpc' = [rpc EXCEPT ![c] = "boot"])
    BY <1>0, <2>2 DEF Sender, User, Forked, SeeFree, Claim, WriteMessage, WriteBye, Announce,
                      Unlock, KillReceiver, Start, TypeIn
  <2>3. ASSUME NEW c \in Clients, Receiver(c), NEW d \in Clients, rpc[d] \notin {"off", "boot"}
        PROVE  rpc'[d] \notin {"off", "boot"}
    BY <1>0, <2>3 DEF Receiver, TypeOK, Register, Listen, Receive, ReceiveFails, Die
  <2>4. QED
    BY <1>0, <2>1, <2>2, <2>3 DEF Next, TypeOK
<1>3. ASSUME members' = members PROVE \A k \in DOMAIN members' : rpc'[members'[k]] \notin {"off", "boot"}
  BY <1>0, <1>a, <1>2, <1>3 DEF ListedOnce
<1>4. CASE UNCHANGED <<members, recipients>>
  <2>1. IsInjective(members') /\ IsInjective(recipients')
    BY <1>0, <1>4
  <2>2. QED
    BY <1>1, <1>3, <1>4, <2>1 DEF ListedOnce
<1>5. CASE Server
  <2>1. CASE ReadMembers
    <3>1. members' = members /\ recipients' = members
      BY <2>1 DEF ReadMembers
    <3>2. IsInjective(members') /\ IsInjective(recipients')
      BY <1>0, <3>1
    <3>3. QED
      BY <1>1, <1>3, <3>1, <3>2 DEF ListedOnce
  <2>2. CASE Broadcast /\ recipients # <<>>
    <3>1. IsInjective(Tail(recipients))
      BY <1>0, <2>2, TailSet
    <3>2. members' = members /\ recipients' = Tail(recipients)
      BY <2>2 DEF Broadcast
    <3>3. IsInjective(members') /\ IsInjective(recipients')
      BY <1>0, <3>1, <3>2
    <3>4. QED
      BY <1>1, <1>3, <3>2, <3>3 DEF ListedOnce
  <2>3. QED
    BY <1>4, <1>5, <2>1, <2>2 DEF Server, ServerSees, CopyMessage, Reset, IgnoreDot, Terminate,
                                 Broadcast
<1>6. ASSUME NEW c \in Clients, WriteBye(c) PROVE ListedOnce'
  <2>1. CASE UNCHANGED members
    BY <1>4, <1>6, <2>1 DEF WriteBye
  <2>2. ASSUME NEW k \in DOMAIN members, members' = RemoveAt(members, k) PROVE ListedOnce'
    <3>1. /\ members' \in Seq(Clients) /\ IsInjective(members')
          /\ ToSet(members') \in SUBSET ToSet(members)
      BY <1>0, <2>2, RemoveAtSet
    <3>2. \A j \in DOMAIN members' : rpc[members'[j]] \notin {"off", "boot"}
      BY <1>0, <3>1 DEF ToSet, ListedOnce
    <3>3. UNCHANGED <<rpc, recipients>>
      BY <1>6 DEF WriteBye
    <3>4. QED
      BY <1>0, <3>1, <3>2, <3>3 DEF ListedOnce
  <2>3. QED
    BY <1>6, <2>1, <2>2 DEF WriteBye, Unlist
<1>7. ASSUME NEW c \in Clients, Register(c) PROVE ListedOnce'
  <2>1. /\ members' = Append(members, c) /\ UNCHANGED recipients
        /\ rpc' = [rpc EXCEPT ![c] = "registered"] /\ rpc[c] = "boot"
    BY <1>7 DEF Register
  <2>2. c \notin ToSet(members)
    BY <2>1, <1>0 DEF ToSet, ListedOnce
  <2>3. ToSet(members') = ToSet(members) \cup {c} /\ IsInjective(members')
    BY <1>0, <2>1, <2>2, AppendNew
  <2>4. \A d \in ToSet(members') : rpc'[d] \notin {"off", "boot"}
    <3>1. \A d \in ToSet(members) : d \in Clients /\ rpc[d] \notin {"off", "boot"}
      BY <1>0, <1>a DEF ToSet, ListedOnce
    <3>2. rpc \in [Clients -> {"off", "boot", "registered", "listen", "dead", "died registering"}]
      BY <1>0 DEF TypeOK
    <3>3. QED
      BY <2>1, <2>3, <3>1, <3>2
  <2>5. QED
    BY <1>0, <2>1, <2>3, <2>4 DEF ToSet, ListedOnce
<1>8. ASSUME NEW c \in Clients,
             \/ SeeFree(c) \/ Claim(c) \/ WriteMessage(c) \/ Announce(c) \/ Unlock(c)
             \/ KillReceiver(c) \/ User(c)
             \/ Listen(c) \/ Receive(c) \/ ReceiveFails(c) \/ Die(c)
      PROVE  ListedOnce'
  BY <1>4, <1>8 DEF SeeFree, Claim, WriteMessage, Announce, Unlock, KillReceiver, User,
                    Start, TypeIn, Listen, Receive, ReceiveFails, Die
<1>9. CASE UNCHANGED vars
  BY <1>4, <1>9 DEF vars
<1>10. QED
  BY <1>1, <1>5, <1>6, <1>7, <1>8, <1>9 DEF Next, Sender, Receiver

LEMMA SpecIInv == Spec => []IInv
<1>1. IInv /\ [Next]_vars => IInv'
  <2> SUFFICES ASSUME IInv, [Next]_vars PROVE IInv'
    OBVIOUS
  <2>1. TypeOK' /\ Written' /\ WithinBound' /\ OneInside' /\ ListedOnce' /\ Forked'
    BY TypeStep, WrittenStep, InsideStep, ListedStep
  <2>2. QED
    BY <2>1 DEF IInv
<1>2. QED
  BY InitIInv, <1>1, PTL DEF Spec

\* The semaphores keep to their values and the lists hold pids, the server's
\* copy of a message is one, and none is numbered above the bound: after any
\* run of server.c and the clients.
THEOREM TypeCorrect == Spec => []TypeOK
<1>1. IInv => TypeOK
  BY DEF IInv
<1>2. QED
  BY SpecIInv, <1>1, PTL

\* Two processes never work on the list of pids at once (semaphore sem1 of
\* client.c:133-175 and 247-254), however many clients there are,
\* whatever users type, and with receivers killed in the middle.
THEOREM OneAtATime == Spec => []OneInside
<1>1. IInv => OneInside
  BY DEF IInv
<1>2. QED
  BY SpecIInv, <1>1, PTL

-----------------------------------------------------------------------------
(* The list is exact, until a hasty bye.                                   *)

\* Nobody who has left comes back, and while the conference lasts nobody leaves
\* but by a bye.
LEMMA LeftStep ==
  ASSUME TypeOK, [Next]_vars
  PROVE  \A d \in Clients : /\ Left(d) => Left(d)'
                            /\ alive => (Left(d)' <=> (Left(d) \/ WriteBye(d)))
<1> USE DEF Left, TypeOK, Goto
<1>1. ASSUME NEW c \in Clients, WriteBye(c), NEW d \in Clients
      PROVE  Left(d)' <=> (Left(d) \/ WriteBye(d))
  <2>1. cpc[c] = "lock" /\ name[c] = "bye" /\ name' = name /\ cpc' = [cpc EXCEPT ![c] = "set2"]
    BY <1>1 DEF WriteBye, sender
  <2>2. CASE d = c
    BY <1>1, <2>1, <2>2
  <2>3. CASE d # c
    <3>1. ~WriteBye(d)
      <4>1. cpc' # [cpc EXCEPT ![d] = "set2"] \/ cpc[d] # "lock"
        BY <2>1, <2>3
      <4>2. QED
        BY <4>1 DEF WriteBye
    <3>2. QED
      BY <2>1, <2>3, <3>1
  <2>4. QED
    BY <2>2, <2>3
<1>2. ASSUME \A d \in Clients : ~WriteBye(d), NEW d \in Clients
      PROVE  /\ Left(d) => Left(d)'
             /\ alive => (Left(d)' <=> Left(d))
  <2>1. CASE Server \/ (UNCHANGED vars)
    BY <2>1 DEF vars, sender, Server, ServerSees, CopyMessage, Reset, IgnoreDot, Terminate, ReadMembers,
                Broadcast
  <2>2. ASSUME NEW c \in Clients, Sender(c)
        PROVE  /\ Left(d) => Left(d)'
               /\ alive => (Left(d)' <=> Left(d))
    <3>1. SeeFree(c) \/ Claim(c) \/ WriteMessage(c) \/ Announce(c) \/ Unlock(c) \/ KillReceiver(c)
      BY <1>2, <2>2 DEF Sender
    <3>2. UNCHANGED name /\ \A e \in Clients \ {c} : cpc'[e] = cpc[e]
      BY <3>1 DEF SeeFree, Claim, SetOrExit, WriteMessage, Announce, Unlock, KillReceiver
    <3>3. /\ Left(c) => Left(c)'
          /\ alive => (Left(c)' <=> Left(c))
      <4>1. CASE SeeFree(c) \/ Claim(c) \/ WriteMessage(c)
        BY <4>1 DEF SeeFree, Claim, SetOrExit, WriteMessage
      <4>2. CASE Announce(c) \/ Unlock(c) \/ KillReceiver(c)
        BY <4>2 DEF Announce, SetOrExit, Unlock, KillReceiver
      <4>3. QED
        BY <3>1, <4>1, <4>2
    <3>4. QED
      BY <3>2, <3>3
  <2>3. ASSUME NEW c \in Clients, Receiver(c) PROVE Left(d)' <=> Left(d)
    BY <2>3 DEF Receiver, Register, Listen, Receive, ReceiveFails, Die, sender
  <2>4. ASSUME NEW c \in Clients, User(c) PROVE Left(d)' <=> Left(d)
    <3>1. /\ cpc[c] \in {"off", "idle"} /\ cpc'[c] \in {"idle", "wait"}
          /\ \A e \in Clients \ {c} : cpc'[e] = cpc[e] /\ name'[e] = name[e]
      BY ZenonT(60), <2>4 DEF User, Start, TypeIn
    <3>2. QED
      BY <3>1
  <2>5. QED
    BY <2>1, <2>2, <2>3, <2>4 DEF Next
<1>3. QED
  BY <1>1, <1>2

LEMMA ByeStep ==
  ASSUME IInv, ByeEnds, [Next]_vars
  PROVE  ByeEnds'
<1> USE DEF sender, receiver, server, ServerGoto, Goto, ReceiverGoto
<1>0. TypeOK /\ Forked /\ alive' \in BOOLEAN
  <2>1. TypeOK'
    BY TypeStep
  <2>2. QED
    BY <2>1 DEF IInv, TypeOK
<1>1. \A d \in Clients : Left(d) => Left(d)'
  BY <1>0, LeftStep
<1>2. CASE Server \/ (UNCHANGED vars)
  <2>1. UNCHANGED <<cpc, rpc, name, sig>> /\ (alive' => alive)
    BY <1>2 DEF vars, Server, ServerSees, CopyMessage, Reset, IgnoreDot, Terminate, ReadMembers, Broadcast
  <2>2. QED
    BY <1>1, <2>1 DEF ByeEnds, Left
<1>3. ASSUME NEW c \in Clients, SeeFree(c) \/ Claim(c) \/ WriteMessage(c) \/ WriteBye(c) \/ Announce(c)
      PROVE  ByeEnds'
  <2>1. /\ UNCHANGED <<rpc, name, sig, alive>> /\ \A d \in Clients \ {c} : cpc'[d] = cpc[d]
        /\ cpc[c] \in {"wait", "claim", "lock", "set2"}
        /\ cpc'[c] \in {"claim", "lock", "set2", "unlock"} \/ (~alive /\ cpc'[c] = "gone")
    BY <1>0, <1>3 DEF SeeFree, Claim, SetOrExit, WriteMessage, WriteBye, Announce, TypeOK
  <2>2. rpc[c] # "off"
    BY <2>1 DEF ByeEnds
  <2>3. \A d \in Clients : rpc[d] = "off" => cpc'[d] = "off"
    BY <2>1, <2>2 DEF ByeEnds
  <2>4. \A d \in Clients : cpc'[d] = "kill" \/ (alive /\ cpc'[d] = "gone") => name[d] = "bye"
    BY <2>1 DEF ByeEnds
  <2>5. QED
    BY <1>0, <1>1, <2>1, <2>3, <2>4 DEF ByeEnds, TypeOK
<1>4. ASSUME NEW c \in Clients, Unlock(c) \/ KillReceiver(c) PROVE ByeEnds'
  <2>1. /\ UNCHANGED <<rpc, name, alive>> /\ \A d \in Clients \ {c} : cpc'[d] = cpc[d]
        /\ cpc[c] \in {"unlock", "kill"} /\ sig' \in SUBSET (sig \cup {c})
        /\ \/ cpc'[c] = "idle" /\ sig' = sig
           \/ cpc'[c] = "kill" /\ name[c] = "bye" /\ sig' = sig
           \/ cpc'[c] = "gone" /\ cpc[c] = "kill"
    BY <1>0, <1>4 DEF Unlock, KillReceiver, TypeOK
  <2>2. cpc[c] = "kill" => name[c] = "bye"
    BY DEF ByeEnds
  <2>3. \A d \in Clients : rpc[d] = "off" => cpc'[d] = "off"
    BY <2>1 DEF ByeEnds
  <2>4. \A d \in Clients : cpc'[d] = "kill" \/ (alive /\ cpc'[d] = "gone") => name[d] = "bye"
    BY <2>1, <2>2 DEF ByeEnds
  <2>5. \A d \in sig' : Left(d)'
    <3>1. \A d \in sig : Left(d)'
      BY <1>0, <1>1 DEF ByeEnds, TypeOK
    <3>2. c \in sig' \ sig => Left(c)'
      BY <2>1, <2>2 DEF Left
    <3>3. QED
      BY <2>1, <3>1, <3>2
  <2>6. QED
    BY <1>1, <2>1, <2>3, <2>4, <2>5 DEF ByeEnds
<1>5. ASSUME NEW c \in Clients, User(c) PROVE ByeEnds'
  <2>1. /\ UNCHANGED <<sig, alive>> /\ \A d \in Clients \ {c} : /\ cpc'[d] = cpc[d] /\ name'[d] = name[d]
                                                               /\ rpc'[d] = rpc[d]
        /\ \/ cpc'[c] = "idle" /\ rpc'[c] = "boot"
           \/ rpc'[c] = rpc[c] /\ cpc[c] = "idle" /\ cpc'[c] = "wait"
    BY <1>0, <1>5 DEF User, Start, TypeIn, TypeOK
  <2>2. \A d \in sig : Left(d)'
    BY <1>0, <1>1 DEF ByeEnds, TypeOK
  <2>3. \A d \in Clients : rpc'[d] = "off" => cpc'[d] = "off"
    BY <2>1 DEF ByeEnds
  <2>4. \A d \in Clients : cpc'[d] = "kill" \/ (alive /\ cpc'[d] = "gone") => name'[d] = "bye"
    BY <2>1 DEF ByeEnds
  <2>5. \A d \in Clients : alive /\ rpc'[d] \in {"dead", "died registering"} => Left(d)'
    BY <1>1, <2>1 DEF ByeEnds
  <2>6. QED
    BY <2>1, <2>2, <2>3, <2>4, <2>5 DEF ByeEnds
<1>6. ASSUME NEW c \in Clients, Receiver(c) PROVE ByeEnds'
  <2>1. /\ UNCHANGED <<sig, alive, cpc, name>> /\ \A d \in Clients \ {c} : rpc'[d] = rpc[d]
        /\ rpc[c] # "off" /\ rpc'[c] # "off"
        /\ rpc'[c] \in {"dead", "died registering"} => ~alive \/ c \in sig
    BY <1>0, <1>6 DEF Receiver, Register, Listen, Receive, ReceiveFails, Die, TypeOK
  <2>2. \A d \in sig : Left(d)'
    BY <1>0, <1>1 DEF ByeEnds, TypeOK
  <2>3. \A d \in Clients : rpc'[d] = "off" => cpc[d] = "off"
    BY <2>1 DEF ByeEnds
  <2>4. \A d \in Clients : cpc[d] = "kill" \/ (alive /\ cpc[d] = "gone") => name[d] = "bye"
    BY DEF ByeEnds
  <2>5. \A d \in Clients : alive /\ rpc'[d] \in {"dead", "died registering"} => Left(d)'
    BY <1>1, <2>1, <2>2 DEF ByeEnds
  <2>6. QED
    BY <2>1, <2>2, <2>3, <2>4, <2>5 DEF ByeEnds
<1>7. QED
  BY <1>2, <1>3, <1>4, <1>5, <1>6 DEF Next, Sender

\* The server does not come back, and what a user spoils stays spoilt.
LEMMA StaysExact ==
  ASSUME [Next]_vars, alive', ~hasty'
  PROVE  alive /\ ~hasty
<1>1. (UNCHANGED hasty) \/ \E c \in Clients : WriteBye(c)
  BY DEF Next, past, vars, Server, Sender, Receiver, User, ServerSees, CopyMessage, Reset,
         IgnoreDot, Terminate, ReadMembers, Broadcast, SeeFree, Claim, WriteMessage, Announce,
         Unlock, KillReceiver, Register, Listen, Receive, ReceiveFails, Die, Start, TypeIn
<1>2. ASSUME NEW c \in Clients, WriteBye(c) PROVE ~hasty
  <2>1. hasty' = (hasty \/ rpc[c] = "boot")
    BY <1>2 DEF WriteBye
  <2>2. QED
    BY <2>1
<1>3. alive
  BY DEF Next, vars, Server, Sender, Receiver, User, ServerSees, CopyMessage, Reset, IgnoreDot,
         Terminate, ReadMembers, Broadcast, SeeFree, Claim, WriteMessage, WriteBye, Announce,
         Unlock, KillReceiver, Register, Listen, Receive, ReceiveFails, Die, Start, TypeIn
<1>4. QED
  BY <1>1, <1>2, <1>3

\* A receiver at its start has a user that has not left, and no user leaves while
\* the receiver has sem1.
LEMMA RegisteredStep ==
  ASSUME IInv, ByeEnds, Registered, [Next]_vars
  PROVE  Registered'
<1> USE DEF sender, receiver, server, ServerGoto, Goto, ReceiverGoto
<1>0. TypeOK /\ Forked /\ OneInside
  BY DEF IInv
<1>1. SUFFICES ASSUME ~hasty', alive', NEW d \in Clients, rpc'[d] \in {"boot", "registered"}
               PROVE  ~Left(d)'
  BY DEF Registered
<1>2. alive /\ ~hasty
  BY <1>1, StaysExact
<1>3. CASE Start(d)
  <2>1. cpc[d] = "off" /\ cpc'[d] = "idle"
    BY <1>0, <1>3 DEF Start, TypeOK
  <2>2. QED
    BY <2>1 DEF Left
<1>4. CASE ~Start(d)
  <2>1. rpc[d] \in {"boot", "registered"}
    <3>1. CASE rpc' = rpc
      BY <1>1, <3>1
    <3>2. ASSUME NEW c \in Clients, Start(c) PROVE rpc'[d] = rpc[d]
      BY <1>0, <1>4, <3>2 DEF Start, TypeOK
    <3>3. ASSUME NEW c \in Clients, Receiver(c)
          PROVE  rpc'[d] = rpc[d] \/ rpc[d] = "boot" \/ rpc'[d] \notin {"boot", "registered"}
      BY <1>0, <3>3 DEF Receiver, Register, Listen, Receive, ReceiveFails, Die, TypeOK
    <3>4. QED
      BY <1>1, <3>1, <3>2, <3>3 DEF Next, vars, Server, ServerSees, CopyMessage, Reset, IgnoreDot,
         Terminate, ReadMembers, Broadcast, Sender, User, SeeFree, Claim, WriteMessage, WriteBye,
         Announce, Unlock, KillReceiver, TypeIn
  <2>2. ~Left(d)
    BY <1>2, <2>1 DEF Registered
  <2>3. ~WriteBye(d)
    <3>1. CASE rpc[d] = "boot"
      BY <1>1, <3>1 DEF WriteBye
    <3>2. CASE rpc[d] = "registered"
      <4>1. sem1 = 0
        BY <1>0, <1>2, <3>2, InsideDown DEF Registering
      <4>2. QED
        BY <1>2, <4>1 DEF WriteBye, Down1
    <3>3. QED
      BY <2>1, <3>1, <3>2
  <2>4. QED
    BY <1>0, <1>2, <2>2, <2>3, LeftStep
<1>5. QED
  BY <1>3, <1>4

LEMMA MembersStep ==
  ASSUME IInv, ByeEnds, Registered, MembersExact, [Next]_vars
  PROVE  MembersExact'
<1> USE DEF sender, receiver, server, ServerGoto, Goto, ReceiverGoto
<1> DEFINE There(c) == rpc[c] \in {"registered", "listen"}
<1>0. TypeOK /\ IsInjective(members') /\ members \in Seq(Clients) /\ IsInjective(members)
  BY ListedStep DEF IInv, TypeOK, ListedOnce
<1>1. SUFFICES ASSUME alive', ~hasty'
               PROVE  ToSet(members') = {d \in Clients : There(d)' /\ ~Left(d)'}
  BY <1>0 DEF MembersExact
<1>2. alive /\ ~hasty
  BY <1>1, StaysExact
<1>3. ToSet(members) = {d \in Clients : There(d) /\ ~Left(d)}
  BY <1>2 DEF MembersExact
<1>4. \A d \in Clients : Left(d)' <=> (Left(d) \/ WriteBye(d))
  BY <1>0, <1>2, LeftStep
<1>5. CASE /\ members' = members /\ \A d \in Clients : ~WriteBye(d)
           /\ \A d \in Clients : ~Left(d) => (There(d)' <=> There(d))
  BY <1>3, <1>4, <1>5
<1>6. ASSUME NEW c \in Clients, WriteBye(c)
      PROVE  ToSet(members') = {d \in Clients : There(d)' /\ ~Left(d)'}
  <2>1. cpc[c] = "lock" /\ UNCHANGED rpc
    BY <1>6 DEF WriteBye
  <2>2. c \in ToSet(members)
    <3>1. rpc[c] = "listen" /\ ~Left(c)
      <4>1. ~Left(c)
        BY <2>1 DEF Left
      <4>2. rpc[c] \notin {"off", "boot", "registered"}
        <5>1. rpc[c] # "off" /\ rpc[c] # "boot"
          BY <1>1, <1>6, <2>1 DEF ByeEnds, WriteBye
        <5>2. sem1 # 0
          <6>1. sem1 > 0
            BY <1>2, <1>6 DEF WriteBye, Down1
          <6>2. QED
            BY <6>1
        <5>3. QED
          BY <1>0, <1>2, <5>1, <5>2, InsideDown DEF Registering, IInv
      <4>3. rpc[c] \notin {"dead", "died registering"}
        BY <1>2, <4>1 DEF ByeEnds
      <4>4. QED
        BY <1>0, <4>1, <4>2, <4>3 DEF TypeOK
    <3>2. QED
      BY <1>3, <3>1
  <2>3. ToSet(members') = ToSet(members) \ {c}
    BY <1>0, <1>6, <2>2, RemoveAtSet DEF WriteBye, Unlist
  <2>4. \A d \in Clients : Left(d)' <=> (Left(d) \/ d = c)
    <3>1. \A d \in Clients : WriteBye(d) => cpc[d] = "lock" /\ cpc' = [cpc EXCEPT ![d] = "set2"]
      BY DEF WriteBye
    <3>2. \A d \in Clients : WriteBye(d) => d = c
      <4>1. DOMAIN cpc = Clients
        BY <1>0 DEF TypeOK
      <4>2. QED
        BY <1>6, <3>1, <4>1
    <3>3. QED
      BY <1>4, <1>6, <3>2
  <2>5. QED
    BY <1>3, <2>1, <2>3, <2>4
<1>7. ASSUME NEW c \in Clients, Register(c)
      PROVE  ToSet(members') = {d \in Clients : There(d)' /\ ~Left(d)'}
  <2>1. /\ UNCHANGED <<cpc, name>> /\ rpc[c] = "boot" /\ members' = Append(members, c)
        /\ rpc' = [rpc EXCEPT ![c] = "registered"]
    BY <1>7 DEF Register
  <2>2. \A d \in Clients : Left(d)' <=> Left(d)
    BY <2>1 DEF Left
  <2>3. ~Left(c)
    BY <1>2, <2>1 DEF Registered
  <2>4. ToSet(members') = ToSet(members) \cup {c}
    BY <1>0, <2>1, AppendNew
  <2>5. \A d \in Clients : There(d)' <=> (There(d) \/ d = c)
    BY <1>0, <2>1 DEF TypeOK
  <2>6. QED
    BY <1>3, <2>2, <2>3, <2>4, <2>5
<1>8. ASSUME \A d \in Clients : ~WriteBye(d) /\ ~Register(d)
      PROVE  ToSet(members') = {d \in Clients : There(d)' /\ ~Left(d)'}
  <2>1. CASE Server \/ (UNCHANGED vars)
    <3>1. UNCHANGED <<members, rpc>>
      BY <2>1 DEF vars, Server, ServerSees, CopyMessage, Reset, IgnoreDot, Terminate, ReadMembers,
                  Broadcast
    <3>2. QED
      BY <1>5, <1>8, <3>1
  <2>2. ASSUME NEW c \in Clients, Sender(c)
        PROVE  ToSet(members') = {d \in Clients : There(d)' /\ ~Left(d)'}
    <3>1. SeeFree(c) \/ Claim(c) \/ WriteMessage(c) \/ Announce(c) \/ Unlock(c) \/ KillReceiver(c)
      BY <1>8, <2>2 DEF Sender
    <3>2. UNCHANGED <<members, rpc>>
      BY <3>1 DEF SeeFree, Claim, WriteMessage, Announce, Unlock, KillReceiver
    <3>3. QED
      BY <1>5, <1>8, <3>2
  <2>3. ASSUME NEW c \in Clients, User(c)
        PROVE  ToSet(members') = {d \in Clients : There(d)' /\ ~Left(d)'}
    <3>1. UNCHANGED members
      BY <2>3 DEF User, Start, TypeIn
    <3>2. \A d \in Clients : There(d)' <=> There(d)
      <4>1. CASE Start(c)
        <5>1. rpc[c] = "off" /\ rpc' = [rpc EXCEPT ![c] = "boot"]
          BY <4>1 DEF Start, IInv, Forked
        <5>2. QED
          BY <1>0, <5>1 DEF TypeOK
      <4>2. CASE ~Start(c)
        BY <2>3, <4>2 DEF User, TypeIn
      <4>3. QED
        BY <4>1, <4>2
    <3>3. QED
      BY <1>5, <1>8, <3>1, <3>2
  <2>4. ASSUME NEW c \in Clients, Receiver(c)
        PROVE  ToSet(members') = {d \in Clients : There(d)' /\ ~Left(d)'}
    <3>1. Listen(c) \/ Receive(c) \/ Die(c)
      BY <1>2, <1>8, <2>4 DEF Receiver, ReceiveFails
    <3>2. UNCHANGED members
      BY <3>1 DEF Listen, Receive, Die
    <3>3. \A d \in Clients : ~Left(d) => (There(d)' <=> There(d))
      <4>1. CASE Listen(c) \/ Receive(c)
        BY <1>0, <4>1 DEF Listen, Receive, TypeOK
      <4>2. CASE Die(c)
        <5>1. Left(c)
          BY <4>2 DEF Die, ByeEnds
        <5>2. \A d \in Clients \ {c} : rpc'[d] = rpc[d]
          BY <1>0, <4>2 DEF Die, TypeOK
        <5>3. QED
          BY <5>1, <5>2
      <4>3. QED
        BY <3>1, <4>1, <4>2
    <3>4. QED
      BY <1>5, <1>8, <3>2, <3>3
  <2>5. QED
    BY <2>1, <2>2, <2>3, <2>4 DEF Next
<1>9. QED
  BY <1>6, <1>7, <1>8

\* While the conference lasts the list names exactly the receivers that have
\* registered and whose user has not said bye (client.c:130-154, 247-254), until a
\* user says bye whose receiver has not registered.
THEOREM ListExact == Spec => []MembersExact
<1>1. Init => Exact
  <2> SUFFICES ASSUME Init PROVE Exact
    OBVIOUS
  <2>1. ToSet(<<>>) = {} /\ IsInjective(<<>>)
    BY EmptySeq DEF ToSet, IsInjective
  <2>2. QED
    BY <2>1 DEF Init, Exact, ByeEnds, Registered, MembersExact, Left
<1>2. IInv /\ Exact /\ [Next]_vars => Exact'
  BY ByeStep, RegisteredStep, MembersStep DEF Exact
<1>3. Exact => MembersExact
  BY DEF Exact
<1>4. QED
  BY SpecIInv, <1>1, <1>2, <1>3, PTL DEF Spec

-----------------------------------------------------------------------------
(* The order of the messages.                                              *)

\* Moving the first of one list to the end of the one before it leaves their
\* concatenation, and appending to the second appends to it.
LEMMA MoveHead ==
  ASSUME NEW S, NEW g \in Seq(S), NEW q \in Seq(S), q # <<>>
  PROVE  Append(g, Head(q)) \o Tail(q) = g \o q
<1>1. /\ Head(q) \in S /\ Tail(q) \in Seq(S) /\ Len(q) \in Nat \ {0} /\ Head(q) = q[1]
      /\ <<Head(q)>> \in Seq(S)
  BY HeadTailProperties, EmptySeq
<1>2. q = <<Head(q)>> \o Tail(q)
  <2>1. 1 \in 1..Len(q) /\ Len(q) \in 1..Len(q)
    BY <1>1
  <2>2. SubSeq(q, 1, Len(q)) = <<q[1]>> \o SubSeq(q, 1 + 1, Len(q))
    BY <2>1, SubSeqRecursiveFirst
  <2>3. SubSeq(q, 1, Len(q)) = q /\ Tail(q) = SubSeq(q, 2, Len(q))
    BY SubSeqFull, TailIsSubSeq
  <2>4. QED
    BY <1>1, <2>2, <2>3
<1>3. Append(g, Head(q)) = g \o <<Head(q)>>
  BY <1>1, AppendIsConcat
<1>4. (g \o <<Head(q)>>) \o Tail(q) = g \o (<<Head(q)>> \o Tail(q))
  BY <1>1, ConcatAssociative
<1>5. QED
  BY <1>2, <1>3, <1>4

LEMMA AppendSecond ==
  ASSUME NEW S, NEW g \in Seq(S), NEW q \in Seq(S), NEW m \in S
  PROVE  g \o Append(q, m) = Append(g \o q, m)
<1>1. g \o q \in Seq(S) /\ <<m>> \in Seq(S)
  BY ConcatProperties
<1>2. Append(q, m) = q \o <<m>> /\ Append(g \o q, m) = (g \o q) \o <<m>>
  BY <1>1, AppendIsConcat
<1>3. (g \o q) \o <<m>> = g \o (q \o <<m>>)
  BY <1>1, ConcatAssociative
<1>4. QED
  BY <1>2, <1>3

LEMMA MessageParts ==
  ASSUME NEW m \in Message
  PROVE  From(m) \in Clients /\ m[3] \in Nat
BY ConferenceAssumption DEF Message, From

\* What has been sent to a client only grows, by the message that is sent on.
LEMMA AllStep ==
  ASSUME IInv, [Next]_vars, NEW d \in Clients
  PROVE  /\ Sent[d] \in Seq(Message)
         /\ \/ Sent'[d] = Sent[d]
            \/ /\ spc = "send" /\ d \in ToSet(recipients) /\ d \notin ToSet(recipients')
               /\ Sent'[d] = Append(Sent[d], ptrmsg_copy)
<1>0. /\ TypeOK /\ inbox \in [Clients -> Seq(Message)] /\ got \in [Clients -> Seq(Message)]
      /\ inbox[d] \in Seq(Message) /\ got[d] \in Seq(Message)
      /\ recipients \in Seq(Clients) /\ IsInjective(recipients)
  BY DEF IInv, TypeOK, ListedOnce
<1>1. Sent[d] \in Seq(Message)
  BY <1>0, ConcatProperties DEF Sent
<1>2. CASE UNCHANGED <<inbox, got>>
  BY <1>1, <1>2 DEF Sent
<1>3. CASE Broadcast
  <2>1. CASE recipients = <<>> \/ Head(recipients) = From(ptrmsg_copy) \/ d # Head(recipients)
    <3>1. UNCHANGED got /\ inbox'[d] = inbox[d]
      <4>1. CASE recipients = <<>> \/ Head(recipients) = From(ptrmsg_copy)
        BY <1>3, <4>1 DEF Broadcast, receiver
      <4>2. CASE d # Head(recipients)
        BY <1>0, <1>3, <4>2 DEF Broadcast, receiver
      <4>3. QED
        BY <2>1, <4>1, <4>2
    <3>2. QED
      BY <1>1, <3>1 DEF Sent
  <2>2. CASE recipients # <<>> /\ Head(recipients) # From(ptrmsg_copy) /\ d = Head(recipients)
    <3>1. UNCHANGED got /\ inbox' = [inbox EXCEPT ![d] = Append(@, ptrmsg_copy)]
      BY <1>3, <2>2 DEF Broadcast, receiver
    <3>2. inbox'[d] = Append(inbox[d], ptrmsg_copy)
      BY <1>0, <3>1
    <3>3. spc = "send" /\ recipients' = Tail(recipients) /\ ptrmsg_copy \in Message
      BY <1>3, <2>2 DEF Broadcast, IInv, Written
    <3>4. d \in ToSet(recipients) /\ d \notin ToSet(recipients')
      BY <1>0, <2>2, <3>3, TailSet
    <3>5. Sent'[d] = Append(Sent[d], ptrmsg_copy)
      BY <1>0, <3>1, <3>2, <3>3, AppendSecond DEF Sent
    <3>6. QED
      BY <1>1, <3>3, <3>4, <3>5
  <2>3. QED
    BY <2>1, <2>2
<1>4. ASSUME NEW c \in Clients, Receive(c) PROVE Sent'[d] = Sent[d]
  <2>1. CASE d = c
    <3>1. inbox[d] # <<>> /\ got'[d] = Append(got[d], Head(inbox[d])) /\ inbox'[d] = Tail(inbox[d])
      BY <1>0, <1>4, <2>1 DEF Receive
    <3>2. QED
      BY <1>0, <3>1, MoveHead DEF Sent
  <2>2. CASE d # c
    <3>1. inbox'[d] = inbox[d] /\ got'[d] = got[d]
      BY <1>0, <1>4, <2>2 DEF Receive
    <3>2. QED
      BY <3>1 DEF Sent
  <2>3. QED
    BY <2>1, <2>2
<1>5. CASE Server /\ ~Broadcast
  BY <1>2, <1>5 DEF Server, ServerSees, CopyMessage, Reset, IgnoreDot, Terminate, ReadMembers, receiver
<1>6. ASSUME NEW c \in Clients, Sender(c) \/ User(c)
      PROVE  UNCHANGED <<inbox, got>>
  BY <1>6 DEF Sender, User, SeeFree, Claim, WriteMessage, WriteBye, Announce, Unlock, KillReceiver,
              Start, TypeIn, receiver
<1>7. ASSUME NEW c \in Clients, Receiver(c), ~Receive(c)
      PROVE  UNCHANGED <<inbox, got>>
  BY <1>7 DEF Receiver, Register, Listen, ReceiveFails, Die
<1>8. CASE UNCHANGED vars
  BY <1>2, <1>8 DEF vars, receiver
<1>9. QED
  BY <1>1, <1>2, <1>3, <1>4, <1>5, <1>6, <1>7, <1>8 DEF Next

\* The next number of a client never goes back.
LEMMA NumberStep ==
  ASSUME IInv, [Next]_vars, NEW d \in Clients
  PROVE  /\ NextNumber[d] \in Nat /\ NextNumber'[d] \in Nat
         /\ NextNumber[d] <= NextNumber'[d]
<1>0. TypeOK /\ typed[d] \in Nat /\ typed'[d] \in Nat
  <2>1. TypeOK'
    BY TypeStep
  <2>2. TypeOK /\ typed \in [Clients -> 0..MaxTexts] /\ typed' \in [Clients -> 0..MaxTexts]
    BY <2>1 DEF IInv, TypeOK
  <2>3. QED
    BY <2>2, ConferenceAssumption
<1>1. typed'[d] >= typed[d]
  <2>1. CASE UNCHANGED typed
    BY <1>0, <2>1
  <2>2. ASSUME NEW c \in Clients, WriteMessage(c) PROVE typed'[d] >= typed[d]
    <3>1. typed' = [typed EXCEPT ![c] = @ + 1] /\ typed \in [Clients -> 0..MaxTexts]
      BY <1>0, <2>2 DEF WriteMessage, TypeOK
    <3>2. typed'[d] = typed[d] \/ typed'[d] = typed[d] + 1
      BY <3>1
    <3>3. QED
      BY <1>0, <3>2
  <2>3. CASE Server \/ (UNCHANGED vars)
    BY <2>1, <2>3 DEF vars, sender, Server, ServerSees, CopyMessage, Reset, IgnoreDot, Terminate,
                      ReadMembers, Broadcast
  <2>4. ASSUME NEW c \in Clients, (Sender(c) /\ ~WriteMessage(c)) \/ Receiver(c) \/ User(c)
        PROVE  UNCHANGED typed
    BY <2>4 DEF Sender, Receiver, User, SeeFree, Claim, WriteBye, Announce, Unlock, KillReceiver,
                Start, TypeIn, Register, Listen, Receive, ReceiveFails, Die, sender
  <2>5. QED
    BY <2>1, <2>2, <2>3, <2>4 DEF Next
<1>2. Left(d) => Left(d)'
  BY <1>0, LeftStep
<1>3. QED
  BY <1>0, <1>1, <1>2 DEF NextNumber

\* If no two senders go past line 126 together, one at a time is between there
\* and its announcement.
LEMMA OneSenderStep ==
  ASSUME IInv, OneSender, [Next]_vars, ~together'
  PROVE  OneSender'
<1> USE DEF sender, receiver, server, ServerGoto, Goto, ReceiverGoto, Between, OneSender
<1>0. TypeOK /\ cpc \in [Clients -> {"off", "idle", "wait", "claim", "lock", "set2", "unlock", "kill", "gone"}]
  BY DEF IInv, TypeOK
<1>1. CASE ServerSees \/ CopyMessage \/ IgnoreDot \/ Terminate \/ ReadMembers \/ Broadcast
  <2>1. UNCHANGED <<cpc, sem2>> /\ (spc' \in {"copy", "reset"} => sem2 = 2)
    BY <1>1 DEF ServerSees, CopyMessage, IgnoreDot, Terminate, ReadMembers, Broadcast
  <2>2. QED
    BY <2>1
<1>2. CASE Reset
  <2>1. UNCHANGED cpc /\ sem2 = 2 /\ sem2' = 0 /\ spc' = "handle"
    BY <1>2 DEF Reset
  <2>2. QED
    BY <2>1
<1>3. ASSUME NEW c \in Clients, SeeFree(c) PROVE OneSender'
  <2>1. /\ UNCHANGED <<sem2, spc>> /\ sem2 = 0 /\ cpc[c] = "wait" /\ cpc'[c] = "claim"
        /\ \A d \in Clients \ {c} : cpc'[d] = cpc[d]
    BY <1>0, <1>3 DEF SeeFree
  <2>2. \A d \in Clients \ {c} : cpc[d] # "claim"
    BY <1>3 DEF SeeFree
  <2>3. \A d \in Clients \ {c} : cpc[d] \notin Between
    BY <2>1, <2>2
  <2>4. QED
    BY <2>1, <2>3
<1>4. ASSUME NEW c \in Clients, Claim(c) PROVE OneSender'
  <2>1. /\ UNCHANGED spc /\ cpc[c] = "claim" /\ \A d \in Clients \ {c} : cpc'[d] = cpc[d]
        /\ \/ cpc'[c] = "lock" /\ sem2' = 1
           \/ cpc'[c] = "gone" /\ sem2' = sem2
    BY <1>0, <1>4 DEF Claim, SetOrExit
  <2>2. QED
    BY <2>1
<1>5. ASSUME NEW c \in Clients, WriteMessage(c) \/ WriteBye(c) PROVE OneSender'
  <2>1. /\ UNCHANGED <<spc, sem2>> /\ cpc[c] = "lock" /\ cpc'[c] = "set2"
        /\ \A d \in Clients \ {c} : cpc'[d] = cpc[d]
    BY <1>0, <1>5 DEF WriteMessage, WriteBye
  <2>2. QED
    BY <2>1
<1>6. ASSUME NEW c \in Clients, Announce(c) PROVE OneSender'
  <2>1. /\ UNCHANGED spc /\ cpc[c] = "set2" /\ cpc'[c] \in {"unlock", "gone"}
        /\ sem2' = 2 \/ sem2' = sem2
        /\ \A d \in Clients \ {c} : cpc'[d] = cpc[d]
    BY <1>0, <1>6 DEF Announce, SetOrExit
  <2>2. QED
    BY <2>1
<1>7. ASSUME NEW c \in Clients, Unlock(c) \/ KillReceiver(c) \/ Start(c) PROVE OneSender'
  <2>1. /\ UNCHANGED <<spc, sem2>> /\ cpc'[c] \in {"idle", "kill", "gone"}
        /\ \A d \in Clients \ {c} : cpc'[d] = cpc[d]
    BY <1>0, <1>7 DEF Unlock, KillReceiver, Start
  <2>2. QED
    BY <2>1
<1>8. ASSUME NEW c \in Clients, NEW input \in {"text", ".", "bye"}, TypeIn(c, input)
      PROVE  OneSender'
  <2>1. /\ UNCHANGED <<spc, sem2>> /\ cpc'[c] = "wait"
        /\ \A d \in Clients \ {c} : cpc'[d] = cpc[d]
    BY <1>0, <1>8 DEF TypeIn
  <2>2. QED
    BY <2>1
<1>9. ASSUME NEW c \in Clients, Receiver(c) PROVE OneSender'
  <2>1. UNCHANGED <<cpc, spc, sem2>>
    BY <1>9 DEF Receiver, Register, Listen, Receive, ReceiveFails, Die
  <2>2. QED
    BY <2>1
<1>10. CASE UNCHANGED vars
  BY <1>10 DEF vars
<1>11. QED
  BY <1>1, <1>2, <1>3, <1>4, <1>5, <1>6, <1>7, <1>8, <1>9, <1>10 DEF Next, Server, Sender, User

Writes(c) == WriteMessage(c) \/ WriteBye(c)

\* What a step writes into ptrmsg, and from where the server's copy comes.
LEMMA MessageStep ==
  ASSUME IInv, [Next]_vars
  PROVE  /\ \A c \in Clients : Writes(c) =>
              /\ cpc[c] = "lock" /\ From(ptrmsg') = c /\ ptrmsg'[3] = typed[c]
              /\ NextNumber[c] = typed[c] /\ NextNumber'[c] = typed[c] + 1
              /\ UNCHANGED <<sem2, spc, ptrmsg_copy, recipients>>
         /\ (\A c \in Clients : ~Writes(c)) => ptrmsg' = ptrmsg
         /\ \/ UNCHANGED ptrmsg_copy
            \/ spc = "copy" /\ ptrmsg_copy' = ptrmsg /\ spc' = "reset"
<1> USE DEF sender, receiver, server
<1>0. TypeOK /\ typed \in [Clients -> 0..MaxTexts] /\ name \in [Clients -> {"text", ".", "bye"}]
  BY DEF IInv, TypeOK
<1>1. ASSUME Server \/ (UNCHANGED vars)
      PROVE  ptrmsg' = ptrmsg /\ (UNCHANGED ptrmsg_copy
                                  \/ (spc = "copy" /\ ptrmsg_copy' = ptrmsg /\ spc' = "reset"))
  BY <1>1 DEF vars, Server, ServerSees, CopyMessage, Reset, IgnoreDot, Terminate, ReadMembers,
              Broadcast, ServerGoto
<1>2. ASSUME NEW c \in Clients, WriteMessage(c)
      PROVE  /\ cpc[c] = "lock" /\ From(ptrmsg') = c /\ ptrmsg'[3] = typed[c]
             /\ NextNumber[c] = typed[c] /\ NextNumber'[c] = typed[c] + 1
             /\ UNCHANGED <<sem2, spc, ptrmsg_copy, recipients>>
  <2>1. /\ cpc[c] = "lock" /\ name[c] # "bye" /\ UNCHANGED <<name, sem2, spc, ptrmsg_copy, recipients>>
        /\ ptrmsg' = <<name[c], c, typed[c]>> /\ typed' = [typed EXCEPT ![c] = @ + 1]
    BY <1>2 DEF WriteMessage
  <2>2. From(ptrmsg') = c /\ ptrmsg'[3] = typed[c]
    BY <2>1 DEF From
  <2>3. typed'[c] = typed[c] + 1 /\ ~Left(c) /\ ~Left(c)' /\ typed[c] \in Int
    BY <1>0, <2>1, ConferenceAssumption DEF Left
  <2>4. QED
    BY <2>1, <2>2, <2>3 DEF NextNumber
<1>3. ASSUME NEW c \in Clients, WriteBye(c)
      PROVE  /\ cpc[c] = "lock" /\ From(ptrmsg') = c /\ ptrmsg'[3] = typed[c]
             /\ NextNumber[c] = typed[c] /\ NextNumber'[c] = typed[c] + 1
             /\ UNCHANGED <<sem2, spc, ptrmsg_copy, recipients>>
  <2>1. /\ cpc[c] = "lock" /\ UNCHANGED <<typed, sem2, spc, ptrmsg_copy, recipients>>
        /\ ptrmsg' = <<IF Len(members) = 1 THEN "*" ELSE "bye", c, typed[c]>>
    BY <1>3 DEF WriteBye
  <2>2. From(ptrmsg') = c /\ ptrmsg'[3] = typed[c]
    BY <2>1 DEF From
  <2>3. ~Left(c) /\ Left(c)' /\ typed[c] \in Int
    <3>1. Left(c)'
      <4>1. name[c] = "bye" /\ name' = name /\ cpc'[c] = "set2"
        BY <1>0, <1>3 DEF WriteBye, Goto, TypeOK
      <4>2. QED
        BY <4>1 DEF Left
    <3>2. QED
      BY <1>0, <2>1, <3>1, ConferenceAssumption DEF Left
  <2>4. QED
    BY <2>1, <2>2, <2>3 DEF NextNumber
<1>4. ASSUME NEW c \in Clients,
             Receiver(c) \/ User(c) \/ (Sender(c) /\ ~WriteMessage(c) /\ ~WriteBye(c))
      PROVE  UNCHANGED <<ptrmsg, ptrmsg_copy>>
  BY <1>4 DEF Receiver, Register, Listen, Receive, ReceiveFails, Die, User, Start, TypeIn,
              Sender, SeeFree, Claim, Announce, Unlock, KillReceiver
<1>5. \A c \in Clients : Writes(c) =>
        /\ cpc[c] = "lock" /\ From(ptrmsg') = c /\ ptrmsg'[3] = typed[c]
        /\ NextNumber[c] = typed[c] /\ NextNumber'[c] = typed[c] + 1
        /\ UNCHANGED <<sem2, spc, ptrmsg_copy, recipients>>
  BY <1>2, <1>3 DEF Writes
<1>6. (\A c \in Clients : ~Writes(c)) => ptrmsg' = ptrmsg
  BY <1>1, <1>4 DEF Next, Sender, Writes
<1>7. UNCHANGED ptrmsg_copy \/ (spc = "copy" /\ ptrmsg_copy' = ptrmsg /\ spc' = "reset")
  BY <1>1, <1>4, <1>5 DEF Next, Sender, Writes
<1>8. QED
  BY <1>5, <1>6, <1>7

\* What a client has been sent after a step it had been sent before, or it is
\* the server's copy.
LEMMA ElementStep ==
  ASSUME IInv, [Next]_vars, NEW d \in Clients
  PROVE  /\ \A k \in DOMAIN Sent[d] : Sent[d][k] \in Message
         /\ DOMAIN Sent'[d] \in SUBSET Nat
         /\ \A k \in DOMAIN Sent'[d] :
              \/ k \in DOMAIN Sent[d] /\ Sent'[d][k] = Sent[d][k]
              \/ /\ spc = "send" /\ d \in ToSet(recipients) /\ d \notin ToSet(recipients')
                 /\ Sent'[d][k] = ptrmsg_copy /\ ptrmsg_copy \in Message
                 /\ \A j \in DOMAIN Sent'[d] : j = k \/ (j < k /\ j \in DOMAIN Sent[d])
<1> DEFINE a == Sent[d]
           n == Len(a)
<1>1. a \in Seq(Message)
  BY AllStep
<1>2. n \in Nat /\ DOMAIN a = 1..n /\ \A k \in DOMAIN a : a[k] \in Message
  BY <1>1, LenProperties, ElementOfSeq
<1>3. CASE Sent'[d] = a
  BY <1>2, <1>3
<1>4. CASE /\ spc = "send" /\ d \in ToSet(recipients) /\ d \notin ToSet(recipients')
           /\ Sent'[d] = Append(a, ptrmsg_copy)
  <2>1. ptrmsg_copy \in Message
    BY <1>4 DEF IInv, Written
  <2> DEFINE b == Append(a, ptrmsg_copy)
  <2>2. DOMAIN b = 1..(n + 1) /\ (\A k \in 1..n : b[k] = a[k]) /\ b[n + 1] = ptrmsg_copy
    BY <1>1, <2>1, AppendProperties, LenProperties
  <2> HIDE DEF a, b, n
  <2>3. \A k \in DOMAIN b :
          \/ k \in DOMAIN a /\ b[k] = a[k]
          \/ b[k] = ptrmsg_copy /\ \A j \in DOMAIN b : j = k \/ (j < k /\ j \in DOMAIN a)
    BY <1>2, <2>2
  <2>4. Sent'[d] = b /\ DOMAIN b \in SUBSET Nat
    BY <1>2, <1>4, <2>2 DEF b
  <2>5. QED
    BY <1>2, <1>4, <2>1, <2>3, <2>4 DEF a
<1>5. QED
  BY <1>3, <1>4, AllStep

LEMMA NumberedStep ==
  ASSUME IInv, Numbered, [Next]_vars
  PROVE  Numbered'
<1>1. \A d \in Clients : /\ NextNumber[d] \in Nat /\ NextNumber'[d] \in Nat
                         /\ NextNumber[d] <= NextNumber'[d]
  BY NumberStep
<1>2. ASSUME NEW m \in Message, m[3] < NextNumber[From(m)]
      PROVE  m[3] < NextNumber'[From(m)]
  <2>1. From(m) \in Clients /\ m[3] \in Nat
    BY MessageParts
  <2> DEFINE x == NextNumber[From(m)]
             y == NextNumber'[From(m)]
             z == m[3]
  <2>2. x \in Nat /\ y \in Nat /\ x <= y /\ z \in Nat /\ z < x
    BY <1>1, <1>2, <2>1
  <2> HIDE DEF x, y, z
  <2>3. z < y
    BY <2>2
  <2>4. QED
    BY <2>3 DEF y, z
<1>3. \A d \in Clients : \A k \in DOMAIN Sent'[d] : Sent'[d][k][3] < NextNumber'[From(Sent'[d][k])]
  <2>1. SUFFICES ASSUME NEW d \in Clients, NEW k \in DOMAIN Sent'[d]
                 PROVE  Sent'[d][k][3] < NextNumber'[From(Sent'[d][k])]
    OBVIOUS
  <2>2. CASE k \in DOMAIN Sent[d] /\ Sent'[d][k] = Sent[d][k]
    <3>1. Sent[d][k] \in Message
      BY <2>2, ElementStep
    <3>2. Sent[d][k][3] < NextNumber[From(Sent[d][k])]
      BY <2>2 DEF Numbered
    <3>3. Sent[d][k][3] < NextNumber'[From(Sent[d][k])]
      BY <1>2, <3>1, <3>2
    <3>4. QED
      BY <2>2, <3>3
  <2>3. CASE Sent'[d][k] = ptrmsg_copy /\ ptrmsg_copy \in Message
    <3>1. ptrmsg_copy[3] < NextNumber[From(ptrmsg_copy)]
      BY <2>3 DEF Numbered
    <3>2. QED
      BY <1>2, <2>3, <3>1
  <2>4. QED
    BY <2>2, <2>3, ElementStep
<1>4. ptrmsg' \in Message => ptrmsg'[3] < NextNumber'[From(ptrmsg')]
  <2>1. CASE \E c \in Clients : Writes(c)
    <3>1. PICK c \in Clients : Writes(c)
      BY <2>1
    <3>2. /\ From(ptrmsg') = c /\ ptrmsg'[3] = typed[c] /\ NextNumber[c] = typed[c]
          /\ NextNumber'[c] = typed[c] + 1
      BY <3>1, MessageStep
    <3>3. typed[c] \in Nat
      BY <1>1, <3>2
    <3>4. QED
      BY <3>2, <3>3
  <2>2. CASE ptrmsg' = ptrmsg
    BY <1>2, <2>2 DEF Numbered
  <2>3. QED
    BY <2>1, <2>2, MessageStep
<1>5. ptrmsg_copy' \in Message => ptrmsg_copy'[3] < NextNumber'[From(ptrmsg_copy')]
  <2>1. ptrmsg_copy' = ptrmsg_copy \/ ptrmsg_copy' = ptrmsg
    BY MessageStep
  <2>2. QED
    BY <1>2, <2>1 DEF Numbered
<1>6. QED
  BY <1>3, <1>4, <1>5 DEF Numbered

\* A message that the server has not read was there before the step, or it is
\* being written by the step.
LEMMA FreshBefore ==
  ASSUME IInv, OneSender, [Next]_vars, \A c \in Clients : ~Writes(c), Fresh'
  PROVE  Fresh /\ (spc' \in {"handle", "send"} => spc \in {"handle", "send"})
<1> USE DEF sender, receiver, server, ServerGoto, Goto, Fresh
<1>0. TypeOK /\ cpc \in [Clients -> {"off", "idle", "wait", "claim", "lock", "set2", "unlock", "kill", "gone"}]
  BY DEF IInv, TypeOK
<1>1. CASE Server \/ (UNCHANGED vars)
  <2>1. UNCHANGED cpc /\ (sem2' = 2 => sem2 = 2)
    BY <1>1 DEF vars, Server, ServerSees, CopyMessage, Reset, IgnoreDot, Terminate, ReadMembers,
                Broadcast
  <2>2. CASE spc = "reset" \/ spc' = "reset"
    <3>1. sem2 = 2 /\ \A c \in Clients : cpc[c] # "set2"
      <4>1. spc \in {"copy", "reset"}
        BY <1>1, <2>2 DEF vars, Server, ServerSees, CopyMessage, Reset, IgnoreDot, Terminate,
                          ReadMembers, Broadcast
      <4>2. QED
        BY <4>1 DEF OneSender
    <3>2. spc' # "reset" /\ sem2' = 2
      BY <2>1, <3>1
    <3>3. ~Reset /\ ~(UNCHANGED vars)
      BY <2>2, <3>2 DEF Reset, vars
    <3>4. QED
      BY <1>1, <2>2, <3>2, <3>3 DEF Server, ServerSees, CopyMessage, IgnoreDot, Terminate,
                                    ReadMembers, Broadcast
  <2>3. CASE spc # "reset" /\ spc' # "reset"
    <3>1. spc' \in {"handle", "send"} => spc \in {"handle", "send"}
      BY <1>1, <2>3 DEF vars, Server, ServerSees, CopyMessage, Reset, IgnoreDot, Terminate,
                        ReadMembers, Broadcast
    <3>2. QED
      BY <2>1, <2>3, <3>1
  <2>4. QED
    BY <2>2, <2>3
<1>2. ASSUME NEW c \in Clients, Announce(c)
      PROVE  Fresh /\ (spc' \in {"handle", "send"} => spc \in {"handle", "send"})
  BY <1>2 DEF Announce
<1>3. ASSUME NEW c \in Clients,
             \/ SeeFree(c) \/ Claim(c) \/ Unlock(c) \/ KillReceiver(c) \/ User(c) \/ Receiver(c)
      PROVE  Fresh /\ (spc' \in {"handle", "send"} => spc \in {"handle", "send"})
  <2>1. UNCHANGED spc /\ (sem2' = 2 => sem2 = 2)
    <3>1. CASE SeeFree(c) \/ Claim(c) \/ Unlock(c) \/ KillReceiver(c)
      BY <3>1 DEF SeeFree, Claim, SetOrExit, Unlock, KillReceiver
    <3>2. CASE User(c) \/ Receiver(c)
      BY <3>2 DEF User, Start, TypeIn, Receiver, Register, Listen, Receive, ReceiveFails, Die
    <3>3. QED
      BY <1>3, <3>1, <3>2
  <2>2. \A d \in Clients : cpc'[d] = "set2" => cpc[d] = "set2"
    BY <1>0, <1>3 DEF SeeFree, Claim, SetOrExit, Unlock, KillReceiver, User, Start, TypeIn,
                      Receiver, Register, Listen, Receive, ReceiveFails, Die
  <2>3. QED
    BY <2>1, <2>2
<1>4. QED
  BY <1>1, <1>2, <1>3 DEF Next, Sender, Writes

LEMMA FreshStep ==
  ASSUME IInv, OneSender, Numbered, FreshIsNew, [Next]_vars, Fresh'
  PROVE  /\ \A d \in Clients : \A k \in DOMAIN Sent'[d] : Older(Sent'[d][k], ptrmsg')
         /\ spc' \in {"handle", "send"} => Older(ptrmsg_copy', ptrmsg')
<1>1. CASE \E c \in Clients : Writes(c)
  <2>1. PICK c \in Clients : Writes(c)
    BY <1>1
  <2>2. /\ cpc[c] = "lock" /\ From(ptrmsg') = c /\ ptrmsg'[3] = typed[c] /\ NextNumber[c] = typed[c]
        /\ UNCHANGED <<sem2, spc, ptrmsg_copy, recipients>>
    BY <2>1, MessageStep
  <2>3. ASSUME NEW m \in Message, m[3] < NextNumber[From(m)] PROVE Older(m, ptrmsg')
    BY <2>2, <2>3 DEF Older
  <2>4. \A d \in Clients : \A k \in DOMAIN Sent'[d] : Older(Sent'[d][k], ptrmsg')
    <3>1. SUFFICES ASSUME NEW d \in Clients, NEW k \in DOMAIN Sent'[d]
                   PROVE  Older(Sent'[d][k], ptrmsg')
      OBVIOUS
    <3>2. d \in ToSet(recipients) => d \in ToSet(recipients')
      BY <2>2
    <3>3. k \in DOMAIN Sent[d] /\ Sent'[d][k] = Sent[d][k] /\ Sent[d][k] \in Message
      BY <3>2, ElementStep
    <3>4. Older(Sent[d][k], ptrmsg')
      BY <2>3, <3>3 DEF Numbered
    <3>5. QED
      BY <3>3, <3>4
  <2>5. ASSUME spc' \in {"handle", "send"} PROVE Older(ptrmsg_copy', ptrmsg')
    <3>1. ptrmsg_copy \in Message
      BY <2>2, <2>5 DEF IInv, Written
    <3>2. Older(ptrmsg_copy, ptrmsg')
      BY <2>3, <3>1 DEF Numbered
    <3>3. QED
      BY <2>2, <3>2
  <2>6. QED
    BY <2>4, <2>5
<1>2. CASE \A c \in Clients : ~Writes(c)
  <2>1. /\ Fresh /\ (spc' \in {"handle", "send"} => spc \in {"handle", "send"})
        /\ ptrmsg' = ptrmsg
    BY <1>2, FreshBefore, MessageStep
  <2>2. \A d \in Clients : \A k \in DOMAIN Sent'[d] : Older(Sent'[d][k], ptrmsg')
    <3>1. SUFFICES ASSUME NEW d \in Clients, NEW k \in DOMAIN Sent'[d]
                   PROVE  Older(Sent'[d][k], ptrmsg)
      BY <2>1
    <3>2. CASE k \in DOMAIN Sent[d] /\ Sent'[d][k] = Sent[d][k]
      BY <2>1, <3>2 DEF FreshIsNew
    <3>3. CASE spc = "send" /\ Sent'[d][k] = ptrmsg_copy
      BY <2>1, <3>3 DEF FreshIsNew
    <3>4. QED
      BY <3>2, <3>3, ElementStep
  <2>3. ASSUME spc' \in {"handle", "send"} PROVE Older(ptrmsg_copy', ptrmsg')
    <3>1. ptrmsg_copy' = ptrmsg_copy
      BY <2>3, MessageStep
    <3>2. QED
      BY <2>1, <2>3, <3>1 DEF FreshIsNew
  <2>4. QED
    BY <2>2, <2>3
<1>3. QED
  BY <1>1, <1>2

LEMMA CopyStep ==
  ASSUME IInv, OneSender, FreshIsNew, CopyIsNew, [Next]_vars
  PROVE  CopyIsNew'
<1> USE DEF server, sender, receiver, ServerGoto
<1>1. SUFFICES ASSUME NEW d \in Clients, NEW k \in DOMAIN Sent'[d],
                      spc' \in {"reset", "handle"} \/ (spc' = "send" /\ d \in ToSet(recipients'))
               PROVE  Older(Sent'[d][k], ptrmsg_copy')
  BY DEF CopyIsNew
<1>2. CASE ptrmsg_copy' = ptrmsg /\ spc = "copy"
  <2>1. Fresh
    BY <1>2 DEF Fresh, OneSender
  <2>2. k \in DOMAIN Sent[d] /\ Sent'[d][k] = Sent[d][k]
    BY <1>1, <1>2, ElementStep
  <2>3. QED
    BY <1>2, <2>1, <2>2 DEF FreshIsNew
<1>3. CASE ptrmsg_copy' = ptrmsg_copy /\ spc # "copy"
  <2>1. spc \in {"reset", "handle"} \/ (spc = "send" /\ d \in ToSet(recipients))
    <3>1. CASE UNCHANGED <<spc, recipients>>
      BY <1>1, <3>1
    <3>2. CASE Server
      <4>1. CASE Broadcast
        <5>1. /\ spc = "send" /\ recipients # <<>> /\ recipients' = Tail(recipients)
              /\ d \in ToSet(recipients')
          BY <1>1, <4>1 DEF Broadcast
        <5>2. recipients \in Seq(Clients)
          BY DEF IInv, TypeOK
        <5>3. QED
          BY <5>1, <5>2, TailSet
      <4>2. CASE ~Broadcast
        BY <1>1, <1>3, <3>2, <4>2 DEF Server, ServerSees, CopyMessage, Reset, IgnoreDot, Terminate,
                                      ReadMembers
      <4>3. QED
        BY <4>1, <4>2
    <3>3. ASSUME NEW c \in Clients, Sender(c) \/ Receiver(c) \/ User(c)
          PROVE  UNCHANGED <<spc, recipients>>
      BY <3>3 DEF Sender, Receiver, User, SeeFree, Claim, WriteMessage, WriteBye, Announce, Unlock,
                  KillReceiver, Start, TypeIn, Register, Listen, Receive, ReceiveFails, Die
    <3>4. QED
      BY <3>1, <3>2, <3>3 DEF Next, vars
  <2>2. k \in DOMAIN Sent[d] /\ Sent'[d][k] = Sent[d][k]
    <3>1. spc' = "send" \/ spc # "send"
      <4>1. CASE Server
        BY <1>1, <4>1 DEF Server, ServerSees, CopyMessage, Reset, IgnoreDot, Terminate, ReadMembers,
                          Broadcast
      <4>2. ASSUME NEW c \in Clients, Sender(c) \/ Receiver(c) \/ User(c)
            PROVE  UNCHANGED spc
        BY <4>2 DEF Sender, Receiver, User, SeeFree, Claim, WriteMessage, WriteBye, Announce,
                    Unlock, KillReceiver, Start, TypeIn, Register, Listen, Receive, ReceiveFails,
                    Die
      <4>3. QED
        BY <4>1, <4>2 DEF Next, vars
    <3>2. QED
      BY <1>1, <3>1, ElementStep
  <2>3. QED
    BY <1>3, <2>1, <2>2 DEF CopyIsNew
<1>4. CASE ptrmsg_copy' = ptrmsg_copy /\ spc = "copy"
  <2>1. spc' = "copy" \/ ptrmsg_copy' = ptrmsg
    <3>1. CASE Server
      BY <1>4, <3>1 DEF Server, ServerSees, CopyMessage, Reset, IgnoreDot, Terminate, ReadMembers,
                        Broadcast
    <3>2. ASSUME NEW c \in Clients, Sender(c) \/ Receiver(c) \/ User(c)
          PROVE  UNCHANGED spc
      BY <3>2 DEF Sender, Receiver, User, SeeFree, Claim, WriteMessage, WriteBye, Announce,
                  Unlock, KillReceiver, Start, TypeIn, Register, Listen, Receive, ReceiveFails, Die
    <3>3. QED
      BY <1>4, <3>1, <3>2 DEF Next, vars
  <2>2. QED
    BY <1>1, <1>2, <1>4, <2>1
<1>5. QED
  BY <1>2, <1>3, <1>4, MessageStep

\* Two messages that a client has been sent: both had been sent before, or the
\* later one is the server's copy.
LEMMA PairStep ==
  ASSUME IInv, [Next]_vars, NEW d \in Clients,
         NEW a \in DOMAIN Sent'[d], NEW b \in DOMAIN Sent'[d], a < b
  PROVE  /\ a \in DOMAIN Sent[d] /\ Sent'[d][a] = Sent[d][a]
         /\ \/ b \in DOMAIN Sent[d] /\ Sent'[d][b] = Sent[d][b]
            \/ spc = "send" /\ d \in ToSet(recipients) /\ Sent'[d][b] = ptrmsg_copy
<1>1. a \in Nat /\ b \in Nat
  BY ElementStep
<1>2. ~(\A j \in DOMAIN Sent'[d] : j = a \/ (j < a /\ j \in DOMAIN Sent[d]))
  BY <1>1
<1>3. a \in DOMAIN Sent[d] /\ Sent'[d][a] = Sent[d][a]
  BY <1>2, ElementStep
<1>4. QED
  BY <1>3, ElementStep

LEMMA OlderStep ==
  ASSUME IInv, CopyIsNew, AllOlder, [Next]_vars
  PROVE  AllOlder'
<1>1. SUFFICES ASSUME NEW d \in Clients, NEW a \in DOMAIN Sent'[d], NEW b \in DOMAIN Sent'[d],
                      a < b
               PROVE  Older(Sent'[d][a], Sent'[d][b])
  BY DEF AllOlder, Older, From
<1>2. /\ a \in DOMAIN Sent[d] /\ Sent'[d][a] = Sent[d][a]
      /\ \/ b \in DOMAIN Sent[d] /\ Sent'[d][b] = Sent[d][b]
         \/ spc = "send" /\ d \in ToSet(recipients) /\ Sent'[d][b] = ptrmsg_copy
  BY <1>1, PairStep
<1>3. CASE b \in DOMAIN Sent[d] /\ Sent'[d][b] = Sent[d][b]
  BY <1>1, <1>2, <1>3 DEF AllOlder
<1>4. CASE spc = "send" /\ d \in ToSet(recipients) /\ Sent'[d][b] = ptrmsg_copy
  BY <1>2, <1>4 DEF CopyIsNew
<1>5. QED
  BY <1>2, <1>3, <1>4

\* A message in ptrmsg is new when it is written, whoever writes it; all else is
\* copied on, from ptrmsg to the server and from there to the clients.
LEMMA ChainedStep ==
  ASSUME IInv, Numbered, Chained, [Next]_vars
  PROVE  Chained'
<1>1. ASSUME NEW m \in Message PROVE NotAfter(m, m)
  BY MessageParts DEF NotAfter
<1>2. ASSUME NEW m \in Message, m[3] < NextNumber[From(m)], NEW c \in Clients, Writes(c)
      PROVE  NotAfter(m, ptrmsg')
  <2>1. From(ptrmsg') = c /\ ptrmsg'[3] = typed[c] /\ NextNumber[c] = typed[c]
    BY <1>2, MessageStep
  <2>2. From(m) = c => m[3] < typed[c] /\ m[3] \in Nat /\ typed[c] \in Nat
    <3>1. From(m) = c => m[3] < typed[c]
      BY <1>2, <2>1
    <3>2. m[3] \in Nat /\ NextNumber[c] \in Nat
      BY MessageParts, NumberStep
    <3>3. QED
      BY <2>1, <3>1, <3>2
  <2>3. QED
    BY <2>1, <2>2 DEF NotAfter
<1>3. ASSUME NEW m \in Message, m[3] < NextNumber[From(m)], NotAfter(m, ptrmsg)
      PROVE  NotAfter(m, ptrmsg')
  <2>1. CASE \E c \in Clients : Writes(c)
    BY <1>2, <1>3, <2>1
  <2>2. CASE \A c \in Clients : ~Writes(c)
    BY <1>3, <2>2, MessageStep
  <2>3. QED
    BY <2>1, <2>2
<1>4. ptrmsg_copy' \in Message => NotAfter(ptrmsg_copy', ptrmsg')
  <2>1. CASE ptrmsg_copy' = ptrmsg_copy
    BY <1>3, <2>1 DEF Chained, Numbered
  <2>2. CASE ptrmsg_copy' = ptrmsg
    BY <1>1, <1>3, <2>2 DEF Numbered
  <2>3. QED
    BY <2>1, <2>2, MessageStep
<1>5. ASSUME NEW d \in Clients, NEW k \in DOMAIN Sent'[d]
      PROVE  NotAfter(Sent'[d][k], ptrmsg_copy') /\ NotAfter(Sent'[d][k], ptrmsg')
  <2>1. CASE k \in DOMAIN Sent[d] /\ Sent'[d][k] = Sent[d][k]
    <3> DEFINE m == Sent[d][k]
    <3>1. m \in Message /\ m[3] < NextNumber[From(m)]
      BY <2>1, ElementStep DEF Numbered
    <3>2. NotAfter(m, ptrmsg_copy) /\ NotAfter(m, ptrmsg)
      BY <2>1 DEF Chained
    <3> HIDE DEF m
    <3>3. NotAfter(m, ptrmsg')
      BY <1>3, <3>1, <3>2
    <3>4. NotAfter(m, ptrmsg_copy')
      BY <3>2, MessageStep
    <3>5. QED
      BY <2>1, <3>3, <3>4 DEF m
  <2>2. CASE spc = "send" /\ Sent'[d][k] = ptrmsg_copy /\ ptrmsg_copy \in Message
    <3>1. ptrmsg_copy' = ptrmsg_copy
      BY <2>2, MessageStep
    <3>2. QED
      BY <1>1, <1>4, <2>2, <3>1
  <2>3. QED
    BY <2>1, <2>2, ElementStep
<1>6. ASSUME NEW d \in Clients, NEW a \in DOMAIN Sent'[d], NEW b \in DOMAIN Sent'[d], a < b
      PROVE  NotAfter(Sent'[d][a], Sent'[d][b])
  <2>1. /\ a \in DOMAIN Sent[d] /\ Sent'[d][a] = Sent[d][a]
        /\ \/ b \in DOMAIN Sent[d] /\ Sent'[d][b] = Sent[d][b]
           \/ Sent'[d][b] = ptrmsg_copy
    BY <1>6, PairStep
  <2>2. QED
    BY <1>6, <2>1 DEF Chained
<1>7. QED
  BY <1>4, <1>5, <1>6 DEF Chained, NotAfter, From

\* Two senders that have gone past line 126 together are not forgotten.
LEMMA StaysOneByOne ==
  ASSUME [Next]_vars, ~together'
  PROVE  ~together
BY DEF Next, past, vars, Server, Sender, Receiver, User, ServerSees, CopyMessage, Reset,
       IgnoreDot, Terminate, ReadMembers, Broadcast, SeeFree, Claim, WriteMessage, WriteBye,
       Announce, Unlock, KillReceiver, Register, Listen, Receive, ReceiveFails, Die, Start, TypeIn

\* A receiver prints the messages of each sender in the order in which they were
\* typed, whatever users do, and each of them once as long as no two senders have
\* gone from client.c:126 to client.c:129 at the same time (ptrmsg and sem2 in
\* client.c:126-175 and server.c:256-311).
THEOREM EachOnceInOrder == Spec => []InOrderOnce
<1>1. Init => Ordered
  <2> SUFFICES ASSUME Init PROVE Ordered
    OBVIOUS
  <2>1. \A d \in Clients : Sent[d] = <<>> /\ DOMAIN Sent[d] = {}
    <3>1. <<>> \o <<>> = <<>> /\ DOMAIN <<>> = {}
      BY ConcatEmptySeq, EmptySeq
    <3>2. QED
      BY <3>1 DEF Init, Sent
  <2>2. OneSender
    BY DEF Init, OneSender, Between
  <2>3. <<>> \notin Message
    BY DEF Message
  <2>4. Numbered /\ Chained
    BY <2>1, <2>3 DEF Init, Numbered, Chained
  <2>5. FreshIsNew /\ CopyIsNew /\ AllOlder
    BY <2>1 DEF Init, FreshIsNew, CopyIsNew, AllOlder
  <2>6. QED
    BY <2>2, <2>4, <2>5 DEF Ordered, OneByOne
<1>2. IInv /\ Ordered /\ [Next]_vars => Ordered'
  <2> SUFFICES ASSUME IInv, Ordered, [Next]_vars PROVE Ordered'
    OBVIOUS
  <2>1. Numbered' /\ Chained'
    BY NumberedStep, ChainedStep DEF Ordered
  <2>2. ASSUME ~together' PROVE OneByOne'
    <3>1. Numbered /\ OneSender /\ FreshIsNew /\ CopyIsNew /\ AllOlder
      BY <2>2, StaysOneByOne DEF Ordered, OneByOne
    <3>2. OneSender' /\ CopyIsNew' /\ AllOlder'
      BY <2>2, <3>1, OneSenderStep, CopyStep, OlderStep
    <3>3. FreshIsNew'
      BY <3>1, FreshStep DEF FreshIsNew
    <3>4. QED
      BY <3>2, <3>3 DEF OneByOne
  <2>3. QED
    BY <2>1, <2>2 DEF Ordered
<1>3. IInv /\ Ordered => InOrderOnce
  <2> SUFFICES ASSUME IInv, Ordered, NEW c \in Clients,
                      NEW a \in DOMAIN Sent[c], NEW b \in DOMAIN Sent[c],
                      a < b, From(Sent[c][a]) = From(Sent[c][b])
               PROVE  /\ Sent[c][a][3] <= Sent[c][b][3]
                      /\ Sent[c][a][3] = Sent[c][b][3] => together
    BY DEF InOrderOnce, Sent
  <2>1. Sent[c][a][3] <= Sent[c][b][3]
    BY DEF Ordered, Chained, NotAfter
  <2>2. ~together => Sent[c][a][3] < Sent[c][b][3]
    BY DEF Ordered, OneByOne, AllOlder, Older
  <2>3. Sent[c][a][3] \in Nat /\ Sent[c][b][3] \in Nat
    <3>1. Sent[c] \in Seq(Message)
      <4>1. got[c] \in Seq(Message) /\ inbox[c] \in Seq(Message)
        BY DEF IInv, TypeOK
      <4>2. QED
        BY <4>1, ConcatProperties DEF Sent
    <3>2. Sent[c][a] \in Message /\ Sent[c][b] \in Message
      BY <3>1, ElementOfSeq, LenProperties
    <3>3. QED
      BY <3>2, MessageParts
  <2>4. QED
    <3> DEFINE x == Sent[c][a][3]
               y == Sent[c][b][3]
    <3>1. ~together => x # y
      <4> SUFFICES ASSUME ~together PROVE x # y
        OBVIOUS
      <4>1. x < y /\ x \in Nat /\ y \in Nat
        BY <2>2, <2>3
      <4> HIDE DEF x, y
      <4>2. QED
        BY <4>1
    <3>2. QED
      BY <2>1, <3>1
<1>4. QED
  BY SpecIInv, <1>1, <1>2, <1>3, PTL DEF Spec
=============================================================================
