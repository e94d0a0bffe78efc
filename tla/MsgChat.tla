------------------------------ MODULE MsgChat ------------------------------
(***************************************************************************)
(* The chat of "assignment 6": server.c and client.c, which meet on two    *)
(* message queues.  Clients send NEW and MSG on the "up" queue; the server *)
(* answers on the "down" queue, whose messages are typed by a client's     *)
(* pid.  The server takes the pid of a message's sender from the queue's   *)
(* msg_lspid, which names the last process that sent to the queue at all.  *)
(* A message's text, its time and its wording are left out.                *)
(***************************************************************************)
EXTENDS Integers, FiniteSets, Sequences, SequencesExt, FiniteSetsExt

CONSTANTS
  Clients,        \* the client processes, named by their pids
  Names           \* the chat ids a user may enter; two users may enter one

\* map[100] holds the names.
ASSUME MsgChatAssumption ==
  IsFiniteSet(Clients) /\ Cardinality(Clients) <= 100

VARIABLES
  up,             \* the up queue, oldest first
  lspid,          \* its msg_lspid: who sent to it last
  down,           \* the down queue: what waits there for each pid
  spc, msg,       \* the server: its line, the message it handles,
  map, i,         \* its names with their pids, whom to send the list next
  cpc, name,      \* each client: its line, the chat id entered,
  chat            \* the names it was last told

server == <<spc, msg, map, i>>
client == <<cpc, name, chat>>
vars   == <<up, lspid, down, server, client>>

\* Going up: NEW with the sender's name, MSG with the name it is for.
UpMessage == {"NEW", "MSG"} \X Names
\* Going down: LIST with all names, MSG with the name it was for.
DownMessage == ({"LIST"} \X Seq(Names)) \cup ({"MSG"} \X Names)
Entry == [msgpid : Clients, nameID : Names]

Init ==
  /\ up = <<>> /\ lspid = 0 /\ down = [c \in Clients |-> <<>>]
  /\ spc = "receive" /\ msg = <<>> /\ map = <<>> /\ i = 0
  /\ cpc = [c \in Clients |-> "off"] /\ name = [c \in Clients |-> ""]
  /\ chat = [c \in Clients |-> <<>>]

\* msgsnd to the down queue, with the pid as the message's type.
SendDown(pid, m) == down' = [down EXCEPT ![pid] = Append(@, m)]

-----------------------------------------------------------------------------
(* The server's loop.                                                      *)

Receive ==
  /\ spc = "receive" /\ up # <<>>
  /\ msg' = Head(up) /\ up' = Tail(up)
  /\ spc' = "stat"
  /\ UNCHANGED <<lspid, down, map, i, client>>

NamesOf(entries) == [k \in DOMAIN entries |-> entries[k].nameID]

\* IPC_STAT, then a new entry for whoever sent last.
AddName_Sorted ==
  /\ spc = "stat" /\ msg[1] = "NEW"
  /\ map' = <<[msgpid |-> lspid, nameID |-> msg[2]]>> \o map
  /\ i' = 1 /\ spc' = "list"
  /\ UNCHANGED <<up, lspid, down, msg, client>>

AddName ==
  /\ spc = "stat" /\ msg[1] = "NEW"
  /\ map' = Append(map, [msgpid |-> lspid, nameID |-> msg[2]])
  /\ i' = 1 /\ spc' = "list"
  /\ UNCHANGED <<up, lspid, down, msg, client>>

SendList_OldOnly ==
  /\ spc = "list"
  /\ IF i < Len(map)
       THEN SendDown(map[i].msgpid, <<"LIST", NamesOf(map)>>) /\ i' = i + 1 /\ UNCHANGED spc
       ELSE spc' = "receive" /\ UNCHANGED <<down, i>>
  /\ UNCHANGED <<up, lspid, msg, map, client>>

\* The list of names goes to every entry, one msgsnd each.
SendList ==
  /\ spc = "list"
  /\ IF i <= Len(map)
       THEN SendDown(map[i].msgpid, <<"LIST", NamesOf(map)>>) /\ i' = i + 1 /\ UNCHANGED spc
       ELSE spc' = "receive" /\ UNCHANGED <<down, i>>
  /\ UNCHANGED <<up, lspid, msg, map, client>>

Holders(n) == {k \in DOMAIN map : map[k].nameID = n}

Relay_NotToSelf ==
  /\ spc = "stat" /\ msg[1] = "MSG"
  /\ IF Holders(msg[2]) # {} /\ map[Max(Holders(msg[2]))].msgpid # lspid
       THEN SendDown(map[Max(Holders(msg[2]))].msgpid, msg) ELSE UNCHANGED down
  /\ spc' = "receive"
  /\ UNCHANGED <<up, lspid, msg, map, i, client>>

\* The last entry with that name gets it; without one nothing is sent.  What
\* is appended to the text (line 236) is the receiver's name once more.
Relay ==
  /\ spc = "stat" /\ msg[1] = "MSG"
  /\ IF Holders(msg[2]) # {}
       THEN SendDown(map[Max(Holders(msg[2]))].msgpid, msg) ELSE UNCHANGED down
  /\ spc' = "receive"
  /\ UNCHANGED <<up, lspid, msg, map, i, client>>

-----------------------------------------------------------------------------
(* A client.                                                               *)

Goto(c, l) == cpc' = [cpc EXCEPT ![c] = l]

\* msgsnd to the up queue; the kernel notes the sender.
SendUp(c, m) == up' = Append(up, m) /\ lspid' = c

Join(c) ==
  /\ cpc[c] = "off"
  /\ \E n \in Names :
       name' = [name EXCEPT ![c] = n] /\ SendUp(c, <<"NEW", n>>)
  /\ Goto(c, "joining")
  /\ UNCHANGED <<down, server, chat>>

\* The user picks a number from 0 to user_count, an index of chat.
Talk_NoWait(c) ==
  /\ cpc[c] = "talk"
  /\ \E k \in DOMAIN chat[c] : SendUp(c, <<"MSG", chat[c][k]>>)
  /\ UNCHANGED <<down, server, client>>

Talk_WrongTag(c) ==
  /\ cpc[c] = "talk"
  /\ \E k \in DOMAIN chat[c] : SendUp(c, <<"LIST", chat[c][k]>>)
  /\ Goto(c, "waiting")
  /\ UNCHANGED <<down, server, name, chat>>

Talk(c) ==
  /\ cpc[c] = "talk"
  /\ \E k \in DOMAIN chat[c] : SendUp(c, <<"MSG", chat[c][k]>>)
  /\ Goto(c, "waiting")
  /\ UNCHANGED <<down, server, name, chat>>

\* The first answer is taken for a list without looking (line 88).
Welcome(c) ==
  /\ cpc[c] = "joining" /\ down[c] # <<>>
  /\ chat' = [chat EXCEPT ![c] = Head(down[c])[2]]
  /\ down' = [down EXCEPT ![c] = Tail(@)]
  /\ Goto(c, "talk")
  /\ UNCHANGED <<up, lspid, server, name>>

\* After each message sent exactly one is received, a list or a message.
Hear(c) ==
  /\ cpc[c] = "waiting" /\ down[c] # <<>>
  /\ chat' = IF Head(down[c])[1] = "LIST"
               THEN [chat EXCEPT ![c] = Head(down[c])[2]] ELSE chat
  /\ down' = [down EXCEPT ![c] = Tail(@)]
  /\ Goto(c, "talk")
  /\ UNCHANGED <<up, lspid, server, name>>

-----------------------------------------------------------------------------
Server == Receive \/ AddName \/ SendList \/ Relay

Client(c) == Join(c) \/ Welcome(c) \/ Talk(c) \/ Hear(c)

Next == Server \/ \E c \in Clients : Client(c)

Spec == Init /\ [][Next]_vars

-----------------------------------------------------------------------------
(* Properties.                                                             *)

\* The queues hold what the programs put there, the map's pids are clients.
TypeOK ==
  /\ up \in Seq(UpMessage) /\ lspid \in Clients \cup {0}
  /\ \A c \in Clients : \A k \in DOMAIN down[c] : down[c][k] \in DownMessage
  /\ spc \in {"receive", "stat", "list"} /\ msg \in UpMessage \cup {<<>>}
  /\ map \in Seq(Entry) /\ i \in 0..(Len(map) + 1)
  /\ cpc \in [Clients -> {"off", "joining", "talk", "waiting"}]
  /\ name \in [Clients -> Names \cup {""}] /\ chat \in [Clients -> Seq(Names)]

Joined == {c \in Clients : cpc[c] # "off"}

\* client.c:88 reads a client's first answer as a list whatever it is: no chat
\* message overtakes it, even when the server mistakes one client for another.
FirstIsList ==
  \A c \in Clients : cpc[c] = "joining" /\ down[c] # <<>> => Head(down[c])[1] = "LIST"

\* The number a user has learned for a friend keeps its meaning: every list that
\* arrives, however late, extends the one before it.
NumbersKeepTheirNames ==
  [][(\A c \in Clients : IsPrefix(chat[c], chat'[c]))]_vars

\* What waits on the down queue, one pair for each message.
Waiting == UNION {{c} \X DOMAIN down[c] : c \in Clients}

\* Everyone answers before he listens again, so however long the chat goes on,
\* the queues hold at most the lists and one message for each client: they do
\* not fill up, which would block server and clients on each other.
QueuesStayShort ==
  LET n == Cardinality(Joined) IN
  2 * (Len(up) + Cardinality(Waiting)) <= n * (n + 1)

\* Single clients may wait for ever, all of them never do: when the server has
\* nothing to do some client may still go on.
SomeoneTalks ==
  spc = "receive" /\ up = <<>> /\ Joined # {}
    => \E c \in Clients : cpc[c] = "talk" \/ down[c] # <<>>

\* server.c:209 gets "the pid of the receiver of this message" from the map: an
\* entry's pid is the pid of the client that announced its name.
NamesBelong == \A k \in DOMAIN map : name[map[k].msgpid] = map[k].nameID
=============================================================================
